--------------------------- MODULE Players_proofs ---------------------------
(***************************************************************************)
(* What sounds on a page, for any number of instruments, previews and      *)
(* posts, and what goes on by itself, for any cards.                       *)
(***************************************************************************)
EXTENDS MCPlayers, FiniteSetTheorems, TLAPS

Orders == {"resume", "suspend"}
Waiting == [kind : {"play"}, on : Media] \cup [kind : {"pause"}, on : Posts]

Transports == [Rhythms -> {"idle", "starting", "playing"}]
Contexts == [Rhythms -> {"none", "suspended", "running", "closed"}]
Queues == [Rhythms -> Seq(Orders)]
Flags == [Rhythms -> BOOLEAN]

TypeInv ==
  /\ hidden \in BOOLEAN
  /\ place \in [Players -> {"shown", "covered", "gone"}]
  /\ transport \in Transports /\ context \in Contexts
  /\ orders \in Queues /\ crossed \in Flags
  /\ playing \in [Media -> BOOLEAN]
  /\ events \in Seq(Waiting)
  /\ watching \in [Posts -> BOOLEAN]

-----------------------------------------------------------------------------
(* The orders a context has not carried out. *)

NoResume(q) == \A i \in DOMAIN q : q[i] # "resume"
OneResume(q) == \A i, j \in DOMAIN q : q[i] = "resume" /\ q[j] = "resume" => i = j
EndsInResume(q) == q # <<>> /\ q[Len(q)] = "resume"

LEMMA SuspendingOrders ==
  ASSUME NEW q \in Seq(Orders)
  PROVE  /\ Suspending(q) \in Seq(Orders)
         /\ NoResume(q) => NoResume(Suspending(q))
         /\ OneResume(q) => OneResume(Suspending(q))
<1>1. Append(q, "suspend") \in Seq(Orders)
  BY DEF Orders
<1>2. NoResume(q) => NoResume(Append(q, "suspend"))
  BY DEF NoResume
<1>3. OneResume(q) => OneResume(Append(q, "suspend"))
  BY DEF OneResume
<1> QED
  BY <1>1, <1>2, <1>3 DEF Suspending

LEMMA ResumingOrders ==
  ASSUME NEW q \in Seq(Orders)
  PROVE  /\ Append(q, "resume") \in Seq(Orders)
         /\ NoResume(q) => OneResume(Append(q, "resume"))
         /\ EndsInResume(Append(q, "resume"))
  BY DEF Orders, NoResume, OneResume, EndsInResume

LEMMA NextOrders ==
  ASSUME NEW q \in Seq(Orders), q # <<>>
  PROVE  /\ Tail(q) \in Seq(Orders) /\ Len(q) \in Nat \ {0}
         /\ Len(Tail(q)) = Len(q) - 1 /\ \A i \in 1..(Len(q) - 1) : Tail(q)[i] = q[i + 1]
  OBVIOUS

LEMMA NoOrders == \A q \in Seq(Orders) : Len(q) = 0 <=> q = <<>>
  OBVIOUS

LEMMA AfterResume ==
  ASSUME NEW q \in Seq(Orders), q # <<>>, Head(q) = "resume", OneResume(q)
  PROVE  NoResume(Tail(q)) /\ (EndsInResume(q) => Tail(q) = <<>>)
<1>1. 1 \in DOMAIN q /\ q[1] = "resume" /\ DOMAIN q = 1..Len(q)
  BY NextOrders
<1>2. ASSUME NEW i \in DOMAIN Tail(q) PROVE Tail(q)[i] # "resume"
  <2>1. i + 1 \in DOMAIN q /\ i + 1 # 1 /\ Tail(q)[i] = q[i + 1]
    BY <1>1, NextOrders
  <2> QED
    BY <1>1, <2>1 DEF OneResume
<1>3. ASSUME EndsInResume(q) PROVE Tail(q) = <<>>
  <2>1. Len(q) = 1
    BY <1>1, <1>3, NextOrders DEF OneResume, EndsInResume
  <2>2. Len(Tail(q)) = 0
    BY <2>1, NextOrders
  <2> QED
    BY <2>2, NextOrders, NoOrders
<1> QED
  BY <1>2, <1>3 DEF NoResume

LEMMA AfterSuspend ==
  ASSUME NEW q \in Seq(Orders), q # <<>>, Head(q) = "suspend"
  PROVE  /\ NoResume(q) => NoResume(Tail(q))
         /\ OneResume(q) => OneResume(Tail(q))
         /\ EndsInResume(q) => EndsInResume(Tail(q))
<1>1. /\ DOMAIN q = 1..Len(q) /\ DOMAIN Tail(q) = 1..(Len(q) - 1) /\ Len(q) \in Nat \ {0}
      /\ \A i \in DOMAIN Tail(q) : i + 1 \in DOMAIN q /\ Tail(q)[i] = q[i + 1]
  BY NextOrders
<1>2. NoResume(q) => NoResume(Tail(q))
  BY <1>1 DEF NoResume
<1>3. ASSUME OneResume(q), NEW i \in DOMAIN Tail(q), NEW j \in DOMAIN Tail(q),
             Tail(q)[i] = "resume", Tail(q)[j] = "resume"
      PROVE  i = j
  <2>1. i + 1 = j + 1
    BY <1>1, <1>3 DEF OneResume
  <2> QED
    BY <2>1, <1>1
<1>4. ASSUME EndsInResume(q) PROVE EndsInResume(Tail(q))
  <2>1. q[1] = "suspend" /\ Len(q) # 1
    BY <1>1, <1>4 DEF EndsInResume
  <2>2. Len(Tail(q)) = Len(q) - 1 /\ Len(q) - 1 \in 1..(Len(q) - 1) /\ Len(q) - 1 # 0
    BY <1>1, <2>1, NextOrders
  <2>3. Tail(q) # <<>>
    BY <2>2, NextOrders, NoOrders
  <2>4. Tail(q)[Len(q) - 1] = q[Len(q)]
    BY <1>1, <2>2
  <2> QED
    BY <1>4, <2>2, <2>3, <2>4 DEF EndsInResume
<1> QED
  BY <1>2, <1>3, <1>4 DEF OneResume


-----------------------------------------------------------------------------
(* The media elements and their events. *)

LEMMA PausesAreEvents ==
  ASSUME NEW M
  PROVE  PauseEvents(M) \in Seq(Waiting)
<1> DEFINE T == {m \in M \cap Posts : playing[m]}
           S == {Event("pause", m) : m \in T}
           f == [m \in T |-> Event("pause", m)]
           n == Cardinality(S)
<1>1. IsFiniteSet(T)
  BY PlayersAssumption, FS_Subset
<1>2. f \in Surjection(T, S)
  BY DEF Surjection
<1>3. IsFiniteSet(S)
  <2> HIDE DEF T, S, f
  <2> QED
    BY <1>1, <1>2, FS_Surjection
<1>4. n \in Nat /\ ExistsBijection(1..n, S)
  <2> HIDE DEF S
  <2> QED
    BY <1>3, FS_CardinalityType
<1>5. \E g \in [1..n -> S] : IsInjective(g)
  <2> HIDE DEF n, S
  <2> QED
    BY <1>4 DEF ExistsBijection, Bijection, Injection
<1>6. SetToSeq(S) \in [1..n -> S]
  BY <1>5 DEF SetToSeq
<1>7. S \subseteq Waiting
  BY DEF Event, Waiting
<1> HIDE DEF n, S
<1>8. SetToSeq(S) \in Seq(Waiting)
  BY <1>4, <1>6, <1>7
<1> QED
  BY <1>8 DEF PauseEvents, S, T

LEMMA PlaceTypes ==
  ASSUME TypeInv
  PROVE  /\ \A r \in Rhythms : r \in Players /\ r \notin Media
         /\ \A m \in Media : m \in Players /\ m \notin Rhythms
         /\ Posts \subseteq Media
         /\ place \in [Players -> {"shown", "covered", "gone"}]
  BY PlayersAssumption DEF TypeInv, Players, Media

(* An element that is silenced does not play, and the others go on. *)
LEMMA Silenced ==
  ASSUME TypeInv, NEW M, playing' = Silent(M)
  PROVE  /\ playing' \in [Media -> BOOLEAN]
         /\ \A m \in Media : playing'[m] <=> playing[m] /\ m \notin M
<1>1. \A m \in Media : playing[m] \in BOOLEAN
  BY DEF TypeInv
<1>2. playing' = [m \in Media |-> playing[m] /\ m \notin M]
  BY DEF Silent
<1> QED
  BY <1>1, <1>2

(* Events that were fired are gone, and pauses are added. *)
LEMMA WaitingEvents ==
  ASSUME TypeInv, NEW M
  PROVE  /\ events \o PauseEvents(M) \in Seq(Waiting)
         /\ events # <<>> => /\ Tail(events) \in Seq(Waiting)
                             /\ Tail(events) \o PauseEvents(M) \in Seq(Waiting)
                             /\ Head(events) \in Waiting
<1>1. events \in Seq(Waiting) /\ PauseEvents(M) \in Seq(Waiting)
  BY PausesAreEvents DEF TypeInv
<1> HIDE DEF Waiting
<1>2. events # <<>> => Tail(events) \in Seq(Waiting) /\ Head(events) \in Waiting
  BY <1>1
<1> QED
  BY <1>1, <1>2

LEMMA PlayStillWaits ==
  ASSUME TypeInv, NEW M, events' = events \o PauseEvents(M), PlayWaits
  PROVE  PlayWaits'
<1>1. PICK i \in DOMAIN events : events[i].kind = "play"
  BY DEF PlayWaits
<1>2. events \in Seq(Waiting) /\ PauseEvents(M) \in Seq(Waiting)
  BY PausesAreEvents DEF TypeInv
<1> HIDE DEF Waiting
<1>3. i \in DOMAIN (events \o PauseEvents(M)) /\ (events \o PauseEvents(M))[i] = events[i]
  BY <1>2
<1> QED
  BY <1>1, <1>3 DEF PlayWaits

LEMMA PlayWaitsFirst ==
  ASSUME TypeInv, events # <<>>, Head(events).kind = "pause", events' = Tail(events), PlayWaits
  PROVE  PlayWaits'
<1>1. PICK i \in DOMAIN events : events[i].kind = "play"
  BY DEF PlayWaits
<1>2. events \in Seq(Waiting)
  BY DEF TypeInv
<1> HIDE DEF Waiting
<1>3. i # 1 /\ i \in 1..Len(events) /\ Len(events) \in Nat
  BY <1>1, <1>2
<1>4. i - 1 \in DOMAIN Tail(events) /\ Tail(events)[i - 1] = events[i]
  BY <1>2, <1>3
<1> QED
  BY <1>1, <1>4 DEF PlayWaits

-----------------------------------------------------------------------------
(* What a step does to the rhythms. *)

LEMMA RhythmTypes ==
  ASSUME TypeInv
  PROVE  /\ transport \in Transports /\ context \in Contexts
         /\ orders \in Queues /\ crossed \in Flags
         /\ \A r \in Rhythms : orders[r] \in Seq(Orders) /\ Suspending(orders[r]) \in Seq(Orders)
<1>1. /\ transport \in Transports /\ context \in Contexts
      /\ orders \in Queues /\ crossed \in Flags
  BY DEF TypeInv
<1>2. \A r \in Rhythms : orders[r] \in Seq(Orders)
  BY <1>1 DEF Queues
<1> QED
  BY <1>1, <1>2, SuspendingOrders

(* The rhythm r was told to stop, or left alone. *)
Told(r) ==
  /\ transport'[r] = IF transport[r] = "playing" THEN "idle" ELSE transport[r]
  /\ orders'[r] = IF context[r] = "running" THEN Suspending(orders[r]) ELSE orders[r]
  /\ crossed'[r] <=> transport[r] = "starting"

Same(r) ==
  /\ transport'[r] = transport[r] /\ orders'[r] = orders[r]
  /\ crossed'[r] = crossed[r]

RhythmsTyped == transport' \in Transports /\ orders' \in Queues /\ crossed' \in Flags

LEMMA StopTells ==
  ASSUME TypeInv, NEW R, Stop(R)
  PROVE  /\ RhythmsTyped
         /\ \A r \in Rhythms : IF r \in R THEN Told(r) ELSE Same(r)
<1>1. /\ transport' = Halted(R) /\ orders' = Suspended(R) /\ crossed' = Crossing(R)
  BY DEF Stop
<1>2. transport' \in Transports /\ crossed' \in Flags
  BY <1>1, RhythmTypes DEF Halted, Crossing, Transports, Flags
<1>3. orders' \in Queues
  BY <1>1, RhythmTypes DEF Suspended, Queues
<1>4. ASSUME NEW r \in Rhythms PROVE IF r \in R THEN Told(r) ELSE Same(r)
  BY <1>1 DEF Halted, Suspended, Crossing, Told, Same
<1> QED
  BY <1>2, <1>3, <1>4 DEF RhythmsTyped

LEMMA StartTells ==
  ASSUME TypeInv, NEW r \in Rhythms, Start(r)
  PROVE  /\ RhythmsTyped /\ context' \in Contexts
         /\ transport'[r] = "starting" /\ ~crossed'[r]
         /\ orders'[r] = Append(orders[r], "resume")
         /\ \A o \in Rhythms \ {r} : /\ context'[o] = context[o]
                                     /\ IF place[o] # "gone" THEN Told(o) ELSE Same(o)
<1> DEFINE R == {o \in Rhythms \ {r} : place[o] # "gone"}
<1>1. /\ transport' = [Halted(R) EXCEPT ![r] = "starting"]
      /\ orders' = [Suspended(R) EXCEPT ![r] = Append(@, "resume")]
      /\ crossed' = [Crossing(R) EXCEPT ![r] = FALSE]
      /\ context' = [context EXCEPT ![r] = IF @ = "none" THEN "suspended" ELSE @]
  BY DEF Start, Begun
<1>2. r \notin R
  OBVIOUS
<1>3. /\ Halted(R) \in Transports /\ Suspended(R) \in Queues /\ Crossing(R) \in Flags
  BY RhythmTypes DEF Halted, Suspended, Crossing, Transports, Queues, Flags
<1>4. Suspended(R)[r] = orders[r]
  BY <1>2 DEF Suspended
<1>5. Append(orders[r], "resume") \in Seq(Orders)
  BY RhythmTypes, ResumingOrders
<1>6. transport' \in Transports /\ transport'[r] = "starting"
  BY <1>1, <1>3 DEF Transports
<1>7. orders' \in Queues /\ orders'[r] = Append(orders[r], "resume")
  BY <1>1, <1>3, <1>4, <1>5 DEF Queues
<1>8. crossed' \in Flags /\ ~crossed'[r]
  BY <1>1, <1>3 DEF Flags
<1>9. context' \in Contexts
  BY <1>1, RhythmTypes DEF Contexts
<1>10. ASSUME NEW o \in Rhythms \ {r}
       PROVE  context'[o] = context[o] /\ IF place[o] # "gone" THEN Told(o) ELSE Same(o)
  <2>1. /\ transport'[o] = Halted(R)[o] /\ orders'[o] = Suspended(R)[o]
        /\ crossed'[o] = Crossing(R)[o] /\ context'[o] = context[o]
    BY <1>1, <1>3, RhythmTypes DEF Transports, Queues, Flags, Contexts
  <2>2. o \in R <=> place[o] # "gone"
    OBVIOUS
  <2> HIDE DEF R
  <2> QED
    BY <2>1, <2>2 DEF Halted, Suspended, Crossing, Told, Same
<1> QED
  BY <1>6, <1>7, <1>8, <1>9, <1>10 DEF RhythmsTyped

(* A context carries out its next order, or is closed. *)
LEMMA ResumedTells ==
  ASSUME TypeInv, NEW r \in Rhythms, Resumed(r)
  PROVE  /\ RhythmsTyped /\ context' \in Contexts /\ context'[r] = "running"
         /\ orders[r] # <<>> /\ Head(orders[r]) = "resume"
         /\ IF Seen(r) /\ ~hidden
            THEN /\ transport'[r] = "playing" /\ orders'[r] = Tail(orders[r])
                 /\ crossed'[r] <=> crossed[r]
            ELSE /\ transport'[r] = "idle" /\ orders'[r] = Suspending(Tail(orders[r]))
                 /\ ~crossed'[r]
         /\ \A o \in Rhythms \ {r} : Same(o) /\ context'[o] = context[o]
<1>1. orders[r] # <<>> /\ orders[r] \in Seq(Orders) /\ Head(orders[r]) = "resume"
  BY RhythmTypes DEF Resumed
<1>2. Tail(orders[r]) \in Seq(Orders) /\ Suspending(Tail(orders[r])) \in Seq(Orders)
  BY <1>1, NextOrders, SuspendingOrders
<1> DEFINE plays == Seen(r) /\ ~hidden
           queue == IF plays THEN Tail(orders[r]) ELSE Suspending(Tail(orders[r]))
<1>3. /\ transport' = [transport EXCEPT ![r] = IF plays THEN "playing" ELSE "idle"]
      /\ orders' = [orders EXCEPT ![r] = queue]
      /\ crossed' = [crossed EXCEPT ![r] = crossed[r] /\ plays]
      /\ context' = [context EXCEPT ![r] = "running"]
  BY DEF Resumed, MayPlay
<1>4. queue \in Seq(Orders) /\ plays \in BOOLEAN
  BY <1>2
<1> HIDE DEF queue, plays
<1>5. RhythmsTyped /\ context' \in Contexts
  BY <1>3, <1>4, RhythmTypes DEF RhythmsTyped, Transports, Queues, Flags, Contexts
<1>6. /\ transport'[r] = IF plays THEN "playing" ELSE "idle"
      /\ orders'[r] = queue /\ context'[r] = "running"
      /\ crossed'[r] <=> crossed[r] /\ plays
  BY <1>3, <1>4, RhythmTypes DEF Transports, Queues, Flags, Contexts
<1>7. \A o \in Rhythms \ {r} : Same(o) /\ context'[o] = context[o]
  BY <1>3, RhythmTypes DEF Same, Transports, Queues, Flags, Contexts
<1> QED
  BY <1>1, <1>5, <1>6, <1>7 DEF plays, queue

LEMMA FailTells ==
  ASSUME TypeInv, NEW r \in Rhythms, ResumeFails(r)
  PROVE  /\ RhythmsTyped /\ context' = context
         /\ orders[r] # <<>> /\ Head(orders[r]) = "resume"
         /\ transport'[r] = "idle" /\ ~crossed'[r]
         /\ orders'[r] \in {Tail(orders[r]), Suspending(Tail(orders[r]))}
         /\ \A o \in Rhythms \ {r} : Same(o)
<1>1. orders[r] # <<>> /\ orders[r] \in Seq(Orders) /\ Head(orders[r]) = "resume"
  BY RhythmTypes DEF ResumeFails
<1>2. Tail(orders[r]) \in Seq(Orders) /\ Suspending(Tail(orders[r])) \in Seq(Orders)
  BY <1>1, NextOrders, SuspendingOrders
<1> DEFINE queue == IF context[r] = "running" THEN Suspending(Tail(orders[r])) ELSE Tail(orders[r])
<1>3. /\ transport' = [transport EXCEPT ![r] = "idle"]
      /\ orders' = [orders EXCEPT ![r] = queue]
      /\ crossed' = [crossed EXCEPT ![r] = FALSE] /\ context' = context
  BY DEF ResumeFails
<1>4. queue \in Seq(Orders) /\ queue \in {Tail(orders[r]), Suspending(Tail(orders[r]))}
  BY <1>2
<1> HIDE DEF queue
<1>5. RhythmsTyped /\ transport'[r] = "idle" /\ ~crossed'[r] /\ orders'[r] = queue
  BY <1>3, <1>4, RhythmTypes DEF RhythmsTyped, Transports, Queues, Flags
<1>6. \A o \in Rhythms \ {r} : Same(o)
  BY <1>3, RhythmTypes DEF Same, Transports, Queues, Flags
<1> QED
  BY <1>1, <1>3, <1>4, <1>5, <1>6

LEMMA SuspendTells ==
  ASSUME TypeInv, NEW r \in Rhythms, ContextSuspends(r)
  PROVE  /\ RhythmsTyped /\ context' \in Contexts
         /\ orders[r] # <<>> /\ Head(orders[r]) = "suspend" /\ orders'[r] = Tail(orders[r])
         /\ transport' = transport /\ crossed' = crossed
         /\ \A o \in Rhythms \ {r} : Same(o) /\ context'[o] = context[o]
<1>1. orders[r] # <<>> /\ orders[r] \in Seq(Orders) /\ Head(orders[r]) = "suspend"
  BY RhythmTypes DEF ContextSuspends
<1>2. Tail(orders[r]) \in Seq(Orders)
  BY <1>1, NextOrders
<1>3. /\ orders' = [orders EXCEPT ![r] = Tail(@)] /\ context' = [context EXCEPT ![r] = "suspended"]
      /\ transport' = transport /\ crossed' = crossed
  BY DEF ContextSuspends
<1>4. RhythmsTyped /\ context' \in Contexts /\ orders'[r] = Tail(orders[r])
  BY <1>2, <1>3, RhythmTypes DEF RhythmsTyped, Transports, Queues, Flags, Contexts
<1>5. \A o \in Rhythms \ {r} : Same(o) /\ context'[o] = context[o]
  BY <1>3, RhythmTypes DEF Same, Queues, Contexts
<1> QED
  BY <1>1, <1>3, <1>4, <1>5

LEMMA RemoveTells ==
  ASSUME TypeInv, NEW r \in Rhythms, RemoveRhythm(r)
  PROVE  /\ RhythmsTyped /\ context' \in Contexts
         /\ transport'[r] = "idle" /\ orders'[r] = <<>> /\ ~crossed'[r]
         /\ \A o \in Rhythms \ {r} : Same(o) /\ context'[o] = context[o]
<1>1. /\ transport' = [transport EXCEPT ![r] = "idle"] /\ orders' = [orders EXCEPT ![r] = <<>>]
      /\ crossed' = [crossed EXCEPT ![r] = FALSE] /\ context' = [context EXCEPT ![r] = "closed"]
  BY DEF RemoveRhythm
<1>2. <<>> \in Seq(Orders)
  OBVIOUS
<1>3. /\ RhythmsTyped /\ context' \in Contexts
      /\ transport'[r] = "idle" /\ orders'[r] = <<>> /\ ~crossed'[r]
  BY <1>1, <1>2, RhythmTypes DEF RhythmsTyped, Transports, Queues, Flags, Contexts
<1>4. \A o \in Rhythms \ {r} : Same(o) /\ context'[o] = context[o]
  BY <1>1, RhythmTypes DEF Same, Transports, Queues, Flags, Contexts
<1> QED
  BY <1>3, <1>4

-----------------------------------------------------------------------------
(* Types. *)

LEMMA InitTypes == Init => TypeInv
<1> SUFFICES ASSUME Init PROVE TypeInv
  OBVIOUS
<1>1. <<>> \in Seq(Orders) /\ <<>> \in Seq(Waiting)
  OBVIOUS
<1> QED
  BY <1>1 DEF Init, TypeInv, Transports, Contexts, Queues, Flags

LEMMA TypesAreOK == TypeInv => TypeOK
<1> SUFFICES ASSUME TypeInv PROVE TypeOK
  OBVIOUS
<1>1. \A r \in Rhythms : orders[r] \in Seq({"resume", "suspend"})
  BY DEF TypeInv, Queues, Orders
<1>2. \A i \in DOMAIN events : events[i] \in Waiting
  <2>1. events \in Seq(Waiting)
    BY DEF TypeInv
  <2> HIDE DEF Waiting
  <2> QED
    BY <2>1
<1> QED
  BY <1>1, <1>2 DEF TypeInv, TypeOK, Transports, Contexts, Flags, Waiting

RhythmsAlone == UNCHANGED <<transport, context, orders, crossed>>

LEMMA RhythmActionTypes ==
  ASSUME TypeInv, NEW r \in Rhythms,
         \/ Start(r) \/ ClickStop(r) \/ Paint(r) \/ Resumed(r)
         \/ ResumeFails(r) \/ ContextSuspends(r) \/ RemoveRhythm(r)
  PROVE  TypeInv'
<1>1. RhythmsTyped /\ context' \in Contexts
  <2>1. CASE ClickStop(r) \/ Paint(r)
    BY <2>1, StopTells DEF ClickStop, Paint, TypeInv
  <2>2. CASE ResumeFails(r)
    BY <2>2, FailTells DEF TypeInv
  <2> QED
    BY <2>1, <2>2, StartTells, ResumedTells, SuspendTells, RemoveTells
<1>2. CASE Start(r)
  <2>1. playing' = Silent(InPage) /\ events' = events \o PauseEvents(InPage)
        /\ UNCHANGED <<hidden, place, watching>>
    BY <1>2 DEF Start
  <2>2. playing' \in [Media -> BOOLEAN] /\ events' \in Seq(Waiting)
    BY <2>1, Silenced, WaitingEvents
  <2> QED
    BY <1>1, <2>1, <2>2 DEF TypeInv, RhythmsTyped
<1>3. CASE RemoveRhythm(r)
  <2>1. place' = [place EXCEPT ![r] = "gone"] /\ UNCHANGED <<hidden, playing, events, watching>>
    BY <1>3 DEF RemoveRhythm
  <2>2. place' \in [Players -> {"shown", "covered", "gone"}]
    BY <2>1, PlaceTypes
  <2> QED
    BY <1>1, <2>1, <2>2 DEF TypeInv, RhythmsTyped
<1>4. CASE ClickStop(r) \/ Paint(r) \/ Resumed(r) \/ ResumeFails(r) \/ ContextSuspends(r)
  <2>1. UNCHANGED <<hidden, place, playing, events, watching>>
    BY <1>4 DEF ClickStop, Paint, Resumed, ResumeFails, ContextSuspends
  <2> QED
    BY <1>1, <2>1 DEF TypeInv, RhythmsTyped
<1> QED
  BY <1>2, <1>3, <1>4

LEMMA MediaActionTypes ==
  ASSUME TypeInv, NEW m \in Media,
         \/ ClickPlay(m) \/ ClickPause(m) \/ Ends(m) \/ RemoveMedia(m)
         \/ (m \in Posts /\ WatchFrame(m))
  PROVE  TypeInv' /\ RhythmsAlone
<1>1. CASE ClickPlay(m)
  <2>1. /\ playing' = [playing EXCEPT ![m] = TRUE] /\ events' = Append(events, Event("play", m))
        /\ UNCHANGED <<hidden, place, transport, context, orders, watching, crossed>>
    BY <1>1 DEF ClickPlay
  <2>2. playing' \in [Media -> BOOLEAN]
    BY <2>1 DEF TypeInv
  <2>3. events' \in Seq(Waiting)
    <3>1. Event("play", m) \in Waiting /\ events \in Seq(Waiting)
      BY DEF Event, Waiting, TypeInv
    <3> HIDE DEF Waiting
    <3> QED
      BY <2>1, <3>1
  <2> QED
    BY <2>1, <2>2, <2>3 DEF TypeInv, RhythmsAlone
<1>2. CASE ClickPause(m) \/ RemoveMedia(m) \/ (m \in Posts /\ WatchFrame(m))
  <2>1. /\ playing' = Silent({m}) /\ events' = events \o PauseEvents({m})
        /\ UNCHANGED <<hidden, transport, context, orders, crossed>>
        /\ place' = place \/ place' = [place EXCEPT ![m] = "gone"]
        /\ watching' = watching \/ watching' = [watching EXCEPT ![m] = FALSE]
    BY <1>2 DEF ClickPause, RemoveMedia, WatchFrame
  <2>2. playing' \in [Media -> BOOLEAN] /\ events' \in Seq(Waiting)
    BY <2>1, Silenced, WaitingEvents
  <2>3. place' \in [Players -> {"shown", "covered", "gone"}] /\ watching' \in [Posts -> BOOLEAN]
    BY <2>1, PlaceTypes DEF TypeInv
  <2> QED
    BY <2>1, <2>2, <2>3 DEF TypeInv, RhythmsAlone
<1>3. CASE Ends(m)
  <2>1. /\ playing' = Silent({m}) /\ watching' = [n \in Posts |-> watching[n] /\ n # m]
        /\ UNCHANGED <<hidden, place, transport, context, orders, events, crossed>>
    BY <1>3 DEF Ends
  <2>2. playing' \in [Media -> BOOLEAN] /\ watching' \in [Posts -> BOOLEAN]
    BY <2>1, Silenced DEF TypeInv
  <2> QED
    BY <2>1, <2>2 DEF TypeInv, RhythmsAlone
<1> QED
  BY <1>1, <1>2, <1>3

LEMMA FirePlayIs ==
  ASSUME TypeInv, FirePlay
  PROVE  \E m \in Media, unseen \in SUBSET Media :
           /\ unseen = IF m \in Posts /\ playing[m] /\ ~Seen(m) THEN {m} ELSE {}
           /\ Stop({r \in Rhythms : place[r] # "gone" /\ place[m] # "gone"})
           /\ playing' = Silent(Others(m) \cup unseen)
           /\ events' = Tail(events) \o PauseEvents(Others(m) \cup unseen)
           /\ watching' = WatchedAfterPlay(m)
           /\ UNCHANGED <<hidden, place, context>>
<1> DEFINE m == Head(events).on
           unseen == IF m \in Posts /\ playing[m] /\ ~Seen(m) THEN {m} ELSE {}
<1>1. m \in Media
  <2>1. events # <<>> /\ Head(events).kind = "play"
    BY DEF FirePlay
  <2>2. Head(events) \in Waiting
    BY <2>1, WaitingEvents
  <2> QED
    BY <2>1, <2>2, PlaceTypes DEF Waiting
<1>2. /\ Stop({r \in Rhythms : place[r] # "gone" /\ place[m] # "gone"})
      /\ playing' = Silent(Others(m) \cup unseen)
      /\ events' = Tail(events) \o PauseEvents(Others(m) \cup unseen)
      /\ watching' = WatchedAfterPlay(m)
      /\ UNCHANGED <<hidden, place, context>>
  BY DEF FirePlay
<1> HIDE DEF m
<1>3. unseen \in SUBSET Media
  BY <1>1
<1> QED
  BY <1>1, <1>2, <1>3

LEMMA PageActionTypes ==
  ASSUME TypeInv,
         \/ \E p \in Rhythms \cup Posts : Cover(p)
         \/ FirePlay \/ FirePause \/ HideTab \/ ShowTab
  PROVE  TypeInv'
<1>1. ASSUME NEW p \in Rhythms \cup Posts, Cover(p) PROVE TypeInv'
  <2>1. p \in Players /\ place' = [place EXCEPT ![p] = IF @ = "shown" THEN "covered" ELSE "shown"]
    BY <1>1, PlaceTypes DEF Cover
  <2>2. place' \in [Players -> {"shown", "covered", "gone"}]
    BY <2>1, PlaceTypes
  <2> QED
    BY <1>1, <2>2 DEF Cover, TypeInv
<1>2. CASE FirePlay
  <2>1. PICK m \in Media, unseen \in SUBSET Media :
           /\ Stop({r \in Rhythms : place[r] # "gone" /\ place[m] # "gone"})
           /\ playing' = Silent(Others(m) \cup unseen)
           /\ events' = Tail(events) \o PauseEvents(Others(m) \cup unseen)
           /\ watching' = WatchedAfterPlay(m)
           /\ UNCHANGED <<hidden, place, context>>
    BY <1>2, FirePlayIs
  <2>2. playing' \in [Media -> BOOLEAN] /\ RhythmsTyped
    BY <2>1, Silenced, StopTells
  <2>3. events' \in Seq(Waiting)
    BY <1>2, <2>1, WaitingEvents DEF FirePlay
  <2>4. watching' \in [Posts -> BOOLEAN]
    <3>1. \A n \in Posts : (IF n = m THEN playing[m] /\ Seen(m) ELSE watching[n]) \in BOOLEAN
      BY DEF TypeInv
    <3> QED
      BY <2>1, <3>1 DEF WatchedAfterPlay
  <2> QED
    BY <2>1, <2>2, <2>3, <2>4 DEF TypeInv, RhythmsTyped
<1>3. CASE FirePause
  <2>1. events' \in Seq(Waiting) /\ watching' \in [Posts -> BOOLEAN]
        /\ UNCHANGED <<hidden, place, transport, context, orders, playing, crossed>>
    BY <1>3, WaitingEvents DEF FirePause, TypeInv
  <2> QED
    BY <2>1 DEF TypeInv
<1>4. CASE HideTab \/ ShowTab
  <2>1. RhythmsTyped
    BY <1>4, StopTells DEF HideTab, ShowTab, TypeInv, RhythmsTyped
  <2> QED
    BY <1>4, <2>1 DEF HideTab, ShowTab, TypeInv, RhythmsTyped
<1> QED
  BY <1>1, <1>2, <1>3, <1>4

LEMMA TypesKept == TypeInv /\ [Next]_vars => TypeInv'
<1> SUFFICES ASSUME TypeInv, [Next]_vars PROVE TypeInv'
  OBVIOUS
<1>1. CASE UNCHANGED vars
  BY <1>1 DEF vars, TypeInv
<1>2. CASE Next
  BY <1>2, RhythmActionTypes, MediaActionTypes, PageActionTypes, PlaceTypes DEF Next
<1> QED
  BY <1>1, <1>2

-----------------------------------------------------------------------------
(* A rhythm that plays, and was not told to stop while it was starting, has
   nothing left to do for its context; one that starts so has the resume() it
   awaits as the last order.  Told to stop or not, it awaits one resume() while
   it starts and none otherwise. *)
RhythmOK(r) ==
  /\ place[r] = "gone" => transport[r] = "idle" /\ orders[r] = <<>>
  /\ transport[r] # "starting" => NoResume(orders[r])
  /\ OneResume(orders[r])
  /\ transport[r] = "starting" /\ ~crossed[r] => EndsInResume(orders[r])
  /\ transport[r] = "playing" /\ ~crossed[r] => context[r] = "running" /\ orders[r] = <<>>
  /\ hidden => transport[r] # "playing"

RhythmInv == \A r \in Rhythms : RhythmOK(r)

(* A media element that was removed does not play. *)
GoneInv == \A m \in Media : place[m] = "gone" => ~playing[m]

(* The rhythms that play, or will, and were not told to stop. *)
Live == {r \in Rhythms : transport[r] # "idle" /\ ~crossed[r]}

(* At most one media element plays, and none beside a rhythm. *)
Alone ==
  /\ \A m, n \in Media : playing[m] /\ playing[n] => m = n
  /\ \A m \in Media : playing[m] => Live = {}

(* A media element that was started last is alone when its event has fired. *)
SoundInv ==
  /\ \A r, s \in Live : r = s
  /\ PlayWaits \/ Alone

PageInv == TypeInv /\ RhythmInv /\ GoneInv /\ SoundInv

-----------------------------------------------------------------------------
LEMMA EmptyOrders == NoResume(<<>>) /\ OneResume(<<>>)
  BY DEF NoResume, OneResume

LEMMA ToldKeeps ==
  ASSUME TypeInv, NEW r \in Rhythms, RhythmOK(r), Told(r), place[r] # "gone",
         place' = place, context'[r] = context[r]
  PROVE  RhythmOK(r)'
<1>1. transport[r] \in {"idle", "starting", "playing"} /\ orders[r] \in Seq(Orders)
  BY RhythmTypes DEF Transports
<1>2. /\ NoResume(orders[r]) => NoResume(orders'[r])
      /\ OneResume(orders[r]) => OneResume(orders'[r])
  BY <1>1, SuspendingOrders DEF Told
<1>3. /\ transport'[r] # "playing" /\ (transport'[r] = "starting" => transport[r] = "starting")
      /\ (transport[r] = "starting" => crossed'[r] /\ transport'[r] = "starting")
  BY <1>1 DEF Told
<1> QED
  BY <1>2, <1>3 DEF RhythmOK

LEMMA SameKeeps ==
  ASSUME NEW r \in Rhythms, RhythmOK(r), Same(r), context'[r] = context[r],
         place'[r] = "gone" => place[r] = "gone", hidden' => hidden
  PROVE  RhythmOK(r)'
  BY DEF RhythmOK, Same

LEMMA StopKeeps ==
  ASSUME TypeInv, RhythmInv, NEW R, Stop(R), \A r \in R : place[r] # "gone",
         \/ hidden' => hidden
         \/ \A r \in Rhythms \ R : transport[r] # "playing",
         UNCHANGED <<place, context>>
  PROVE  RhythmInv'
<1> SUFFICES ASSUME NEW r \in Rhythms PROVE RhythmOK(r)'
  BY DEF RhythmInv
<1>1. IF r \in R THEN Told(r) ELSE Same(r)
  BY StopTells
<1>2. CASE r \in R
  BY <1>1, <1>2, ToldKeeps DEF RhythmInv
<1>3. CASE r \notin R /\ (hidden' => hidden)
  BY <1>1, <1>3, SameKeeps DEF RhythmInv
<1>4. CASE r \notin R /\ transport[r] # "playing"
  BY <1>1, <1>4 DEF RhythmInv, RhythmOK, Same
<1> QED
  BY <1>2, <1>3, <1>4

LEMMA RhythmsKept == TypeInv /\ RhythmInv /\ [Next]_vars => RhythmInv'
<1> SUFFICES ASSUME TypeInv, RhythmInv, [Next]_vars PROVE RhythmInv'
  OBVIOUS
<1>p. \A m \in Media, r \in Rhythms : [place EXCEPT ![m] = "gone"][r] = place[r]
  BY PlaceTypes
<1>0. ASSUME RhythmsAlone, \A r \in Rhythms : place'[r] = "gone" => place[r] = "gone", hidden' => hidden
      PROVE  RhythmInv'
  BY <1>0, SameKeeps DEF RhythmInv, RhythmsAlone, Same
<1>1. ASSUME NEW r \in Rhythms, Start(r) PROVE RhythmInv'
  <2> SUFFICES ASSUME NEW o \in Rhythms PROVE RhythmOK(o)'
    BY DEF RhythmInv
  <2>1. UNCHANGED <<hidden, place>> /\ transport[r] = "idle" /\ ~hidden /\ Seen(r)
    BY <1>1 DEF Start
  <2>2. CASE o = r
    <3>1. /\ transport'[r] = "starting" /\ orders'[r] = Append(orders[r], "resume")
      BY <1>1, StartTells
    <3>2. OneResume(orders'[r]) /\ EndsInResume(orders'[r])
      BY <2>1, <3>1, RhythmTypes, ResumingOrders DEF RhythmInv, RhythmOK
    <3> QED
      BY <2>1, <2>2, <3>1, <3>2 DEF RhythmOK, Seen
  <2>3. CASE o # r
    <3>1. context'[o] = context[o] /\ IF place[o] # "gone" THEN Told(o) ELSE Same(o)
      BY <1>1, <2>3, StartTells
    <3> QED
      BY <2>1, <3>1, ToldKeeps, SameKeeps DEF RhythmInv
  <2> QED
    BY <2>2, <2>3
<1>2. ASSUME NEW r \in Rhythms, ClickStop(r) \/ Paint(r) PROVE RhythmInv'
  <2>1. Stop({r}) /\ UNCHANGED <<hidden, place, context>> /\ transport[r] = "playing"
    BY <1>2 DEF ClickStop, Paint
  <2>2. place[r] # "gone"
    BY <2>1 DEF RhythmInv, RhythmOK
  <2> QED
    BY <2>1, <2>2, StopKeeps
<1>3. ASSUME NEW r \in Rhythms, Resumed(r) PROVE RhythmInv'
  <2> SUFFICES ASSUME NEW o \in Rhythms PROVE RhythmOK(o)'
    BY DEF RhythmInv
  <2>1. UNCHANGED <<hidden, place>>
    BY <1>3 DEF Resumed
  <2>2. CASE o = r
    <3>1. orders[r] \in Seq(Orders) /\ orders[r] # <<>> /\ Head(orders[r]) = "resume"
          /\ context'[r] = "running"
      BY <1>3, ResumedTells, RhythmTypes
    <3>2. transport[r] = "starting" /\ place[r] # "gone" /\ OneResume(orders[r])
      <4>1. ~NoResume(orders[r])
        BY <3>1, NextOrders DEF NoResume
      <4> QED
        BY <3>1, <4>1 DEF RhythmInv, RhythmOK
    <3>3. /\ Tail(orders[r]) \in Seq(Orders) /\ NoResume(Tail(orders[r])) /\ OneResume(Tail(orders[r]))
          /\ ~crossed[r] => Tail(orders[r]) = <<>>
      BY <3>1, <3>2, AfterResume, NextOrders DEF RhythmInv, RhythmOK, NoResume, OneResume
    <3>4. CASE Seen(r) /\ ~hidden
      <4>1. transport'[r] = "playing" /\ orders'[r] = Tail(orders[r]) /\ (crossed'[r] <=> crossed[r])
        BY <1>3, <3>4, ResumedTells
      <4> QED
        BY <2>1, <2>2, <3>1, <3>2, <3>3, <3>4, <4>1 DEF RhythmOK
    <3>5. CASE ~(Seen(r) /\ ~hidden)
      <4>1. transport'[r] = "idle" /\ orders'[r] = Suspending(Tail(orders[r])) /\ ~crossed'[r]
        BY <1>3, <3>5, ResumedTells
      <4>2. NoResume(orders'[r]) /\ OneResume(orders'[r])
        BY <3>3, <4>1, SuspendingOrders
      <4> QED
        BY <2>1, <2>2, <3>2, <4>1, <4>2 DEF RhythmOK
    <3> QED
      BY <3>4, <3>5
  <2>3. CASE o # r
    BY <1>3, <2>1, <2>3, ResumedTells, SameKeeps DEF RhythmInv
  <2> QED
    BY <2>2, <2>3
<1>4. ASSUME NEW r \in Rhythms, ResumeFails(r) PROVE RhythmInv'
  <2> SUFFICES ASSUME NEW o \in Rhythms PROVE RhythmOK(o)'
    BY DEF RhythmInv
  <2>1. UNCHANGED <<hidden, place>>
    BY <1>4 DEF ResumeFails
  <2>2. CASE o = r
    <3>1. /\ orders[r] \in Seq(Orders) /\ orders[r] # <<>> /\ Head(orders[r]) = "resume"
          /\ transport'[r] = "idle"
          /\ orders'[r] \in {Tail(orders[r]), Suspending(Tail(orders[r]))}
      BY <1>4, FailTells, RhythmTypes
    <3>2. OneResume(orders[r]) /\ place[r] # "gone"
      BY <3>1 DEF RhythmInv, RhythmOK
    <3>3. Tail(orders[r]) \in Seq(Orders) /\ NoResume(Tail(orders[r])) /\ OneResume(Tail(orders[r]))
      BY <3>1, <3>2, AfterResume, NextOrders DEF NoResume, OneResume
    <3>4. NoResume(orders'[r]) /\ OneResume(orders'[r])
      BY <3>1, <3>3, SuspendingOrders
    <3> QED
      BY <2>1, <2>2, <3>1, <3>2, <3>4 DEF RhythmOK
  <2>3. CASE o # r
    BY <1>4, <2>1, <2>3, FailTells, SameKeeps DEF RhythmInv
  <2> QED
    BY <2>2, <2>3
<1>5. ASSUME NEW r \in Rhythms, ContextSuspends(r) PROVE RhythmInv'
  <2> SUFFICES ASSUME NEW o \in Rhythms PROVE RhythmOK(o)'
    BY DEF RhythmInv
  <2>1. UNCHANGED <<hidden, place>>
    BY <1>5 DEF ContextSuspends
  <2>2. CASE o = r
    <3>1. /\ orders[r] \in Seq(Orders) /\ orders[r] # <<>> /\ Head(orders[r]) = "suspend"
          /\ orders'[r] = Tail(orders[r]) /\ transport' = transport /\ crossed' = crossed
      BY <1>5, SuspendTells, RhythmTypes
    <3>2. place[r] # "gone" /\ ~(transport[r] = "playing" /\ ~crossed[r])
      BY <3>1 DEF RhythmInv, RhythmOK
    <3>3. /\ NoResume(orders[r]) => NoResume(orders'[r])
          /\ OneResume(orders[r]) => OneResume(orders'[r])
          /\ EndsInResume(orders[r]) => EndsInResume(orders'[r])
      BY <3>1, AfterSuspend
    <3> QED
      BY <2>1, <2>2, <3>1, <3>2, <3>3 DEF RhythmInv, RhythmOK
  <2>3. CASE o # r
    BY <1>5, <2>1, <2>3, SuspendTells, SameKeeps DEF RhythmInv
  <2> QED
    BY <2>2, <2>3
<1>6. ASSUME NEW r \in Rhythms, RemoveRhythm(r) PROVE RhythmInv'
  <2> SUFFICES ASSUME NEW o \in Rhythms PROVE RhythmOK(o)'
    BY DEF RhythmInv
  <2>1. place' = [place EXCEPT ![r] = "gone"] /\ UNCHANGED hidden
    BY <1>6 DEF RemoveRhythm
  <2>2. CASE o = r
    BY <1>6, <2>2, RemoveTells, EmptyOrders DEF RhythmOK
  <2>3. CASE o # r
    <3>1. place'[o] = place[o]
      BY <2>1, <2>3, PlaceTypes
    <3> QED
      BY <1>6, <2>1, <2>3, <3>1, RemoveTells, SameKeeps DEF RhythmInv
  <2> QED
    BY <2>2, <2>3
<1>7. ASSUME NEW m \in Media,
             \/ ClickPlay(m) \/ ClickPause(m) \/ Ends(m) \/ RemoveMedia(m)
             \/ (m \in Posts /\ WatchFrame(m))
      PROVE  RhythmInv'
  <2>1. RhythmsAlone
    BY <1>7, MediaActionTypes
  <2>2. hidden' = hidden /\ (place' = place \/ place' = [place EXCEPT ![m] = "gone"])
    BY <1>7 DEF ClickPlay, ClickPause, Ends, RemoveMedia, WatchFrame
  <2> QED
    BY <1>0, <1>p, <2>1, <2>2
<1>8. ASSUME NEW p \in Rhythms \cup Posts, Cover(p) PROVE RhythmInv'
  <2>1. /\ place' = [place EXCEPT ![p] = IF @ = "shown" THEN "covered" ELSE "shown"]
        /\ RhythmsAlone /\ hidden' = hidden
    BY <1>8 DEF Cover, RhythmsAlone
  <2>2. \A r \in Rhythms : place'[r] = "gone" => place[r] = "gone"
    BY <2>1, PlaceTypes
  <2> QED
    BY <1>0, <2>1, <2>2
<1>9. CASE FirePlay
  <2>1. PICK m \in Media : /\ Stop({r \in Rhythms : place[r] # "gone" /\ place[m] # "gone"})
                           /\ UNCHANGED <<hidden, place, context>>
    BY <1>9, FirePlayIs
  <2> QED
    BY <2>1, StopKeeps
<1>10. CASE FirePause \/ ShowTab
  BY <1>0, <1>10 DEF FirePause, ShowTab, RhythmsAlone
<1>11. CASE HideTab
  <2> DEFINE R == {r \in Rhythms : place[r] # "gone"}
  <2>1. Stop(R) /\ UNCHANGED <<place, context>>
    BY <1>11 DEF HideTab
  <2>2. \A r \in Rhythms \ R : transport[r] # "playing"
    BY DEF RhythmInv, RhythmOK
  <2> QED
    BY <2>1, <2>2, StopKeeps
<1>12. CASE UNCHANGED vars
  BY <1>0, <1>12 DEF vars, RhythmsAlone
<1> QED
  BY <1>1, <1>2, <1>3, <1>4, <1>5, <1>6, <1>7, <1>8, <1>9, <1>10, <1>11, <1>12, PlaceTypes DEF Next

LEMMA GoneKept == TypeInv /\ GoneInv /\ [Next]_vars => GoneInv'
<1> SUFFICES ASSUME TypeInv, GoneInv, [Next]_vars PROVE GoneInv'
  OBVIOUS
<1>0. ASSUME NEW M, playing' = Silent(M), UNCHANGED place PROVE GoneInv'
  BY <1>0, Silenced DEF GoneInv
<1>1. ASSUME NEW r \in Rhythms, Start(r) PROVE GoneInv'
  BY <1>0, <1>1 DEF Start
<1>2. ASSUME NEW r \in Rhythms, RemoveRhythm(r) PROVE GoneInv'
  <2>1. place' = [place EXCEPT ![r] = "gone"] /\ playing' = playing
    BY <1>2 DEF RemoveRhythm
  <2>2. \A m \in Media : place'[m] = place[m]
    BY <2>1, PlaceTypes
  <2> QED
    BY <2>1, <2>2 DEF GoneInv
<1>3. ASSUME NEW m \in Media, ClickPlay(m) PROVE GoneInv'
  <2>1. place' = place /\ place[m] # "gone" /\ playing' = [playing EXCEPT ![m] = TRUE]
    BY <1>3 DEF ClickPlay, Seen
  <2> QED
    BY <2>1 DEF GoneInv, TypeInv
<1>4. ASSUME NEW m \in Media, ClickPause(m) \/ Ends(m) \/ (m \in Posts /\ WatchFrame(m)) PROVE GoneInv'
  BY <1>0, <1>4 DEF ClickPause, Ends, WatchFrame
<1>5. ASSUME NEW m \in Media, RemoveMedia(m) PROVE GoneInv'
  <2>1. place' = [place EXCEPT ![m] = "gone"] /\ playing' = Silent({m})
    BY <1>5 DEF RemoveMedia
  <2>2. \A n \in Media : place'[n] = "gone" => n = m \/ place[n] = "gone"
    BY <2>1, PlaceTypes
  <2> QED
    BY <2>1, <2>2, Silenced DEF GoneInv
<1>6. ASSUME NEW p \in Rhythms \cup Posts, Cover(p) PROVE GoneInv'
  <2>1. /\ place' = [place EXCEPT ![p] = IF @ = "shown" THEN "covered" ELSE "shown"]
        /\ playing' = playing
    BY <1>6 DEF Cover
  <2>2. \A m \in Media : place'[m] = "gone" => place[m] = "gone"
    BY <2>1, PlaceTypes
  <2> QED
    BY <2>1, <2>2 DEF GoneInv
<1>7. CASE FirePlay
  BY <1>0, <1>7, FirePlayIs
<1>8. ASSUME UNCHANGED <<place, playing>> PROVE GoneInv'
  BY <1>8 DEF GoneInv
<1>9. ASSUME NEW r \in Rhythms,
             ClickStop(r) \/ Paint(r) \/ Resumed(r) \/ ResumeFails(r) \/ ContextSuspends(r)
      PROVE  GoneInv'
  BY <1>8, <1>9 DEF ClickStop, Paint, Resumed, ResumeFails, ContextSuspends
<1>10. CASE FirePause \/ HideTab \/ ShowTab \/ UNCHANGED vars
  BY <1>8, <1>10 DEF FirePause, HideTab, ShowTab, vars
<1> QED
  BY <1>1, <1>2, <1>3, <1>4, <1>5, <1>6, <1>7, <1>9, <1>10, PlaceTypes DEF Next

-----------------------------------------------------------------------------
(* A rhythm that was told to stop is not live. *)
LEMMA ToldIsNotLive ==
  ASSUME TypeInv, NEW r \in Rhythms, Told(r)
  PROVE  r \notin Live'
  BY RhythmTypes DEF Told, Live, Transports

LEMMA SameIsLive ==
  ASSUME NEW r \in Rhythms, Same(r), r \in Live'
  PROVE  r \in Live
  BY DEF Same, Live

LEMMA StopEndsLive ==
  ASSUME TypeInv, NEW R, Stop(R)
  PROVE  Live' \subseteq Live \ R
<1> SUFFICES ASSUME NEW r \in Rhythms, r \in Live' PROVE r \in Live /\ r \notin R
  BY DEF Live
<1> QED
  BY StopTells, ToldIsNotLive, SameIsLive

(* Nothing new sounds, and no `play' event is fired. *)
LEMMA NothingNew ==
  ASSUME TypeInv, SoundInv, Live' \subseteq Live,
         \A m \in Media : playing'[m] => playing[m],
         PlayWaits => PlayWaits'
  PROVE  SoundInv'
<1>1. \A r, s \in Live' : r = s
  BY DEF SoundInv
<1>2. Alone => Alone'
  BY DEF Alone
<1> QED
  BY <1>1, <1>2 DEF SoundInv

LEMMA OneRhythmSounds ==
  ASSUME TypeInv, RhythmInv, SoundInv, NEW r \in Rhythms,
         ClickStop(r) \/ Paint(r) \/ Resumed(r) \/ ResumeFails(r) \/ ContextSuspends(r) \/ RemoveRhythm(r)
  PROVE  SoundInv'
<1>1. UNCHANGED <<playing, events>>
  BY DEF ClickStop, Paint, Resumed, ResumeFails, ContextSuspends, RemoveRhythm
<1>2. Live' \subseteq Live
  <2> SUFFICES ASSUME NEW o \in Rhythms, o \in Live' PROVE o \in Live
    BY DEF Live
  <2>1. CASE ClickStop(r) \/ Paint(r)
    BY <2>1, StopEndsLive DEF ClickStop, Paint
  <2>2. CASE Resumed(r)
    <3>1. ~NoResume(orders[r])
      <4>1. orders[r] \in Seq(Orders) /\ orders[r] # <<>> /\ Head(orders[r]) = "resume"
        BY <2>2, ResumedTells, RhythmTypes
      <4> QED
        BY <4>1, NextOrders DEF NoResume
    <3>2. transport[r] = "starting"
      BY <3>1 DEF RhythmInv, RhythmOK
    <3>3. o = r => ~crossed[r]
      BY <2>2, ResumedTells DEF Live
    <3> QED
      BY <2>2, <3>2, <3>3, ResumedTells, SameIsLive DEF Live
  <2>3. CASE ResumeFails(r)
    BY <2>3, FailTells, SameIsLive DEF Live
  <2>4. CASE ContextSuspends(r)
    BY <2>4, SuspendTells DEF Live
  <2>5. CASE RemoveRhythm(r)
    BY <2>5, RemoveTells, SameIsLive DEF Live
  <2> QED
    BY <2>1, <2>2, <2>3, <2>4, <2>5
<1>3. PlayWaits => PlayWaits'
  BY <1>1 DEF PlayWaits
<1> QED
  BY <1>1, <1>2, <1>3, NothingNew

LEMMA StartSounds ==
  ASSUME TypeInv, RhythmInv, GoneInv, NEW r \in Rhythms, Start(r)
  PROVE  SoundInv'
<1>1. playing' = Silent(InPage)
  BY DEF Start
<1>2. \A m \in Media : ~playing'[m]
  BY <1>1, Silenced, PlaceTypes DEF GoneInv, InPage
<1>3. Live' \subseteq {r}
  <2> SUFFICES ASSUME NEW o \in Rhythms, o # r PROVE o \notin Live'
    BY DEF Live
  <2>1. CASE place[o] # "gone"
    BY <2>1, StartTells, ToldIsNotLive
  <2>2. CASE place[o] = "gone"
    BY <2>2, StartTells DEF Same, Live, RhythmInv, RhythmOK
  <2> QED
    BY <2>1, <2>2
<1> QED
  BY <1>2, <1>3 DEF SoundInv, Alone

LEMMA FirePlaySounds ==
  ASSUME TypeInv, RhythmInv, GoneInv, SoundInv, FirePlay
  PROVE  SoundInv'
<1>1. PICK m \in Media, unseen \in SUBSET Media :
         /\ Stop({r \in Rhythms : place[r] # "gone" /\ place[m] # "gone"})
         /\ playing' = Silent(Others(m) \cup unseen)
  BY FirePlayIs
<1> DEFINE R == {r \in Rhythms : place[r] # "gone" /\ place[m] # "gone"}
<1>2. Live' \subseteq Live \ R
  BY <1>1, StopEndsLive
<1>3. \A n \in Media : playing'[n] => n = m /\ playing[m]
  BY <1>1, Silenced, PlaceTypes DEF GoneInv, Others, InPage
<1>4. ASSUME playing'[m] PROVE Live' = {}
  <2>1. place[m] # "gone"
    BY <1>3, <1>4 DEF GoneInv
  <2>2. \A r \in Live : place[r] # "gone"
    BY DEF Live, RhythmInv, RhythmOK
  <2>3. Live \subseteq R
    BY <2>1, <2>2 DEF Live
  <2> QED
    BY <1>2, <2>3
<1>5. Alone'
  BY <1>3, <1>4 DEF Alone
<1>6. \A r, s \in Live' : r = s
  BY <1>2 DEF SoundInv
<1> QED
  BY <1>5, <1>6 DEF SoundInv

LEMMA SoundKept == PageInv /\ [Next]_vars => SoundInv'
<1> SUFFICES ASSUME TypeInv, RhythmInv, GoneInv, SoundInv, [Next]_vars PROVE SoundInv'
  BY DEF PageInv
<1>0. RhythmsAlone => Live' = Live
  BY DEF RhythmsAlone, Live
<1>1. ASSUME NEW m \in Media, ClickPlay(m) PROVE SoundInv'
  <2>1. RhythmsAlone /\ events' = Append(events, Event("play", m))
    BY <1>1 DEF ClickPlay, RhythmsAlone
  <2>2. Len(events) + 1 \in DOMAIN events' /\ events'[Len(events) + 1] = Event("play", m)
    <3>1. events \in Seq(Waiting)
      BY DEF TypeInv
    <3> HIDE DEF Waiting
    <3> QED
      BY <2>1, <3>1
  <2>3. PlayWaits'
    BY <2>2 DEF PlayWaits, Event
  <2> QED
    BY <1>0, <2>1, <2>3 DEF SoundInv
<1>2. ASSUME NEW m \in Media, ClickPause(m) \/ RemoveMedia(m) \/ (m \in Posts /\ WatchFrame(m))
      PROVE  SoundInv'
  <2>1. RhythmsAlone /\ playing' = Silent({m}) /\ events' = events \o PauseEvents({m})
    BY <1>2 DEF ClickPause, RemoveMedia, WatchFrame, RhythmsAlone
  <2> QED
    BY <1>0, <2>1, Silenced, PlayStillWaits, NothingNew
<1>3. ASSUME NEW m \in Media, Ends(m) PROVE SoundInv'
  <2>1. RhythmsAlone /\ playing' = Silent({m}) /\ events' = events
    BY <1>3 DEF Ends, RhythmsAlone
  <2>2. PlayWaits => PlayWaits'
    BY <2>1 DEF PlayWaits
  <2> QED
    BY <1>0, <2>1, <2>2, Silenced, NothingNew
<1>4. CASE FirePause
  <2>1. RhythmsAlone /\ playing' = playing
    BY <1>4 DEF FirePause, RhythmsAlone
  <2>2. PlayWaits => PlayWaits'
    BY <1>4, PlayWaitsFirst DEF FirePause
  <2> QED
    BY <1>0, <2>1, <2>2, NothingNew
<1>5. CASE HideTab
  <2>1. Live' \subseteq Live /\ UNCHANGED <<playing, events>>
    BY <1>5, StopEndsLive DEF HideTab
  <2>2. PlayWaits => PlayWaits'
    BY <2>1 DEF PlayWaits
  <2> QED
    BY <2>1, <2>2, NothingNew
<1>6. CASE ShowTab \/ (\E p \in Rhythms \cup Posts : Cover(p)) \/ UNCHANGED vars
  <2>1. RhythmsAlone /\ UNCHANGED <<playing, events>>
    BY <1>6 DEF ShowTab, Cover, vars, RhythmsAlone
  <2>2. PlayWaits => PlayWaits'
    BY <2>1 DEF PlayWaits
  <2> QED
    BY <1>0, <2>1, <2>2, NothingNew
<1> QED
  BY <1>1, <1>2, <1>3, <1>4, <1>5, <1>6, StartSounds, FirePlaySounds, OneRhythmSounds, PlaceTypes
     DEF Next

LEMMA PageInit == Init => PageInv
<1> SUFFICES ASSUME Init PROVE PageInv
  OBVIOUS
<1>1. TypeInv
  BY InitTypes
<1>2. RhythmInv
  BY <1>1, EmptyOrders, PlaceTypes DEF Init, RhythmInv, RhythmOK
<1>3. GoneInv /\ SoundInv
  BY <1>1, PlaceTypes DEF Init, GoneInv, SoundInv, Alone, Live
<1> QED
  BY <1>1, <1>2, <1>3 DEF PageInv

LEMMA PageKept == PageInv /\ [Next]_vars => PageInv'
  BY TypesKept, RhythmsKept, GoneKept, SoundKept DEF PageInv

LEMMA PageInvariant == Spec => []PageInv
  BY PageInit, PageKept, PTL DEF Spec

(* Once the `play' events have fired at most one player sounds, for any
   instruments, previews and posts, unless a rhythm plays that was told to stop
   while it awaited its context (the `play' listeners of rhythm.js,
   audio-player.js and preview-template.js). *)
THEOREM OneSounds == Spec => []OneSoundingUnlessCrossed
<1>1. PageInv => OneSoundingUnlessCrossed
  <2> SUFFICES ASSUME PageInv, ~PlayWaits, \A r \in Rhythms : transport[r] = "playing" => ~crossed[r]
               PROVE  Cardinality(Sounding) <= 1
    BY TypesAreOK DEF PageInv, OneSoundingUnlessCrossed
  <2>1. Alone /\ \A r, s \in Live : r = s
    BY DEF PageInv, SoundInv
  <2>2. \A r \in Rhythms : transport[r] = "playing" => r \in Live
    BY DEF Live
  <2>3. \A x, y \in Sounding : x = y
    BY <2>1, <2>2 DEF Sounding, Alone
  <2>4. CASE Sounding = {}
    BY <2>4, FS_EmptySet
  <2>5. CASE Sounding # {}
    <3>1. PICK x \in Sounding : TRUE
      BY <2>5
    <3>2. Sounding = {x}
      BY <2>3, <3>1
    <3>3. Cardinality({x}) = 1
      BY FS_Singleton
    <3> QED
      BY <3>2, <3>3
  <2> QED
    BY <2>4, <2>5
<1> QED
  BY <1>1, PageInvariant, PTL

(* A rhythm that shows itself playing is heard, however its start, a stop and
   a new start meet in its context's orders, unless it was told to stop while it
   awaited its context; and none plays in a hidden tab (start, stop and paint of
   rhythm.js). *)
THEOREM PlayingIsHeard == Spec => []HeardOrQuiet
<1>1. PageInv => HeardOrQuiet
  BY DEF PageInv, RhythmInv, RhythmOK, HeardOrQuiet, HeardUnlessCrossed, QuietWhenHidden
<1> QED
  BY <1>1, PageInvariant, PTL

-----------------------------------------------------------------------------
(* The cards of the page. *)

(* A frame or a timeout of a preview that left the page is the last. *)
LastOne(c) ==
  /\ element[c] # "gone" => ranOn[c] = 0
  /\ ranOn[c] >= 1 => due[c] = "none"
  /\ ranOn[c] <= 1

CardsInv == Cards!TypeOK /\ \A c \in (Drawings \cup Typings) \ Opened : LastOne(c)

LEMMA CardSets ==
  /\ Drawings \subseteq Cards!Cards /\ Typings \subseteq Cards!Cards
  /\ Polls \subseteq Cards!Cards /\ Embeds \subseteq Cards!Cards
  /\ Drawings \cap Typings = {} /\ (Drawings \cup Typings) \cap (Polls \cup Embeds) = {}
  /\ MaxAsked \in Nat \ {0}
  BY CardConstants DEF Cards!WidgetsAssumption, Cards!Cards

LEMMA CardsInit == Cards!Init => CardsInv
<1> SUFFICES ASSUME Cards!Init PROVE CardsInv
  OBVIOUS
<1>1. Cards!TypeOK
  <2> USE DEF Cards!Init
  <2>1. hidden \in BOOLEAN
    OBVIOUS
  <2>2. element \in [Cards!Cards -> {"none", "there", "gone"}]
    OBVIOUS
  <2>3. due \in [Cards!Cards -> {"none", "frame", "timeout", "interval"}]
    OBVIOUS
  <2>4. asked \in [Polls -> 0..MaxAsked]
    BY CardSets
  <2>5. embed \in [Embeds -> {"none", "checking", "link", "frame"}]
    OBVIOUS
  <2>6. ranOn \in [Cards!Cards -> 0..2]
    OBVIOUS
  <2> QED
    BY <2>1, <2>2, <2>3, <2>4, <2>5, <2>6 DEF Cards!TypeOK
<1>2. ASSUME NEW c \in (Drawings \cup Typings) \ Opened PROVE LastOne(c)
  <2>1. c \in Cards!Cards
    BY CardSets
  <2> QED
    BY <2>1 DEF Cards!Init, LastOne
<1> QED
  BY <1>1, <1>2 DEF CardsInv

LEMMA CardTypesKept == Cards!TypeOK /\ [Cards!Next]_(Cards!vars) => Cards!TypeOK'
<1> SUFFICES ASSUME Cards!TypeOK, [Cards!Next]_(Cards!vars) PROVE Cards!TypeOK'
  OBVIOUS
<1>1. ASSUME NEW c \in Cards!Cards, Cards!Ran(c) PROVE ranOn' \in [Cards!Cards -> 0..2]
  BY <1>1 DEF Cards!Ran, Cards!TypeOK
<1>2. ASSUME NEW c \in Drawings \cup Typings,
             Cards!MountDrawing(c) \/ Cards!MountTyping(c)
      PROVE  Cards!TypeOK'
  BY <1>2, CardSets DEF Cards!MountDrawing, Cards!MountTyping, Cards!Mount, Cards!TypeOK
<1>3. ASSUME NEW c \in Drawings \cup Typings, Cards!Frame(c) \/ Cards!Step(c)
      PROVE  Cards!TypeOK'
  <2>1. /\ due' = [due EXCEPT ![c] = IF Cards!GoesOn(c) THEN @ ELSE "none"] /\ Cards!Ran(c)
        /\ UNCHANGED <<hidden, element, asked, embed>>
    BY <1>3 DEF Cards!Frame, Cards!Step
  <2>2. due' \in [Cards!Cards -> {"none", "frame", "timeout", "interval"}]
    BY <2>1, CardSets DEF Cards!TypeOK
  <2> QED
    BY <1>1, <2>1, <2>2, CardSets DEF Cards!TypeOK
<1>4. ASSUME NEW c \in Polls, Cards!MountPoll(c) PROVE Cards!TypeOK'
  BY <1>4, CardSets DEF Cards!MountPoll, Cards!Mount, Cards!TypeOK
<1>5. ASSUME NEW c \in Polls, Cards!Tick(c) PROVE Cards!TypeOK'
  BY <1>1, <1>5, CardSets DEF Cards!Tick, Cards!TypeOK
<1>6. ASSUME NEW c \in Polls, Cards!Reading(c) PROVE Cards!TypeOK'
  BY <1>6, CardSets DEF Cards!Reading, Cards!TypeOK
<1>7. ASSUME NEW e \in Embeds, Cards!MountEmbed(e) \/ Cards!Manifest(e) \/ Cards!Abort(e)
      PROVE  Cards!TypeOK'
  BY <1>7, CardSets
     DEF Cards!MountEmbed, Cards!Manifest, Cards!Abort, Cards!Mount, Cards!TypeOK
<1>8. ASSUME NEW c \in Cards!Cards, Cards!Remove(c) PROVE Cards!TypeOK'
  BY <1>8 DEF Cards!Remove, Cards!TypeOK
<1>9. CASE Cards!SwitchTab \/ UNCHANGED Cards!vars
  BY <1>9 DEF Cards!SwitchTab, Cards!vars, Cards!TypeOK
<1> QED
  BY <1>2, <1>3, <1>4, <1>5, <1>6, <1>7, <1>8, <1>9 DEF Cards!Next

LEMMA CardsKept == CardsInv /\ [Cards!Next]_(Cards!vars) => CardsInv'
<1> SUFFICES ASSUME CardsInv, [Cards!Next]_(Cards!vars) PROVE CardsInv'
  OBVIOUS
<1> USE DEF LastOne
<1>1. Cards!TypeOK'
  BY CardTypesKept DEF CardsInv
<1>2. SUFFICES ASSUME NEW c \in (Drawings \cup Typings) \ Opened PROVE LastOne(c)'
  BY <1>1 DEF CardsInv
<1>3. /\ c \in Cards!Cards /\ c \notin Polls /\ c \notin Embeds
      /\ LastOne(c) /\ Cards!TypeOK /\ ranOn[c] \in 0..2
  BY CardSets DEF CardsInv, Cards!TypeOK
<1>4. ASSUME UNCHANGED <<element, due, ranOn>> PROVE LastOne(c)'
  BY <1>3, <1>4
<1>5. ASSUME NEW d \in Cards!Cards, Cards!Mount(d), UNCHANGED ranOn,
             \E what : due' = [due EXCEPT ![d] = what]
      PROVE  LastOne(c)'
  BY <1>3, <1>5 DEF Cards!Mount, Cards!TypeOK
<1>6. ASSUME NEW d \in Drawings \cup Typings, Cards!Frame(d) \/ Cards!Step(d)
      PROVE  LastOne(c)'
  <2>1. /\ due' = [due EXCEPT ![d] = IF Cards!GoesOn(d) THEN @ ELSE "none"] /\ Cards!Ran(d)
        /\ element' = element /\ due[d] # "none"
    BY <1>6 DEF Cards!Frame, Cards!Step
  <2>2. CASE d # c
    BY <1>3, <2>1, <2>2 DEF Cards!Ran, Cards!TypeOK
  <2>3. CASE d = c
    <3>1. ranOn[c] = 0
      BY <1>3, <2>1, <2>3
    <3>2. element[c] = "gone" => due'[c] = "none" /\ ranOn'[c] = 1
      BY <1>3, <2>1, <2>3, <3>1 DEF Cards!GoesOn, Cards!Ran, Cards!TypeOK
    <3>3. element[c] # "gone" => ranOn'[c] = 0
      BY <1>3, <2>1, <2>3, <3>1 DEF Cards!Ran, Cards!TypeOK
    <3> QED
      BY <2>1, <3>2, <3>3
  <2> QED
    BY <2>2, <2>3
<1>7. ASSUME NEW d \in Polls, Cards!Tick(d) PROVE LastOne(c)'
  BY <1>3, <1>7 DEF Cards!Tick, Cards!Ran, Cards!TypeOK
<1>8. ASSUME NEW d \in Embeds, Cards!Manifest(d) \/ Cards!Abort(d) PROVE LastOne(c)'
  <2>1. due' = [due EXCEPT ![d] = "none"] /\ UNCHANGED <<element, ranOn>>
    BY <1>8 DEF Cards!Manifest, Cards!Abort
  <2> QED
    BY <1>3, <2>1 DEF Cards!TypeOK
<1>9. ASSUME NEW d \in Cards!Cards, Cards!Remove(d) PROVE LastOne(c)'
  BY <1>3, <1>9 DEF Cards!Remove, Cards!TypeOK
<1>10. ASSUME NEW d \in Drawings, Cards!MountDrawing(d) PROVE LastOne(c)'
  BY <1>5, <1>10, CardSets DEF Cards!MountDrawing, Cards!Mount
<1>11. ASSUME NEW d \in Typings, Cards!MountTyping(d) PROVE LastOne(c)'
  BY <1>5, <1>11, CardSets DEF Cards!MountTyping, Cards!Mount
<1>12. ASSUME NEW d \in Polls, Cards!MountPoll(d) PROVE LastOne(c)'
  BY <1>5, <1>12, CardSets DEF Cards!MountPoll, Cards!Mount
<1>13. ASSUME NEW d \in Embeds, Cards!MountEmbed(d) PROVE LastOne(c)'
  BY <1>5, <1>13, CardSets DEF Cards!MountEmbed, Cards!Mount
<1>14. ASSUME NEW d \in Polls, Cards!Reading(d) PROVE LastOne(c)'
  BY <1>4, <1>14 DEF Cards!Reading
<1>15. CASE Cards!SwitchTab \/ UNCHANGED Cards!vars
  BY <1>4, <1>15 DEF Cards!SwitchTab, Cards!vars
<1> QED
  BY <1>6, <1>7, <1>8, <1>9, <1>10, <1>11, <1>12, <1>13, <1>14, <1>15 DEF Cards!Next

(* When a preview left the page at most one of its frames or timeouts still
   comes, for any cards (animate in preview-template.js, step in
   wallet.preview.js). *)
THEOREM StopsAfterOneMore == Cards!Spec => []OnceMoreAtMost
<1>1. CardsInv => OnceMoreAtMost
  BY DEF CardsInv, LastOne, OnceMoreAtMost, Cards!OnceMoreAtMost
<1> QED
  BY <1>1, CardsInit, CardsKept, PTL DEF Cards!Spec
=============================================================================
