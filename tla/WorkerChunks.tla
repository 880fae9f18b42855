---------------------------- MODULE WorkerChunks ----------------------------
(***************************************************************************)
(* One big file of a version goes to the Worker in chunks (pushChunk of    *)
(* worker/src/index.js, pushDir of internal/publish/push.go).  R2 keeps    *)
(* the parts of an upload under its id, and joins them when it is told to; *)
(* KV keeps which upload the file's chunks belong to, and which of them it *)
(* has.  The client sends a chunk when the one before was answered, and    *)
(* begins anew when an answer does not come; the request it gave up may    *)
(* still run.  The Worker does not read the id the client sends back.      *)
(***************************************************************************)
EXTENDS Naturals

CONSTANTS
  N,            \* the chunks of the file, one or more
  NoUpload,     \* KV has no upload for the file
  Requests,     \* the requests that may run at once
  MaxUploads    \* bound: how many uploads are opened

Chunks == 1..N
Ids == 1..MaxUploads

VARIABLES
  state,    \* KV upload:<cid>:<rel>: [id, parts], or NoUpload
  uploads,  \* uploads[id]: "none" yet, "open" for parts, or "joined"
  file,     \* R2 sites/<cid>/<rel>: the parts it was joined from
  req,      \* req[r]: the request that runs as r
  client    \* [chunk, waits]: the next chunk, the request it waits for; or "sent"

vars == <<state, uploads, file, req, client>>

Idle == [pc |-> "idle"]
Sent == [chunk |-> N + 1, waits |-> NoUpload]

Init ==
  /\ state = NoUpload
  /\ uploads = [id \in Ids |-> "none"]
  /\ file = {}
  /\ req = [r \in Requests |-> Idle]
  /\ client = [chunk |-> 1, waits |-> NoUpload]

-----------------------------------------------------------------------------
At(r, pc) == req[r].pc = pc

(* The client: the chunk goes up once the one before it was answered. *)
SendChunk(r) ==
  /\ client # Sent /\ client.waits = NoUpload
  /\ At(r, "idle")
  /\ req' = [req EXCEPT ![r] = [pc |-> "read", chunk |-> client.chunk]]
  /\ client' = [client EXCEPT !.waits = r]
  /\ UNCHANGED <<state, uploads, file>>

(* It fails, or its answer does not come in time: all is sent again, unless
   the host holds the file with its size by then (skipHeld). *)
Again == IF file = Chunks THEN Sent ELSE [chunk |-> 1, waits |-> NoUpload]

GiveUp ==
  /\ client.waits # NoUpload
  /\ client' = Again
  /\ UNCHANGED <<state, uploads, file, req>>

Answered(r) ==
  client' = IF client.waits = r THEN [chunk |-> client.chunk + 1, waits |-> NoUpload] ELSE client

(* The first chunk opens an upload, and so does one that finds none. *)
ReadState(r) ==
  /\ At(r, "read")
  /\ LET i == req[r].chunk
         found == IF i = 1 THEN NoUpload ELSE state
     IN IF found = NoUpload
        THEN \E id \in Ids :
               /\ uploads[id] = "none" /\ \A j \in 1..(id - 1) : uploads[j] # "none"
               /\ uploads' = [uploads EXCEPT ![id] = "open"]
               /\ req' = [req EXCEPT ![r] = [pc |-> "store", chunk |-> i, id |-> id, parts |-> {}]]
        ELSE /\ req' = [req EXCEPT ![r] = [pc |-> "store", chunk |-> i, id |-> found.id, parts |-> found.parts]]
             /\ UNCHANGED uploads
  /\ UNCHANGED <<state, file, client>>

(* R2 takes the part, if the upload is still open. *)
StorePart(r) ==
  /\ At(r, "store")
  /\ LET i == req[r].chunk
     IN /\ uploads[req[r].id] = "open"
        /\ req' = [req EXCEPT ![r].parts = @ \cup {i}, ![r].pc = IF i = N THEN "join" ELSE "keep"]
  /\ UNCHANGED <<state, uploads, file, client>>

(* Not the last chunk: what the upload has goes to KV. *)
KeepState(r) ==
  /\ At(r, "keep")
  /\ state' = [id |-> req[r].id, parts |-> req[r].parts]
  /\ req' = [req EXCEPT ![r] = Idle]
  /\ Answered(r)
  /\ UNCHANGED <<uploads, file>>

(* The last one: the parts that are there are joined, and the file is theirs. *)
Complete(r) ==
  /\ At(r, "join")
  /\ uploads[req[r].id] = "open"
  /\ uploads' = [uploads EXCEPT ![req[r].id] = "joined"]
  /\ file' = req[r].parts
  /\ req' = [req EXCEPT ![r].pc = "delete"]
  /\ UNCHANGED <<state, client>>

DeleteState(r) ==
  /\ At(r, "delete")
  /\ state' = NoUpload
  /\ req' = [req EXCEPT ![r] = Idle]
  /\ Answered(r)
  /\ UNCHANGED <<uploads, file>>

(* A request ends with an error: R2 refuses, or the Worker stops. *)
Fails(r) ==
  /\ ~At(r, "idle")
  /\ req' = [req EXCEPT ![r] = Idle]
  /\ client' = IF client.waits = r THEN Again ELSE client
  /\ UNCHANGED <<state, uploads, file>>

Next ==
  \/ GiveUp
  \/ \E r \in Requests :
       \/ SendChunk(r) \/ ReadState(r) \/ StorePart(r) \/ KeepState(r)
       \/ Complete(r) \/ DeleteState(r) \/ Fails(r)

Spec == Init /\ [][Next]_vars

-----------------------------------------------------------------------------
(* "Big files first, in chunks; the host reassembles them" (push.go): when
   the client goes on to the part that commits the version, the host has the
   whole file. *)
HeldWhole == client = Sent => file = Chunks
=============================================================================
