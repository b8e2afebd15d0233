--------------------------- MODULE UploadService ---------------------------
(***************************************************************************)
(* UploadPhoto of the Upload Service (internal/upload/api/grpc.go): ask    *)
(* the Gallery Service through the circuit breaker whether the uploader is *)
(* a member and the gallery open, put the photo in MinIO, save its record  *)
(* in Postgres, resolve the members, publish the event, answer.  Each is a *)
(* call to another process, so each is an action, and the gallery may      *)
(* change, or the service crash, between any two.                          *)
(*                                                                         *)
(* There is one gallery.  Every request comes from a user of its own and   *)
(* names that gallery; photo u is the photo of request u (the code draws a *)
(* new UUID per request).  IsMember reads the gallery database three       *)
(* times, outside a transaction (gallery/query).                           *)
(***************************************************************************)
EXTENDS Naturals, FiniteSets

CONSTANTS Uploads,          \* the requests
          MaxFailures,      \* galleryMaxFailures
          Faults            \* which kinds of failure may happen, see FaultKinds

FaultKinds == {"gallery", "storage", "sql", "broker", "crash"}

ASSUME FaultsAssumption == Faults \subseteq FaultKinds

ASSUME MaxFailuresAssumption == MaxFailures \in Nat \ {0}

VARIABLES
    running,    \* the Upload Service is up
    current, consecutiveFailures, cooled, probing, call, late,  \* galleryBreaker
    gallery,    \* the gallery's row: "open", "closed" or "deleted"
    members,    \* uploaders that are members
    up,         \* the Gallery Service answers
    at,         \* at[u]: the next thing request u does
    seen,       \* seen[u]: what its IsMember has read, [status, member]
    began,      \* began[u]: was the gallery open, the user a member, since u began
    objects,    \* photos in the bucket
    rows,       \* photos with an upload record
    events,     \* photos whose PhotoUploaded event RabbitMQ has
    notified,   \* photos the Notification Service has fanned out
    told        \* told[u]: the answer the client got

breakerVars == <<current, consecutiveFailures, cooled, probing, call, late>>
process == <<running, breakerVars>>
galleryVars == <<gallery, members, up>>
storeVars == <<objects, rows, events, notified>>
requestVars == <<at, seen, began, told>>
vars == <<process, galleryVars, storeVars, requestVars>>

Breaker == INSTANCE CircuitBreaker WITH Callers <- Uploads

\* Where a request stands while its IsMember call is in flight.
Asking == {"count", "first", "preload", "answered"}

\* Where it stands after the membership check.
Admitted == {"store", "save", "resolve", "publish", "reply"}

Answers == {"none", "ok", "error", "unavailable", "lost"}

Unseen == [status |-> "open", member |-> FALSE]

TypeOK ==
    /\ running \in BOOLEAN
    /\ Breaker!TypeOK
    /\ gallery \in {"open", "closed", "deleted"}
    /\ members \subseteq Uploads
    /\ up \in BOOLEAN
    /\ at \in [Uploads -> {"idle", "done"} \cup Asking \cup Admitted]
    /\ seen \in [Uploads -> [status : {"open", "closed"}, member : BOOLEAN]]
    /\ began \in [Uploads -> [open : BOOLEAN, member : BOOLEAN]]
    /\ \A S \in {objects, rows, events, notified} : S \subseteq Uploads
    /\ told \in [Uploads -> Answers]

Init ==
    /\ running = FALSE
    /\ Breaker!Init
    /\ gallery \in {"open", "closed", "deleted"}
    /\ members \in IF gallery = "deleted" THEN {{}} ELSE SUBSET Uploads
    /\ up = TRUE
    /\ at = [u \in Uploads |-> "idle"]
    /\ seen = [u \in Uploads |-> Unseen]
    /\ began = [u \in Uploads |-> [open |-> FALSE, member |-> FALSE]]
    /\ objects = {} /\ rows = {} /\ events = {} /\ notified = {}
    /\ told = [u \in Uploads |-> "none"]

Go(u, place) == at' = [at EXCEPT ![u] = place]

\* The handler returns: the client gets the answer.
Return(u, answer) ==
    /\ Go(u, "done")
    /\ told' = [told EXCEPT ![u] = answer]

\* A choice that is there only when failures of this kind may happen.
May(kind) == IF kind \in Faults THEN BOOLEAN ELSE {FALSE}

-----------------------------------------------------------------------------
(* The process.                                                            *)

\* The bucket is made if there is none, and may be read by all; photos stay.
NewStorage == UNCHANGED objects

\* AutoMigrate creates the table if there is none; records stay.
NewDB == UNCHANGED rows

\* A new breaker.
NewServer ==
    /\ current' = "CLOSED" /\ consecutiveFailures' = 0
    /\ cooled' = TRUE /\ probing' = FALSE
    /\ call' = [u \in Uploads |-> "none"] /\ late' = FALSE

\* main.  It exits before it serves unless MinIO and Postgres answer; it does not
\* wait for RabbitMQ nor for the Gallery Service.
Start ==
    /\ ~running
    /\ running' = TRUE
    /\ NewStorage
    /\ NewDB
    /\ NewServer
    /\ UNCHANGED <<galleryVars, events, notified, requestVars>>

-----------------------------------------------------------------------------
(* The membership check, inside the breaker.                               *)

\* The stream is complete and well formed, and the breaker admits the call.
Begin(u) ==
    /\ running
    /\ at[u] = "idle"
    /\ Breaker!AdmitClosed(u) \/ Breaker!AdmitProbe(u)
    /\ Go(u, "count")
    /\ began' = [began EXCEPT ![u] = [open |-> gallery = "open", member |-> u \in members]]
    /\ UNCHANGED <<running, galleryVars, storeVars, seen, told>>

\* The breaker is open: the client is told that the gallery service is not
\* available.
Refuse(u) ==
    /\ running
    /\ at[u] = "idle"
    /\ Breaker!Reject(u)
    /\ Return(u, "unavailable")
    /\ UNCHANGED <<running, galleryVars, storeVars, seen, began>>

\* A chunk is missing, repeated or too large, or the stream breaks: nothing has
\* been done yet.
Malformed(u) ==
    /\ running
    /\ at[u] = "idle"
    /\ Return(u, "error")
    /\ UNCHANGED <<process, galleryVars, storeVars, seen, began>>

\* fn returns an error, whatever it is: NotFound counts like an outage.
IsMemberFails(u) ==
    /\ Breaker!Fail(u)
    /\ Return(u, "error")
    /\ UNCHANGED <<running, galleryVars, storeVars, seen, began>>

\* GalleryExists, then First in IsMember: the first only counts, the second
\* reads the status.
ReadGallery(u) ==
    /\ at[u] \in {"count", "first"}
    /\ up
    /\ \/ /\ gallery = "deleted"
          /\ IsMemberFails(u)
       \/ /\ gallery # "deleted"
          /\ Go(u, IF at[u] = "count" THEN "first" ELSE "preload")
          /\ seen' = IF at[u] = "count" THEN seen
                     ELSE [seen EXCEPT ![u].status = gallery]
          /\ UNCHANGED <<process, galleryVars, storeVars, began, told>>

\* The Preload of Members.
ReadMember(u) ==
    /\ at[u] = "preload"
    /\ up
    /\ seen' = [seen EXCEPT ![u].member = u \in members]
    /\ Go(u, "answered")
    /\ UNCHANGED <<process, galleryVars, storeVars, began, told>>

\* The call's 2 s pass, or the Gallery Service fails, or the client goes away.
TimeOut(u) ==
    /\ "gallery" \in Faults
    /\ at[u] \in Asking
    /\ IsMemberFails(u)

\* The Gallery Service's handler.  Whatever its query returns comes back with a
\* code, and the status as the value of the enumeration that has its name.
IsMember(u) == ReadGallery(u) \/ ReadMember(u)

\* Fault: the status in the answer is not looked at.
MutDecide(u) ==
    /\ at[u] = "answered"
    /\ Breaker!Succeed(u)
    /\ IF seen[u].member THEN Go(u, "store") /\ UNCHANGED told ELSE Return(u, "error")
    /\ UNCHANGED <<running, galleryVars, storeVars, seen, began>>

\* The answer arrives; lines 184-189 act on it.
Decide(u) ==
    /\ at[u] = "answered"
    /\ Breaker!Succeed(u)
    /\ IF seen[u].member /\ seen[u].status # "closed"
       THEN Go(u, "store") /\ UNCHANGED told
       ELSE Return(u, "error")
    /\ UNCHANGED <<running, galleryVars, storeVars, seen, began>>

-----------------------------------------------------------------------------
(* After it.  A call that fails may have had its effect: its answer is what *)
(* was lost.                                                                *)

\* PutObject, under a key with the photo's id in it.
Upload(u, effect) == objects' = IF effect THEN objects \cup {u} ELSE objects

\* Fault: an error from storage is only logged.
MutStore(u) ==
    /\ at[u] = "store"
    /\ \E fails \in May("storage"), effect \in BOOLEAN :
         /\ fails \/ effect
         /\ Upload(u, effect)
         /\ Go(u, "save")
    /\ UNCHANGED <<process, galleryVars, rows, events, notified, seen, began, told>>

Store(u) ==
    /\ at[u] = "store"
    /\ \E fails \in May("storage"), effect \in BOOLEAN :
         /\ fails \/ effect
         /\ Upload(u, effect)
         /\ IF fails THEN Return(u, "error") ELSE Go(u, "save") /\ UNCHANGED told
    /\ UNCHANGED <<process, galleryVars, rows, events, notified, seen, began>>

\* Fault: an error from the database is reported to the client.
MutSave(u) ==
    /\ at[u] = "save"
    /\ \E fails \in May("sql"), effect \in BOOLEAN :
         /\ fails \/ effect
         /\ rows' = IF effect THEN rows \cup {u} ELSE rows
         /\ IF fails THEN Return(u, "error") ELSE Go(u, "resolve") /\ UNCHANGED told
    /\ UNCHANGED <<process, galleryVars, objects, events, notified, seen, began>>

\* An error from Save is logged; the upload goes on.
Save(u) ==
    /\ at[u] = "save"
    /\ \E fails \in May("sql"), effect \in BOOLEAN :
         /\ fails \/ effect
         /\ rows' = IF effect THEN rows \cup {u} ELSE rows
    /\ Go(u, "resolve")
    /\ UNCHANGED <<process, galleryVars, objects, events, notified, seen, began, told>>

\* Fault: ListMembers is called without a timeout.
MutResolveMembers(u) ==
    /\ at[u] = "resolve"
    /\ up
    /\ Go(u, "publish")
    /\ UNCHANGED <<process, galleryVars, storeVars, seen, began, told>>

\* ListMembers, outside the breaker; after an error, or 3 s, the event goes out
\* without members.  Nobody reads them, so they are left out.
ResolveMembers(u) ==
    /\ at[u] = "resolve"
    /\ Go(u, "publish")
    /\ UNCHANGED <<process, galleryVars, storeVars, seen, began, told>>

\* PublishPhoto returns: its breaker or its channel may have dropped the event,
\* and it reports neither.
PublishPhoto(u) ==
    /\ at[u] = "publish"
    /\ \E dropped \in May("broker") :
         events' = IF dropped THEN events ELSE events \cup {u}
    /\ Go(u, "reply")
    /\ UNCHANGED <<process, galleryVars, objects, rows, notified, seen, began, told>>

Reply(u) ==
    /\ at[u] = "reply"
    /\ Return(u, "ok")
    /\ UNCHANGED <<process, galleryVars, storeVars, seen, began>>

-----------------------------------------------------------------------------
(* The other processes.                                                    *)

\* The Notification Service handles the event: by its gallery, without a look
\* at MemberIDs.
Notify(u) ==
    /\ u \in events \ notified
    /\ notified' = notified \cup {u}
    /\ UNCHANGED <<process, galleryVars, objects, rows, events, requestVars>>

\* JoinGallery reads the status and then inserts the member, so a user may
\* become a member of a gallery that has closed meanwhile (GalleryService).
Join(u) ==
    /\ gallery # "deleted"
    /\ members' = members \cup {u}
    /\ began' = [began EXCEPT ![u].member = @ \/ at[u] \in Asking]
    /\ UNCHANGED <<process, gallery, up, storeVars, at, seen, told>>

Leave(u) ==
    /\ members' = members \ {u}
    /\ UNCHANGED <<process, gallery, up, storeVars, requestVars>>

\* CloseGallery saves the row it has read even when the gallery was deleted
\* meanwhile (GalleryService).
Close ==
    /\ gallery # "closed"
    /\ gallery' = "closed"
    /\ UNCHANGED <<process, members, up, storeVars, requestVars>>

Delete ==
    /\ gallery # "deleted"
    /\ gallery' = "deleted"
    /\ members' = {}
    /\ UNCHANGED <<process, up, storeVars, requestVars>>

GalleryStops ==
    /\ "gallery" \in Faults
    /\ up' = ~up
    /\ UNCHANGED <<process, gallery, members, storeVars, requestVars>>

\* resetTimeout passes for the breaker; isMember's calls are over by then (2 s
\* against 10 s), so none is late.
Elapse ==
    /\ Breaker!Elapse
    /\ ~late'
    /\ UNCHANGED <<running, galleryVars, storeVars, requestVars>>

\* The Upload Service is killed: requests under way and the breaker are gone.
Crash ==
    /\ "crash" \in Faults
    /\ running
    /\ running' = FALSE
    /\ NewServer
    /\ at' = [u \in Uploads |-> IF at[u] = "idle" THEN "idle" ELSE "done"]
    /\ told' = [u \in Uploads |->
                  IF at[u] \in Asking \cup Admitted THEN "lost" ELSE told[u]]
    /\ UNCHANGED <<galleryVars, storeVars, seen, began>>

\* The handler of u goes on.
Step(u) ==
    \/ IsMember(u) \/ TimeOut(u) \/ Decide(u)
    \/ Store(u) \/ Save(u) \/ ResolveMembers(u) \/ Reply(u)

Next ==
    \/ \E u \in Uploads : Begin(u) \/ Refuse(u) \/ Malformed(u) \/ Step(u)
                          \/ PublishPhoto(u) \/ Notify(u) \/ Join(u) \/ Leave(u)
    \/ Close \/ Delete \/ GalleryStops \/ Elapse \/ Start \/ Crash

Spec == Init /\ [][Next]_vars

\* A handler goes on: every call it makes returns or times out, but for
\* PublishPhoto, which may block on its mutex (Publisher).
FairSpec == Spec /\ \A u \in Uploads : WF_vars(Step(u))

-----------------------------------------------------------------------------
\* Whatever is read of the bucket was put there by a member and for a gallery
\* that was open, both at some time during the request: closing, leaving, joining
\* and deleting between the three reads of IsMember cannot mislead it.
StoredWasAllowed == \A u \in objects : began[u].open /\ began[u].member

\* No record, event, notification or success is ever about a photo that is not
\* in the bucket, whichever call failed and whenever the service crashed.
AnnouncedIsStored ==
    rows \cup events \cup notified \cup {u \in Uploads : told[u] = "ok"} \subseteq objects

\* A request that the handler has answered with an error left no record and no event:
\* the photo is neither listed nor announced, and sending it again makes no duplicate.
\* A crash also looks like an error to the browser, and may come after Save; told is
\* what the handler said.
ErrorMeansUnseen ==
    \A u \in Uploads : told[u] \in {"error", "unavailable"} => u \notin rows \cup events

\* A handler that has begun ends, or waits inside PublishPhoto, whatever becomes
\* of the Gallery Service.
EndsOrPublishes ==
    \A u \in Uploads : at[u] = "count" ~> at[u] \in {"done", "publish"}
=============================================================================
