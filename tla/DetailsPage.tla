----------------------------- MODULE DetailsPage -----------------------------
(***************************************************************************)
(* The page of one gallery, from the stores of the web client to the       *)
(* Upload Service: GalleryDetailsPage.tsx, PhotoGrid.tsx, UploadForm.tsx,  *)
(* their stores and actions, the gateway's handlers of uploads             *)
(* (internal/handlers/upload.go) and the loop that receives the chunks     *)
(* (internal/upload/api/grpc.go).  What the service checks and does after  *)
(* the last chunk is UploadService's subject, the pages of a listing       *)
(* UploadListing's.                                                        *)
(*                                                                         *)
(* The stores are global and belong to no gallery: the user goes from one  *)
(* page to another while requests are under way, and every answer goes to  *)
(* the stores, in whatever order answers arrive.  Other users upload too.  *)
(*                                                                         *)
(* A photo is its number, in the order of the time stamps.  The upload     *)
(* form's component is taken to show what its store holds.                 *)
(***************************************************************************)
EXTENDS Integers, Sequences, FiniteSets

CONSTANTS Galleries,
          None,        \* no gallery
          PageSize,    \* photos the gateway asks for
          MaxChunks,   \* chunks of the largest file that is accepted
          MaxAsking,   \* bound on the requests for details at a time
          MaxLoads,    \* bound on the requests for photos at a time
          MaxStored    \* bound on the photos stored

ASSUME PageSizeAssumption == PageSize \in Nat \ {0} /\ None \notin Galleries

ASSUME BoundsAssumption ==
    MaxChunks \in Nat /\ MaxAsking \in Nat /\ MaxLoads \in Nat /\ MaxStored \in Nat

VARIABLES
    page,      \* the gallery the address names; None for any other page
    details,   \* GalleryDetailsStore
    grid,      \* PhotoStore
    uploading, \* UploadStore's flag
    asking,    \* requests for details under way, in the order they were sent
    loads,     \* requests for photos under way, in the order they were sent
    upload,    \* the upload under way
    stored,    \* the photos in the bucket, in the order of their time stamps, and
               \* whether they have a record, without which none is listed
    told       \* history: the successes the form has reported

tab == <<page, details, grid, uploading, asking, loads>>
vars == <<tab, upload, stored, told>>

Sizes == 0 .. MaxChunks + 1

Idle == [of |-> None]

Unread == {0}

\* late: a later request has been answered, or this one was sent for another
\* gallery than that of the page.
Asked == [of : Galleries, late : BOOLEAN]
Load == [of : Galleries, late : BOOLEAN, got : SUBSET (0 .. MaxStored)]

\* The first message carries the metadata, each of the others a chunk.
Upload == [of : Galleries, size : Sizes, read : 0 .. MaxChunks + 2,
           outcome : {"none", "refused", "stored"}, photo : 0 .. MaxStored]

TypeOK ==
    /\ page \in Galleries \cup {None}
    /\ details \in [of : Galleries \cup {None}, loading : BOOLEAN, error : BOOLEAN,
                    late : BOOLEAN]
    /\ grid \in [of : Galleries \cup {None}, ids : SUBSET (1 .. Len(stored)),
                 loading : BOOLEAN, error : BOOLEAN, late : BOOLEAN]
    /\ uploading \in BOOLEAN
    /\ asking \in Seq(Asked) /\ Len(asking) <= MaxAsking
    /\ loads \in Seq(Load) /\ Len(loads) <= MaxLoads
    /\ upload \in Upload \cup {Idle}
    /\ upload # Idle => upload.read <= upload.size + 1
    /\ stored \in Seq([of : Galleries, whole : BOOLEAN, listed : BOOLEAN])

\* PhotoStore without an answer to show.  The photos it had stay in the code's store,
\* but are never shown again: only another answer ends the spinner or the error.
Blank(loading, error) ==
    [of |-> None, ids |-> {}, loading |-> loading, error |-> error, late |-> FALSE]

Init ==
    /\ page = None
    /\ details = [of |-> None, loading |-> FALSE, error |-> FALSE, late |-> FALSE]
    /\ grid = Blank(FALSE, FALSE)
    /\ uploading = FALSE
    /\ asking = <<>> /\ loads = <<>>
    /\ upload = Idle
    /\ stored = <<>>
    /\ told = {}

\* The i-th of these requests is answered: those before it are late now.
Answered(requests, i) ==
    [j \in 1 .. Len(requests) - 1 |->
        IF j < i THEN [requests[j] EXCEPT !.late = TRUE] ELSE requests[j + 1]]

-----------------------------------------------------------------------------
(* The page.  The form and the grid are on it once the store holds details *)
(* without an error, whichever gallery's they are.                         *)

Loaded(d) == d.of # None /\ ~d.loading /\ ~d.error

GridShown == page # None /\ Loaded(details)

\* loadUploads up to its await.
LoadUploads(g) ==
    /\ Len(loads) < MaxLoads
    /\ loads' = Append(loads, [of |-> g, late |-> g # page', got |-> Unread])
    /\ grid' = Blank(TRUE, FALSE)

\* Fault: the effect runs when the page is mounted, not when its gallery changes.
MutEnter(g) ==
    /\ page # g
    /\ page' = g
    /\ IF page = None
       THEN /\ Len(asking) < MaxAsking
            /\ asking' = Append(asking, [of |-> g, late |-> FALSE])
            /\ details' = [of |-> None, loading |-> TRUE, error |-> FALSE, late |-> FALSE]
       ELSE UNCHANGED <<details, asking>>
    /\ IF Loaded(details) THEN LoadUploads(g) ELSE UNCHANGED <<grid, loads>>
    /\ UNCHANGED <<uploading, upload, stored, told>>

\* The user opens the page of g, from any page.  The details still in the store are
\* shown first, and with them the grid, whose effect runs before the page's; then
\* loadGallery clears them.
Enter(g) ==
    /\ page # g
    /\ Len(asking) < MaxAsking
    /\ page' = g
    /\ asking' = Append(asking, [of |-> g, late |-> FALSE])
    /\ details' = [of |-> None, loading |-> TRUE, error |-> FALSE, late |-> FALSE]
    /\ IF Loaded(details) THEN LoadUploads(g) ELSE UNCHANGED <<grid, loads>>
    /\ UNCHANGED <<uploading, upload, stored, told>>

\* The user goes elsewhere; requests go on, and the stores keep what they hold.
Leave ==
    /\ page # None
    /\ page' = None
    /\ UNCHANGED <<details, grid, uploading, asking, loads, upload, stored, told>>

\* The store takes these details; the grid loads when it appears.
Takes(i, d) ==
    /\ details' = d
    /\ asking' = Answered(asking, i)
    /\ UNCHANGED page
    /\ IF page # None /\ Loaded(d) /\ ~GridShown
       THEN LoadUploads(page)
       ELSE UNCHANGED <<grid, loads>>
    /\ UNCHANGED <<uploading, upload, stored, told>>

DetailsArrive(i) ==
    Takes(i, [of |-> asking[i].of, loading |-> FALSE, error |-> FALSE,
              late |-> asking[i].late])

DetailsFail(i) ==
    Takes(i, [of |-> None, loading |-> FALSE, error |-> TRUE, late |-> FALSE])

-----------------------------------------------------------------------------
(* The photos.                                                             *)

Listed(g) == {p \in 1 .. Len(stored) : stored[p].of = g /\ stored[p].listed}

Newer(p) == {q \in Listed(stored[p].of) : q > p}

\* Most recent first, one page.
FirstPage(g) == {p \in Listed(g) : Cardinality(Newer(p)) < PageSize}

\* The gateway's ListUploads: the token of the next page is passed on.
ReadUploads(i) ==
    /\ loads[i].got = Unread
    /\ loads' = [loads EXCEPT ![i].got = FirstPage(loads[i].of)]
    /\ UNCHANGED <<page, details, grid, uploading, asking, upload, stored, told>>

PhotosArrive(i) ==
    /\ loads[i].got # Unread
    /\ grid' = [of |-> loads[i].of, ids |-> loads[i].got, loading |-> FALSE,
                error |-> FALSE, late |-> loads[i].late]
    /\ loads' = Answered(loads, i)
    /\ UNCHANGED <<page, details, uploading, asking, upload, stored, told>>

\* Fault: the failure is reported, the flag stays.
MutPhotosFail(i) ==
    /\ grid' = Blank(TRUE, TRUE)
    /\ loads' = Answered(loads, i)
    /\ UNCHANGED <<page, details, uploading, asking, upload, stored, told>>

PhotosFail(i) ==
    /\ grid' = Blank(FALSE, TRUE)
    /\ loads' = Answered(loads, i)
    /\ UNCHANGED <<page, details, uploading, asking, upload, stored, told>>

-----------------------------------------------------------------------------
(* An upload: the gateway sends, the service receives.                     *)

\* The button is enabled while the store is not uploading.
UploadPhoto(size) ==
    /\ GridShown /\ ~uploading
    /\ uploading' = TRUE
    /\ upload' = [of |-> page, size |-> size, read |-> 0,
                  outcome |-> "none", photo |-> 0]
    /\ UNCHANGED <<page, details, grid, asking, loads, stored, told>>

InProgress == upload # Idle /\ upload.outcome = "none"

\* The end of the stream follows the last chunk.
Sent(u) == u.read = u.size + 1

\* The gateway sends the next message and the service takes it; a message on its way
\* has no effect, so that it is left out.  A declared size above the limit is
\* refused at the first message, which the gateway notices at some later one.
SendAndRecv ==
    /\ InProgress /\ ~Sent(upload)
    /\ upload' = [upload EXCEPT !.read = @ + 1,
                     !.outcome = IF upload.size > MaxChunks THEN "refused" ELSE "none"]
    /\ UNCHANGED <<tab, stored, told>>

\* What has been read is an image of the declared size.
Complete(u) == u.read > 1 /\ u.read - 1 = u.size

\* The photo and its record.  Save may fail, which is only logged: the upload has
\* succeeded all the same.
Stores(g, whole) ==
    /\ Len(stored) < MaxStored
    /\ \E saved \in BOOLEAN :
          stored' = Append(stored, [of |-> g, whole |-> whole, listed |-> saved])

Refuses ==
    /\ upload' = [upload EXCEPT !.outcome = "refused"]
    /\ UNCHANGED stored

\* The end of the stream: the rest of the checks may refuse, and storage may fail.
Finish ==
    /\ InProgress /\ Sent(upload)
    /\ \/ Refuses
       \/ /\ Complete(upload)
          /\ Stores(upload.of, upload.read - 1 = upload.size)
          /\ upload' = [upload EXCEPT !.outcome = "stored", !.photo = Len(stored')]
    /\ UNCHANGED <<tab, told>>

\* The form reports success and asks for the photos anew.
Reported(photo) ==
    /\ uploading' = FALSE
    /\ told' = told \cup {[photo |-> photo, of |-> upload.of]}
    /\ upload' = Idle
    /\ UNCHANGED <<page, details, asking, stored>>

\* Fault: the grid is left as it is.
MutSucceeds ==
    /\ upload # Idle /\ upload.outcome = "stored"
    /\ Reported(upload.photo)
    /\ UNCHANGED <<grid, loads>>

Succeeds ==
    /\ upload # Idle /\ upload.outcome = "stored"
    /\ Reported(upload.photo)
    /\ LoadUploads(upload.of)

UploadFails ==
    /\ uploading' = FALSE
    /\ upload' = Idle
    /\ UNCHANGED <<page, details, grid, asking, loads, told>>

\* Fault: a Send that meets the end of the stream is taken for the upload's end.
MutRefused ==
    /\ upload # Idle /\ upload.outcome = "refused"
    /\ \/ UploadFails /\ UNCHANGED stored
       \/ ~Sent(upload) /\ Reported(0) /\ LoadUploads(upload.of)

\* Send or CloseAndRecv returns the service's error.
Refused ==
    /\ upload # Idle /\ upload.outcome = "refused"
    /\ UploadFails
    /\ UNCHANGED stored

\* The gateway cannot read the form, or the connection of the tab or of the service
\* breaks: Recv fails with something else than the end of the stream.  When there
\* is nothing left to read, the photo may be stored all the same.
Breaks ==
    /\ upload # Idle
    /\ UploadFails
    /\ \/ UNCHANGED stored
       \/ /\ InProgress /\ Sent(upload) /\ Complete(upload)
          /\ Stores(upload.of, TRUE)

\* Another user uploads.
OthersUpload(g) ==
    /\ Stores(g, TRUE)
    /\ UNCHANGED <<tab, upload, told>>

Next ==
    \/ Leave \/ SendAndRecv \/ Finish \/ Succeeds \/ Refused \/ Breaks
    \/ \E g \in Galleries : Enter(g) \/ OthersUpload(g)
    \/ \E size \in Sizes : UploadPhoto(size)
    \/ \E i \in 1 .. Len(asking) : DetailsArrive(i) \/ DetailsFail(i)
    \/ \E i \in 1 .. Len(loads) : ReadUploads(i) \/ PhotosArrive(i) \/ PhotosFail(i)

Spec == Init /\ [][Next]_vars

-----------------------------------------------------------------------------
\* The form reports a success only for a photo that is in the bucket, whole, under
\* the gallery it was uploaded for, however the gateway and the service end the
\* stream between them.
SuccessMeansStored ==
    \A t \in told :
        /\ t.photo \in 1 .. Len(stored)
        /\ stored[t.photo].whole /\ stored[t.photo].of = t.of

\* The page shows the details of the gallery in its address once no request for
\* details is under way, unless an answer has overtaken a later one.
DetailsAreOfPage ==
    page # None /\ Loaded(details) /\ asking = <<>> /\ ~details.late => details.of = page

\* uploadActions.ts:24, "so the new photo appears without a manual reload": with no
\* request for photos under way, the grid shows the photos of its gallery, with
\* every photo reported as uploaded but one that has PageSize newer ones.  The
\* exceptions are an answer that has overtaken a later one, the answer to an upload
\* of a gallery that was left meanwhile, and a photo whose Save has failed, which is
\* reported as uploaded and never appears (grpc.go:230).
GridIsCurrent ==
    GridShown /\ loads = <<>> /\ ~grid.error /\ ~grid.late =>
        /\ grid.of = page
        /\ \A t \in told :
              t.of = page /\ stored[t.photo].listed =>
                  t.photo \in grid.ids \/ Cardinality(Newer(t.photo)) >= PageSize

\* No spinner turns without a request: those of the page and of the grid, and that
\* of the form, which is shared by the galleries.
SpinnersHaveRequests ==
    /\ details.loading => asking # <<>>
    /\ grid.loading => loads # <<>>
    /\ uploading <=> upload # Idle
=============================================================================
