---------------------------- MODULE UploadListing ----------------------------
(***************************************************************************)
(* ListUploads of the Upload Service (internal/upload/api/grpc.go): the    *)
(* records of a gallery, most recent first, in pages; the token of the     *)
(* next page is an offset.  Over Postgres (internal/upload/postgres.go),   *)
(* which the service runs with, a page is two statements, a COUNT and a    *)
(* SELECT, outside a transaction; the repository in memory                 *)
(* (internal/upload/repository.go), its stand-in, holds its lock meanwhile *)
(* and takes the order of saving for the order of time.  Uploads take      *)
(* their time stamp before they save their record, so records need not be  *)
(* saved in the order of their stamps.                                     *)
(*                                                                         *)
(* One client follows the tokens to the end while uploads go on.  Photos   *)
(* are their time stamps (distinct, as two uploads of one gallery in the   *)
(* same microsecond are left out).                                         *)
(***************************************************************************)
EXTENDS Integers, Sequences, FiniteSets, SequencesExt

CONSTANTS MaxPhotos,    \* bound on the photos of the gallery
          PageSize      \* the client's page_size

ASSUME BoundsAssumption == MaxPhotos \in Nat /\ PageSize \in Nat \ {0}

Photos == 1 .. MaxPhotos

VARIABLES
    repository,  \* which one the server was made with
    saved,    \* the records, in the order they were saved
    at,       \* what the client waits for: "idle", "count", "find" or "done"
    offset,   \* the page token it has sent
    total,    \* the COUNT of this page
    got,      \* the photos it has been sent, in order
    first,    \* history: the records there were when it asked for the first page
    raced     \* history: a record was saved between a COUNT and its SELECT

vars == <<repository, saved, at, offset, total, got, first, raced>>

rows == ToSet(saved)

TypeOK ==
    /\ repository \in {"postgres", "memory"}
    /\ saved \in Seq(Photos) /\ IsInjective(saved)
    /\ at \in {"idle", "count", "find", "done"}
    /\ offset \in Nat
    /\ total \in 0 .. MaxPhotos
    /\ got \in Seq(Photos)
    /\ first \subseteq rows
    /\ raced \in BOOLEAN

Init ==
    /\ repository \in {"postgres", "memory"}
    /\ saved = <<>>
    /\ at = "idle"
    /\ offset = 0
    /\ total = 0
    /\ got = <<>>
    /\ first = {}
    /\ raced = FALSE

\* ORDER BY uploaded_at DESC: the k-th record is the one with k - 1 later ones.
ByTime ==
    [k \in 1 .. Cardinality(rows) |->
        CHOOSE p \in rows : Cardinality({q \in rows : q > p}) = k - 1]

\* The gallery's index, backwards.
Backwards == Reverse(saved)

MostRecentFirst == IF repository = "memory" THEN Backwards ELSE ByTime

-----------------------------------------------------------------------------
\* The gallery's index in memory, with p last.
Indexed(p) == Append(saved, p)

\* An upload saves its record.
Save(p) ==
    /\ p \notin rows
    /\ saved' = Indexed(p)
    /\ raced' = (raced \/ at = "find")
    /\ UNCHANGED <<repository, at, offset, total, got, first>>

\* The client asks for the first page, without a token.
Ask ==
    /\ at = "idle"
    /\ at' = "count"
    /\ first' = rows
    /\ UNCHANGED <<repository, saved, offset, total, got, raced>>

\* SELECT count(*).
Count ==
    /\ at = "count"
    /\ repository = "postgres"
    /\ total' = Cardinality(rows)
    /\ at' = "find"
    /\ UNCHANGED <<repository, saved, offset, got, first, raced>>

\* OFFSET and LIMIT.
Page(s, from) ==
    LET last == IF from + PageSize < Len(s) THEN from + PageSize ELSE Len(s)
    IN  SubSeq(s, from + 1, last)

\* Fault: the next page starts one photo late.
MutNextOffsetLate(n) == offset + n + 1

\* The offset after a page of n records.
NextOffset(n) == offset + n

\* Fault: a last page of one photo gets no token.
MutHasNext(next, count) == next < count - 1

\* Whether the answer has a token for the next page.
HasNext(next, count) == next < count

\* The page answered, and the client's request for the next one if it has a
\* token.
Answer(count) ==
    LET page == Page(MostRecentFirst, offset)
        next == NextOffset(Len(page))
    IN  /\ got' = got \o page
        /\ IF HasNext(next, count)
           THEN at' = "count" /\ offset' = next
           ELSE at' = "done" /\ UNCHANGED offset
        /\ UNCHANGED <<repository, saved, first, raced>>

\* The SELECT.
Find ==
    /\ at = "find"
    /\ Answer(total)
    /\ UNCHANGED total

\* ListByGallery of the repository in memory: count and page under its lock.
ListByGallery ==
    /\ at = "count"
    /\ repository = "memory"
    /\ total' = Cardinality(rows)
    /\ Answer(total')

Next == (\E p \in Photos : Save(p)) \/ Ask \/ Count \/ Find \/ ListByGallery

Spec == Init /\ [][Next]_vars

-----------------------------------------------------------------------------
\* Without uploads meanwhile the pages make up the gallery: every record once,
\* most recent first.
PagesTile == at = "done" /\ rows = first => got = MostRecentFirst

\* Uploads may shift records into the next page, so that some come twice, but
\* none of those that were there is passed over, unless one is saved between the
\* COUNT and the SELECT of a page; in memory there is no such moment.
NoneSkipped ==
    at = "done" /\ ~raced => \A p \in first : \E i \in DOMAIN got : got[i] = p
=============================================================================
