------------------------- MODULE DetailsPageProofs -------------------------
(***************************************************************************)
(* Proofs about DetailsPage, for any galleries, any number of requests     *)
(* under way and of photos, any page size and any size of files: what the  *)
(* page shows, once no request is under way, is what it should show.       *)
(*                                                                         *)
(* Answers come in any order, so the invariant is about the latest request *)
(* that is not late: while there is one it is of the gallery of the page,  *)
(* and what it will bring is current; once there is none, what the store   *)
(* holds is, unless it came late.                                          *)
(***************************************************************************)
EXTENDS DetailsPage, TLAPS, FiniteSetTheorems, SequenceTheorems

-----------------------------------------------------------------------------
(* The invariant, part by part.                                            *)

\* The n-th of these requests is the last that is not late.
IsLatest(requests, n) ==
    /\ n \in 1 .. Len(requests)
    /\ ~requests[n].late
    /\ \A j \in n + 1 .. Len(requests) : requests[j].late

AllLate(requests) == \A j \in 1 .. Len(requests) : requests[j].late

\* The details the page waits for are its gallery's; and those it has, when it waits
\* for none.
DetailsFollow ==
    page # None =>
        \/ \E n \in 1 .. Len(asking) : IsLatest(asking, n) /\ asking[n].of = page
        \/ AllLate(asking) /\ (Loaded(details) /\ ~details.late => details.of = page)

\* These photos are those of g, as far as successes have been reported.
Covers(ids, g) ==
    \A t \in told : t.of = g /\ stored[t.photo].listed =>
        t.photo \in ids \/ Cardinality(Newer(t.photo)) >= PageSize

GridFollows ==
    GridShown =>
        \/ \E n \in 1 .. Len(loads) :
              /\ IsLatest(loads, n) /\ loads[n].of = page
              /\ loads[n].got = Unread \/ Covers(loads[n].got, page)
        \/ /\ AllLate(loads)
           /\ ~grid.loading /\ ~grid.error /\ ~grid.late =>
                 grid.of = page /\ Covers(grid.ids, page)

\* A listing that has been read has photos that are stored.
ReadIsStored ==
    /\ Len(stored) <= MaxStored
    /\ \A i \in 1 .. Len(loads) : loads[i].got # Unread => loads[i].got \subseteq 1 .. Len(stored)

\* The service has said that the photo is stored, and the form has not shown it yet.
UploadIsStored ==
    upload # Idle /\ upload.outcome = "stored" =>
        /\ upload.photo \in 1 .. Len(stored)
        /\ stored[upload.photo].whole /\ stored[upload.photo].of = upload.of

Inv ==
    /\ TypeOK
    /\ ReadIsStored
    /\ UploadIsStored
    /\ SuccessMeansStored
    /\ SpinnersHaveRequests
    /\ DetailsFollow
    /\ GridFollows

-----------------------------------------------------------------------------
(* Requests and their answers.                                             *)

\* What an answer leaves of the other requests.
LEMMA AnsweredIs ==
    ASSUME NEW R, NEW s \in Seq(R), NEW i \in 1 .. Len(s)
    PROVE  /\ Len(Answered(s, i)) = Len(s) - 1
           /\ \A j \in 1 .. Len(s) - 1 :
                 /\ j < i => Answered(s, i)[j] = [s[j] EXCEPT !.late = TRUE]
                 /\ j >= i => Answered(s, i)[j] = s[j + 1]
<1> DEFINE m == Len(s) - 1
           f == Answered(s, i)
           V == {f[j] : j \in 1 .. m}
<1>1. Len(s) \in Nat /\ m \in Nat
  BY LenProperties
<1>2. f = [j \in 1 .. m |-> IF j < i THEN [s[j] EXCEPT !.late = TRUE] ELSE s[j + 1]]
  BY DEF Answered
<1>3. ASSUME NEW j \in 1 .. m
      PROVE  /\ j < i => f[j] = [s[j] EXCEPT !.late = TRUE]
             /\ j >= i => f[j] = s[j + 1]
  <2>1. f[j] = IF j < i THEN [s[j] EXCEPT !.late = TRUE] ELSE s[j + 1]
    BY <1>2
  <2>2. j >= i => ~(j < i)
    BY <1>1, <1>3
  <2> HIDE DEF f
  <2>3. j < i => f[j] = [s[j] EXCEPT !.late = TRUE]
    BY <2>1
  <2>4. j >= i => f[j] = s[j + 1]
    BY <2>1, <2>2
  <2> QED  BY <2>3, <2>4
<1>4. Len(f) = m
  <2>1. f \in [1 .. m -> V]
    <3> HIDE DEF f
    <3>1. DOMAIN f = 1 .. m /\ f = [j \in 1 .. m |-> f[j]]
      BY <1>2
    <3> QED  BY <3>1
  <2> HIDE DEF f, V
  <2> QED  BY <1>1, <2>1, SeqDef, LenProperties
<1> QED  BY <1>3, <1>4

LEMMA AnsweredType ==
    ASSUME NEW R, NEW s \in Seq(R), NEW i \in 1 .. Len(s),
           \A r \in R : [r EXCEPT !.late = TRUE] \in R
    PROVE  Answered(s, i) \in Seq(R)
<1> DEFINE m == Len(s) - 1
           f == Answered(s, i)
<1>1. Len(s) \in Nat /\ m \in Nat /\ \A j \in 1 .. Len(s) : s[j] \in R
  BY LenProperties, ElementOfSeq
<1>2. f = [j \in 1 .. m |-> IF j < i THEN [s[j] EXCEPT !.late = TRUE] ELSE s[j + 1]]
  BY DEF Answered
<1>3. ASSUME NEW j \in 1 .. m  PROVE f[j] \in R
  <2>1. j \in 1 .. Len(s) /\ j + 1 \in 1 .. Len(s)
    BY <1>1, <1>3
  <2>2. [s[j] EXCEPT !.late = TRUE] \in R /\ s[j + 1] \in R
    BY <1>1, <2>1
  <2>3. f[j] = IF j < i THEN [s[j] EXCEPT !.late = TRUE] ELSE s[j + 1]
    BY <1>2
  <2> HIDE DEF f
  <2> QED  BY <2>2, <2>3
<1>4. f \in [1 .. m -> R]
  <2> HIDE DEF f
  <2>1. DOMAIN f = 1 .. m /\ f = [j \in 1 .. m |-> f[j]]
    BY <1>2
  <2> QED  BY <1>3, <2>1
<1> HIDE DEF f
<1>5. f \in Seq(R)
  BY <1>1, <1>4, SeqDef
<1> QED  BY <1>5 DEF f

\* The latest request stays the latest until it, or one after it, is answered; then
\* all the others are late.
LEMMA LatestAnswered ==
    ASSUME NEW R, NEW s \in Seq(R), NEW i \in 1 .. Len(s), NEW n \in Nat, IsLatest(s, n),
           \A r \in R : [r EXCEPT !.late = TRUE] \in R /\ [r EXCEPT !.late = TRUE].late
    PROVE  /\ i < n => IsLatest(Answered(s, i), n - 1) /\ Answered(s, i)[n - 1] = s[n]
           /\ i >= n => AllLate(Answered(s, i))
           /\ i > n => s[i].late
<1> DEFINE f == Answered(s, i)
<1>1. Len(s) \in Nat /\ n \in 1 .. Len(s) /\ \A j \in 1 .. Len(s) : s[j] \in R
  BY LenProperties, ElementOfSeq DEF IsLatest
<1>2. /\ Len(f) = Len(s) - 1
      /\ \A j \in 1 .. Len(s) - 1 :
            /\ j < i => f[j] = [s[j] EXCEPT !.late = TRUE]
            /\ j >= i => f[j] = s[j + 1]
  BY AnsweredIs
<1> HIDE DEF f
<1>3. ASSUME i < n  PROVE IsLatest(f, n - 1) /\ f[n - 1] = s[n]
  <2>1. n - 1 \in 1 .. Len(s) - 1 /\ n - 1 >= i /\ (n - 1) + 1 = n
    BY <1>1, <1>3
  <2>2. f[n - 1] = s[n]
    BY <1>2, <2>1
  <2>3. ASSUME NEW j \in (n - 1) + 1 .. Len(f)  PROVE f[j].late
    <3>1. j \in 1 .. Len(s) - 1 /\ j >= i /\ j + 1 \in n + 1 .. Len(s)
      BY <1>1, <1>2, <1>3, <2>3
    <3> QED  BY <1>2, <3>1 DEF IsLatest
  <2> QED  BY <1>2, <2>1, <2>2, <2>3 DEF IsLatest
<1>4. ASSUME i >= n, NEW j \in 1 .. Len(f)  PROVE f[j].late
  <2>1. j \in 1 .. Len(s) - 1 /\ j \in 1 .. Len(s)
    BY <1>1, <1>2
  <2>2. CASE j < i
    <3>1. f[j] = [s[j] EXCEPT !.late = TRUE]
      BY <1>2, <2>1, <2>2
    <3>2. [s[j] EXCEPT !.late = TRUE].late
      BY <1>1, <2>1
    <3> QED  BY <3>1, <3>2
  <2>3. CASE j >= i
    <3>1. j + 1 \in n + 1 .. Len(s)
      BY <1>1, <1>4, <2>1, <2>3
    <3> QED  BY <1>2, <2>1, <2>3, <3>1 DEF IsLatest
  <2> QED  BY <2>1, <2>2, <2>3, <1>1
<1>5. ASSUME i > n  PROVE s[i].late
  <2>1. i \in n + 1 .. Len(s)
    BY <1>1, <1>5
  <2> QED  BY <2>1 DEF IsLatest
<1> QED  BY <1>3, <1>4, <1>5 DEF AllLate, f

\* Late requests stay late, and the answer to one is late.
LEMMA LateAnswered ==
    ASSUME NEW R, NEW s \in Seq(R), NEW i \in 1 .. Len(s), AllLate(s),
           \A r \in R : [r EXCEPT !.late = TRUE] \in R /\ [r EXCEPT !.late = TRUE].late
    PROVE  AllLate(Answered(s, i)) /\ s[i].late
<1> DEFINE f == Answered(s, i)
<1>1. Len(s) \in Nat /\ \A j \in 1 .. Len(s) : s[j] \in R
  BY LenProperties, ElementOfSeq
<1>2. /\ Len(f) = Len(s) - 1
      /\ \A j \in 1 .. Len(s) - 1 :
            /\ j < i => f[j] = [s[j] EXCEPT !.late = TRUE]
            /\ j >= i => f[j] = s[j + 1]
  BY AnsweredIs
<1> HIDE DEF f
<1>3. ASSUME NEW j \in 1 .. Len(f)  PROVE f[j].late
  <2>1. j \in 1 .. Len(s) - 1 /\ j \in 1 .. Len(s) /\ j + 1 \in 1 .. Len(s)
    BY <1>1, <1>2
  <2>2. CASE j < i
    <3>1. f[j] = [s[j] EXCEPT !.late = TRUE]
      BY <1>2, <2>1, <2>2
    <3>2. [s[j] EXCEPT !.late = TRUE].late
      BY <1>1, <2>1
    <3> QED  BY <3>1, <3>2
  <2>3. CASE j >= i
    BY <1>2, <2>1, <2>3 DEF AllLate
  <2> QED  BY <2>1, <2>2, <2>3, <1>1
<1> QED  BY <1>3 DEF AllLate, f

\* A new request is the latest, unless it is late from the start.
LEMMA NewRequest ==
    ASSUME NEW R, NEW s \in Seq(R), NEW r \in R
    PROVE  LET a == Append(s, r) IN
           /\ a \in Seq(R) /\ Len(a) = Len(s) + 1 /\ a[Len(a)] = r
           /\ \A j \in 1 .. Len(s) : a[j] = s[j]
           /\ ~r.late => IsLatest(a, Len(a))
           /\ r.late /\ AllLate(s) => AllLate(a)
<1> DEFINE a == Append(s, r)
<1>1. Len(s) \in Nat /\ a \in Seq(R) /\ Len(a) = Len(s) + 1 /\ a[Len(a)] = r
  BY LenProperties, AppendProperties
<1>2. \A j \in 1 .. Len(s) : a[j] = s[j]
  BY AppendProperties
<1> HIDE DEF a
<1>3. ~r.late => IsLatest(a, Len(a))
  BY <1>1 DEF IsLatest
<1>4. \A j \in 1 .. Len(a) : j \in 1 .. Len(s) \/ j = Len(a)
  BY <1>1
<1>5. r.late /\ AllLate(s) => AllLate(a)
  BY <1>1, <1>2, <1>4 DEF AllLate
<1> QED  BY <1>1, <1>2, <1>3, <1>5 DEF a

LEMMA LateRequest ==
    ASSUME NEW R, NEW s \in Seq(R), NEW r \in R, r.late, NEW n \in Nat, IsLatest(s, n)
    PROVE  IsLatest(Append(s, r), n) /\ Append(s, r)[n] = s[n]
<1> DEFINE a == Append(s, r)
<1>1. Len(s) \in Nat /\ Len(a) = Len(s) + 1 /\ a[Len(a)] = r
  BY LenProperties, AppendProperties
<1>2. \A j \in 1 .. Len(s) : a[j] = s[j]
  BY AppendProperties
<1> HIDE DEF a
<1>3. n \in 1 .. Len(s) /\ n \in 1 .. Len(a)
  BY <1>1 DEF IsLatest
<1>4. ASSUME NEW j \in n + 1 .. Len(a)  PROVE a[j].late
  <2>1. j \in n + 1 .. Len(s) \/ j = Len(a)
    BY <1>1, <1>4
  <2>2. j \in n + 1 .. Len(s) => j \in 1 .. Len(s)
    BY <1>1
  <2> QED  BY <1>1, <1>2, <2>1, <2>2 DEF IsLatest
<1> QED  BY <1>2, <1>3, <1>4 DEF IsLatest, a

LEMMA LateAsked == \A r \in Asked :
    /\ [r EXCEPT !.late = TRUE] \in Asked
    /\ [r EXCEPT !.late = TRUE].late
  BY DEF Asked

LEMMA LateLoad == \A r \in Load :
    /\ [r EXCEPT !.late = TRUE] \in Load
    /\ [r EXCEPT !.late = TRUE].late
    /\ [r EXCEPT !.late = TRUE].got = r.got
  BY DEF Load

-----------------------------------------------------------------------------
(* Photos that are stored.                                                 *)

LEMMA NewerIsFinite ==
    ASSUME TypeOK, NEW p
    PROVE  IsFiniteSet(Newer(p)) /\ Cardinality(Newer(p)) \in Nat
<1>1. Len(stored) \in Nat
  BY LenProperties DEF TypeOK
<1>2. IsFiniteSet(1 .. Len(stored))
  BY <1>1, FS_Interval
<1>3. Newer(p) \subseteq 1 .. Len(stored)
  BY DEF Newer, Listed
<1> QED  BY <1>2, <1>3, FS_Subset, FS_CardinalityType

\* What the listing of a gallery shows of the successes reported.
LEMMA PageIsCurrent ==
    ASSUME TypeOK, SuccessMeansStored, NEW g
    PROVE  Covers(FirstPage(g), g)
<1> SUFFICES ASSUME NEW t \in told, t.of = g, stored[t.photo].listed,
                    ~(Cardinality(Newer(t.photo)) >= PageSize)
             PROVE  t.photo \in FirstPage(g)
  BY DEF Covers
<1>1. t.photo \in Listed(g)
  BY DEF SuccessMeansStored, Listed
<1>2. Cardinality(Newer(t.photo)) < PageSize
  BY NewerIsFinite, PageSizeAssumption
<1> QED  BY <1>1, <1>2 DEF FirstPage

\* Storing a photo keeps the others, and what is newer than each.
LEMMA StoredGrows ==
    ASSUME TypeOK, ReadIsStored, NEW g \in Galleries, NEW whole \in BOOLEAN, Stores(g, whole)
    PROVE  /\ stored' \in Seq([of : Galleries, whole : BOOLEAN, listed : BOOLEAN])
           /\ Len(stored') = Len(stored) + 1 /\ Len(stored') <= MaxStored
           /\ \A p \in 1 .. Len(stored) : p \in 1 .. Len(stored') /\ stored'[p] = stored[p]
           /\ Len(stored') \in 1 .. Len(stored')
           /\ stored'[Len(stored')].of = g /\ stored'[Len(stored')].whole = whole
           /\ \A p \in 1 .. Len(stored) :
                 Cardinality(Newer(p)) >= PageSize => Cardinality(Newer(p)') >= PageSize
<1> DEFINE R == [of : Galleries, whole : BOOLEAN, listed : BOOLEAN]
<1>1. stored \in Seq(R) /\ Len(stored) \in Nat /\ MaxStored \in Nat
  BY LenProperties, BoundsAssumption DEF TypeOK
<1>2. PICK saved \in BOOLEAN :
         /\ stored' = Append(stored, [of |-> g, whole |-> whole, listed |-> saved])
         /\ Len(stored) < MaxStored
  BY DEF Stores
<1>3. [of |-> g, whole |-> whole, listed |-> saved] \in R
  OBVIOUS
<1> HIDE DEF R
<1>4. /\ stored' \in Seq(R) /\ Len(stored') = Len(stored) + 1
      /\ \A p \in 1 .. Len(stored) : stored'[p] = stored[p]
      /\ stored'[Len(stored) + 1] = [of |-> g, whole |-> whole, listed |-> saved]
  BY <1>1, <1>2, <1>3, AppendProperties
<1>5. \A p \in 1 .. Len(stored) : p \in 1 .. Len(stored')
  BY <1>1, <1>4
<1>6. ASSUME NEW p \in 1 .. Len(stored), Cardinality(Newer(p)) >= PageSize
      PROVE  Cardinality(Newer(p)') >= PageSize
  <2>1. Newer(p) \subseteq Newer(p)'
    BY <1>4, <1>5 DEF Newer, Listed
  <2>2. IsFiniteSet(Newer(p)')
    <3>1. IsFiniteSet(1 .. Len(stored'))
      BY <1>1, <1>4, FS_Interval
    <3>2. Newer(p)' \subseteq 1 .. Len(stored')
      BY DEF Newer, Listed
    <3> QED  BY <3>1, <3>2, FS_Subset
  <2>3. Cardinality(Newer(p)) <= Cardinality(Newer(p)')
    BY <2>1, <2>2, FS_Subset
  <2>4. Cardinality(Newer(p)') \in Nat
    BY <2>2, FS_CardinalityType
  <2> QED  BY <1>6, <2>3, <2>4, NewerIsFinite, PageSizeAssumption
<1> QED  BY <1>1, <1>2, <1>4, <1>5, <1>6 DEF R

-----------------------------------------------------------------------------
(* A step that leaves the page and its requests alone.                     *)

PageTyped ==
    /\ page \in Galleries \cup {None}
    /\ details \in [of : Galleries \cup {None}, loading : BOOLEAN, error : BOOLEAN,
                    late : BOOLEAN]
    /\ grid \in [of : Galleries \cup {None}, ids : SUBSET (1 .. Len(stored)),
                 loading : BOOLEAN, error : BOOLEAN, late : BOOLEAN]
    /\ asking \in Seq(Asked) /\ Len(asking) <= MaxAsking
    /\ loads \in Seq(Load) /\ Len(loads) <= MaxLoads
    /\ stored \in Seq([of : Galleries, whole : BOOLEAN, listed : BOOLEAN])

LEMMA PageStays ==
    ASSUME Inv, UNCHANGED <<page, details, grid, asking, loads, told>>,
           \/ UNCHANGED stored
           \/ \E g \in Galleries, whole \in BOOLEAN : Stores(g, whole)
    PROVE  /\ PageTyped' /\ ReadIsStored' /\ SuccessMeansStored'
           /\ DetailsFollow' /\ GridFollows'
           /\ \A p \in 1 .. Len(stored) : p \in 1 .. Len(stored') /\ stored'[p] = stored[p]
<1>1. /\ stored' \in Seq([of : Galleries, whole : BOOLEAN, listed : BOOLEAN])
      /\ Len(stored') <= MaxStored
      /\ \A p \in 1 .. Len(stored) : p \in 1 .. Len(stored') /\ stored'[p] = stored[p]
      /\ \A p \in 1 .. Len(stored) :
            Cardinality(Newer(p)) >= PageSize => Cardinality(Newer(p)') >= PageSize
  <2>1. CASE UNCHANGED stored
    <3>1. ASSUME NEW p  PROVE Newer(p)' = Newer(p)
      BY <2>1 DEF Newer, Listed
    <3>2. stored \in Seq([of : Galleries, whole : BOOLEAN, listed : BOOLEAN]) /\ Len(stored) <= MaxStored
      BY DEF Inv, TypeOK, ReadIsStored
    <3> QED  BY <2>1, <3>1, <3>2
  <2>2. CASE \E g \in Galleries, whole \in BOOLEAN : Stores(g, whole)
    <3>1. PICK g \in Galleries, whole \in BOOLEAN : Stores(g, whole)
      BY <2>2
    <3> QED  BY <3>1, StoredGrows DEF Inv
  <2> QED  BY <2>1, <2>2
<1>2. PageTyped'
  BY <1>1 DEF Inv, TypeOK, PageTyped
<1>3. ReadIsStored'
  BY <1>1 DEF Inv, ReadIsStored
<1>4. SuccessMeansStored'
  BY <1>1 DEF Inv, SuccessMeansStored
<1>5. DetailsFollow'
  BY DEF Inv, DetailsFollow, Loaded
<1>6. ASSUME NEW ids, NEW g, Covers(ids, g)
      PROVE  \A t \in told' : t.of = g /\ stored'[t.photo].listed =>
                t.photo \in ids \/ Cardinality(Newer(t.photo)') >= PageSize
  BY <1>1, <1>6 DEF Inv, SuccessMeansStored, Covers
<1>7. GridFollows'
  <2> SUFFICES ASSUME GridShown'  PROVE GridFollows'
    BY DEF GridFollows
  <2>1. GridShown
    BY DEF GridShown, Loaded
  <2>2. CASE \E n \in 1 .. Len(loads) :
                /\ IsLatest(loads, n) /\ loads[n].of = page
                /\ loads[n].got = Unread \/ Covers(loads[n].got, page)
    <3>1. PICK n \in 1 .. Len(loads) :
                /\ IsLatest(loads, n) /\ loads[n].of = page
                /\ loads[n].got = Unread \/ Covers(loads[n].got, page)
      BY <2>2
    <3>2. loads'[n].got = Unread \/ Covers(loads[n].got, page)'
      BY <1>6, <3>1 DEF Covers
    <3>3. IsLatest(loads', n) /\ n \in 1 .. Len(loads') /\ loads'[n].of = page'
      BY <3>1
    <3> QED  BY <3>2, <3>3 DEF GridFollows
  <2>3. CASE /\ AllLate(loads)
             /\ ~grid.loading /\ ~grid.error /\ ~grid.late =>
                   grid.of = page /\ Covers(grid.ids, page)
    BY <1>6, <2>3 DEF GridFollows, Covers
  <2> QED  BY <2>1, <2>2, <2>3 DEF Inv, GridFollows
<1> QED  BY <1>1, <1>2, <1>3, <1>4, <1>5, <1>7

-----------------------------------------------------------------------------
(* The upload.                                                             *)

UploadTyped ==
    /\ uploading \in BOOLEAN
    /\ upload \in Upload \cup {Idle}
    /\ upload # Idle => upload.read <= upload.size + 1
    /\ details.loading => asking # <<>>
    /\ grid.loading => loads # <<>>
    /\ uploading <=> upload # Idle

\* An upload is not Idle: None is no gallery.
LEMMA NotIdle ==
    /\ Upload \cap {Idle} = {}
    /\ upload \in Upload \cup {Idle} /\ upload # Idle => upload \in Upload
<1>1. ASSUME NEW u \in Upload  PROVE u # Idle
  <2>1. u.of \in Galleries
    BY DEF Upload
  <2>2. Idle.of = None
    BY DEF Idle
  <2> QED  BY <2>1, <2>2, PageSizeAssumption
<1> QED  BY <1>1

LEMMA InvHasParts ==
    ASSUME Inv
    PROVE  PageTyped /\ UploadTyped
  BY DEF PageTyped, UploadTyped, Inv, TypeOK, SpinnersHaveRequests

LEMMA UploadPhotoKeeps ==
    ASSUME Inv, NEW size \in Sizes, UploadPhoto(size)
    PROVE  Inv'
<1>1. /\ UNCHANGED <<page, details, grid, asking, loads, told, stored>>
      /\ uploading' = TRUE /\ page \in Galleries
      /\ upload' = [of |-> page, size |-> size, read |-> 0, outcome |-> "none", photo |-> 0]
  BY DEF UploadPhoto, GridShown, Inv, TypeOK
<1>2. upload' \in Upload
  BY <1>1, BoundsAssumption DEF Upload
<1>3. upload'.read <= upload'.size + 1 /\ upload'.outcome = "none"
  BY <1>1, BoundsAssumption DEF Sizes
<1>4. upload' # Idle
  BY <1>2, NotIdle
<1>5. UploadTyped'
  BY <1>1, <1>2, <1>3, <1>4, InvHasParts DEF UploadTyped
<1>6. UploadIsStored'
  BY <1>3 DEF UploadIsStored
<1>7. /\ PageTyped' /\ ReadIsStored' /\ SuccessMeansStored'
      /\ DetailsFollow' /\ GridFollows'
  BY <1>1, PageStays
<1> QED  BY <1>5, <1>6, <1>7 DEF PageTyped, UploadTyped, Inv, TypeOK, SpinnersHaveRequests

LEMMA SendAndRecvKeeps ==
    ASSUME Inv, SendAndRecv
    PROVE  Inv'
<1>1. /\ UNCHANGED <<page, details, grid, asking, loads, told, stored, uploading>>
      /\ upload \in Upload /\ upload # Idle /\ upload.read # upload.size + 1
      /\ upload' = [upload EXCEPT !.read = upload.read + 1,
                       !.outcome = IF upload.size > MaxChunks THEN "refused" ELSE "none"]
  BY NotIdle, InvHasParts DEF SendAndRecv, InProgress, Sent, UploadTyped, tab
<1>2. upload.read \in Nat /\ upload.size \in Sizes /\ upload.read + 1 <= upload.size + 1
  BY <1>1, InvHasParts, BoundsAssumption DEF UploadTyped, Upload, Sizes
<1>3. upload'.read = upload.read + 1 /\ upload'.size = upload.size
  BY <1>1 DEF Upload
<1>4. upload'.outcome \in {"refused", "none"}
  BY <1>1 DEF Upload
<1>5. upload.read + 1 \in 0 .. MaxChunks + 2
  BY <1>2, BoundsAssumption DEF Sizes
<1>6. upload' \in Upload
  BY <1>1, <1>5 DEF Upload
<1>7. UploadTyped'
  BY <1>1, <1>2, <1>3, <1>6, NotIdle, InvHasParts DEF UploadTyped
<1>8. UploadIsStored'
  BY <1>4 DEF UploadIsStored
<1>9. /\ PageTyped' /\ ReadIsStored' /\ SuccessMeansStored'
      /\ DetailsFollow' /\ GridFollows'
  BY <1>1, PageStays
<1> QED  BY <1>7, <1>8, <1>9 DEF PageTyped, UploadTyped, Inv, TypeOK, SpinnersHaveRequests

LEMMA FinishKeeps ==
    ASSUME Inv, Finish
    PROVE  Inv'
<1>1. /\ UNCHANGED <<page, details, grid, asking, loads, told, uploading>>
      /\ upload \in Upload /\ upload # Idle
  BY NotIdle, InvHasParts DEF Finish, InProgress, UploadTyped, tab
<1>2. CASE Refuses
  <2>1. /\ UNCHANGED stored /\ upload' = [upload EXCEPT !.outcome = "refused"]
    BY <1>2 DEF Refuses
  <2>2. upload' \in Upload /\ upload'.outcome = "refused"
    BY <1>1, <2>1 DEF Upload
  <2>3. upload'.read = upload.read /\ upload'.size = upload.size
    BY <1>1, <2>1 DEF Upload
  <2>4. UploadTyped'
    BY <1>1, <2>2, <2>3, NotIdle, InvHasParts DEF UploadTyped
  <2>5. UploadIsStored'
    BY <2>2 DEF UploadIsStored
  <2>6. /\ PageTyped' /\ ReadIsStored' /\ SuccessMeansStored'
        /\ DetailsFollow' /\ GridFollows'
    BY <1>1, <2>1, PageStays
  <2> QED  BY <2>4, <2>5, <2>6 DEF PageTyped, UploadTyped, Inv, TypeOK, SpinnersHaveRequests
<1>3. CASE /\ Complete(upload)
           /\ Stores(upload.of, upload.read - 1 = upload.size)
           /\ upload' = [upload EXCEPT !.outcome = "stored", !.photo = Len(stored')]
  <2>1. upload.of \in Galleries
    BY <1>1 DEF Upload
  <2>2. (upload.read - 1 = upload.size) = TRUE
    BY <1>3 DEF Complete
  <2>3. Stores(upload.of, TRUE)
    BY <1>3, <2>2
  <2>4. /\ Len(stored') \in 1 .. Len(stored') /\ Len(stored') <= MaxStored
        /\ stored'[Len(stored')].of = upload.of /\ stored'[Len(stored')].whole
    BY <2>1, <2>3, StoredGrows DEF Inv
  <2>5. Len(stored') \in 0 .. MaxStored
    BY <2>4, BoundsAssumption
  <2>6. upload' \in Upload /\ upload'.photo = Len(stored') /\ upload'.of = upload.of
    BY <1>1, <1>3, <2>5 DEF Upload
  <2>7. upload'.read = upload.read /\ upload'.size = upload.size
    BY <1>1, <1>3 DEF Upload
  <2>8. UploadTyped'
    BY <1>1, <2>6, <2>7, NotIdle, InvHasParts DEF UploadTyped
  <2>9. UploadIsStored'
    BY <2>4, <2>6 DEF UploadIsStored
  <2>10. /\ PageTyped' /\ ReadIsStored' /\ SuccessMeansStored'
         /\ DetailsFollow' /\ GridFollows'
    BY <1>1, <2>1, <2>3, PageStays
  <2> QED  BY <2>8, <2>9, <2>10 DEF PageTyped, UploadTyped, Inv, TypeOK, SpinnersHaveRequests
<1> QED  BY <1>2, <1>3 DEF Finish

\* The upload ends without a success, or another user's photo is stored.
LEMMA UploadEndsKeeps ==
    ASSUME Inv, Refused \/ Breaks \/ \E g \in Galleries : OthersUpload(g)
    PROVE  Inv'
<1>1. UNCHANGED <<page, details, grid, asking, loads, told>>
  BY DEF Refused, Breaks, UploadFails, OthersUpload, tab
<1>2. UNCHANGED stored \/ \E g \in Galleries, whole \in BOOLEAN : Stores(g, whole)
  <2>1. CASE Refused
    BY <2>1 DEF Refused
  <2>2. CASE Breaks
    <3>1. upload \in Upload
      BY <2>2, NotIdle, InvHasParts DEF Breaks, UploadTyped
    <3>2. upload.of \in Galleries
      BY <3>1 DEF Upload
    <3> QED  BY <2>2, <3>2 DEF Breaks
  <2>3. CASE \E g \in Galleries : OthersUpload(g)
    BY <2>3 DEF OthersUpload
  <2> QED  BY <2>1, <2>2, <2>3
<1>3. /\ PageTyped' /\ ReadIsStored' /\ SuccessMeansStored'
      /\ DetailsFollow' /\ GridFollows'
      /\ \A p \in 1 .. Len(stored) : p \in 1 .. Len(stored') /\ stored'[p] = stored[p]
  BY <1>1, <1>2, PageStays
<1>4. CASE UploadFails
  <2>1. UploadTyped'
    BY <1>1, <1>4, InvHasParts DEF UploadFails, UploadTyped
  <2>2. UploadIsStored'
    BY <1>4 DEF UploadFails, UploadIsStored
  <2> QED  BY <1>3, <2>1, <2>2 DEF PageTyped, UploadTyped, Inv, TypeOK, SpinnersHaveRequests
<1>5. CASE UNCHANGED <<upload, uploading>>
  <2>1. UploadTyped'
    BY <1>1, <1>5, InvHasParts DEF UploadTyped
  <2>2. UploadIsStored'
    BY <1>3, <1>5 DEF Inv, UploadIsStored
  <2> QED  BY <1>3, <2>1, <2>2 DEF PageTyped, UploadTyped, Inv, TypeOK, SpinnersHaveRequests
<1> QED  BY <1>4, <1>5 DEF Refused, Breaks, OthersUpload, tab

-----------------------------------------------------------------------------
(* The page and the grid.                                                  *)

LEMMA Loading ==
    ASSUME Inv, NEW g \in Galleries, LoadUploads(g), UNCHANGED stored
    PROVE  /\ loads' \in Seq(Load) /\ Len(loads') <= MaxLoads /\ loads' # <<>>
           /\ grid' = Blank(TRUE, FALSE)
           /\ ReadIsStored'
           /\ g = page' => \E n \in 1 .. Len(loads') :
                 IsLatest(loads', n) /\ loads'[n].of = page' /\ loads'[n].got = Unread
           /\ g # page' =>
                 /\ AllLate(loads) => AllLate(loads')
                 /\ \A n \in 1 .. Len(loads) : IsLatest(loads, n) =>
                       n \in 1 .. Len(loads') /\ IsLatest(loads', n) /\ loads'[n] = loads[n]
<1> DEFINE r == [of |-> g, late |-> g # page', got |-> Unread]
<1>1. loads \in Seq(Load) /\ Len(loads) \in Nat /\ Len(loads) < MaxLoads /\ MaxLoads \in Nat
  BY LenProperties, BoundsAssumption DEF Inv, TypeOK, LoadUploads
<1>2. r \in Load
  <2>1. Unread \in SUBSET (0 .. MaxStored) /\ (g # page') \in BOOLEAN
    BY BoundsAssumption DEF Unread
  <2> QED  BY <2>1 DEF Load
<1>3. loads' = Append(loads, r) /\ grid' = Blank(TRUE, FALSE)
  BY DEF LoadUploads
<1>4. r.got = Unread /\ r.of = g /\ (r.late <=> g # page')
  OBVIOUS
<1> HIDE DEF r
<1>5. /\ loads' \in Seq(Load) /\ Len(loads') = Len(loads) + 1 /\ loads'[Len(loads')] = r
      /\ \A j \in 1 .. Len(loads) : loads'[j] = loads[j]
      /\ ~r.late => IsLatest(loads', Len(loads'))
      /\ r.late /\ AllLate(loads) => AllLate(loads')
      /\ \A n \in Nat : r.late /\ IsLatest(loads, n) => IsLatest(loads', n) /\ loads'[n] = loads[n]
  <2>1. /\ loads' \in Seq(Load) /\ Len(loads') = Len(loads) + 1 /\ loads'[Len(loads')] = r
        /\ ~r.late => IsLatest(loads', Len(loads'))
        /\ r.late /\ AllLate(loads) => AllLate(loads')
    BY <1>1, <1>2, <1>3, NewRequest
  <2>2. \A j \in 1 .. Len(loads) : loads'[j] = loads[j]
    BY <1>1, <1>2, <1>3, NewRequest
  <2>3. ASSUME NEW n \in Nat, r.late, IsLatest(loads, n)
        PROVE  IsLatest(loads', n) /\ loads'[n] = loads[n]
    BY <1>1, <1>2, <1>3, <2>3, LateRequest
  <2> QED  BY <2>1, <2>2, <2>3
<1>6. Len(loads') \in 1 .. Len(loads') /\ \A n \in 1 .. Len(loads) : n \in Nat /\ n \in 1 .. Len(loads')
  BY <1>1, <1>5
<1>7. loads' # <<>> /\ Len(loads') <= MaxLoads
  BY <1>1, <1>5
<1>8. ReadIsStored'
  <2>1. ASSUME NEW i \in 1 .. Len(loads'), loads'[i].got # Unread
        PROVE  loads'[i].got \subseteq 1 .. Len(stored)
    <3>1. i \in 1 .. Len(loads) \/ i = Len(loads')
      BY <1>1, <1>5
    <3>2. i \in 1 .. Len(loads) /\ loads'[i] = loads[i]
      BY <1>4, <1>5, <2>1, <3>1
    <3> QED  BY <2>1, <3>2 DEF Inv, ReadIsStored
  <2> QED  BY <2>1 DEF Inv, ReadIsStored
<1>9. ASSUME g = page'
      PROVE  \E n \in 1 .. Len(loads') :
                 IsLatest(loads', n) /\ loads'[n].of = page' /\ loads'[n].got = Unread
  <2>1. /\ IsLatest(loads', Len(loads'))
        /\ loads'[Len(loads')].of = page' /\ loads'[Len(loads')].got = Unread
    BY <1>4, <1>5, <1>9
  <2> QED  BY <1>6, <2>1
<1> QED  BY <1>3, <1>4, <1>5, <1>6, <1>7, <1>8, <1>9

LEMMA BlankIsTyped ==
    \A b \in BOOLEAN, e \in BOOLEAN :
        /\ Blank(b, e) \in [of : Galleries \cup {None}, ids : SUBSET (1 .. Len(stored)),
                            loading : BOOLEAN, error : BOOLEAN, late : BOOLEAN]
        /\ Blank(b, e).loading = b /\ Blank(b, e).error = e
  BY DEF Blank

\* Nothing but the page, its stores and its requests changes.
LEMMA UploadStays ==
    ASSUME Inv, UNCHANGED <<uploading, upload, stored, told>>
    PROVE  /\ UploadIsStored' /\ SuccessMeansStored'
           /\ \A ids, g : Covers(ids, g) =>
                 \A t \in told' : t.of = g /\ stored'[t.photo].listed =>
                    t.photo \in ids \/ Cardinality(Newer(t.photo)') >= PageSize
           /\ uploading' \in BOOLEAN /\ upload' \in Upload \cup {Idle}
           /\ upload' # Idle => upload'.read <= upload'.size + 1
           /\ uploading' <=> upload' # Idle
           /\ stored' \in Seq([of : Galleries, whole : BOOLEAN, listed : BOOLEAN])
           /\ Len(stored') <= MaxStored
<1>1. ASSUME NEW p  PROVE Newer(p)' = Newer(p)
  BY DEF Newer, Listed
<1>2. UploadIsStored' /\ SuccessMeansStored'
  BY DEF Inv, UploadIsStored, SuccessMeansStored
<1> QED  BY <1>1, <1>2, InvHasParts DEF Inv, UploadTyped, TypeOK, ReadIsStored, Covers

LEMMA EnterKeeps ==
    ASSUME Inv, NEW g \in Galleries, Enter(g)
    PROVE  Inv'
<1> DEFINE r == [of |-> g, late |-> FALSE]
<1>1. /\ page' = g /\ asking' = Append(asking, r) /\ Len(asking) < MaxAsking
      /\ details' = [of |-> None, loading |-> TRUE, error |-> FALSE, late |-> FALSE]
      /\ UNCHANGED <<uploading, upload, stored, told>>
      /\ LoadUploads(g) \/ UNCHANGED <<grid, loads>>
  BY DEF Enter
<1>2. asking \in Seq(Asked) /\ Len(asking) \in Nat /\ MaxAsking \in Nat /\ r \in Asked
  BY LenProperties, BoundsAssumption DEF Inv, TypeOK, Asked
<1>3. ~r.late /\ r.of = g
  OBVIOUS
<1> HIDE DEF r
<1>4. /\ asking' \in Seq(Asked) /\ Len(asking') = Len(asking) + 1
      /\ asking'[Len(asking')] = r /\ IsLatest(asking', Len(asking'))
  BY <1>1, <1>2, <1>3, NewRequest
<1>5. asking' # <<>> /\ Len(asking') <= MaxAsking /\ Len(asking') \in 1 .. Len(asking')
  BY <1>1, <1>2, <1>4
<1>6. DetailsFollow'
  BY <1>1, <1>3, <1>4, <1>5 DEF DetailsFollow
<1>7. ~GridShown'
  BY <1>1 DEF GridShown, Loaded
<1>8. /\ loads' \in Seq(Load) /\ Len(loads') <= MaxLoads
      /\ grid' \in [of : Galleries \cup {None}, ids : SUBSET (1 .. Len(stored)),
                    loading : BOOLEAN, error : BOOLEAN, late : BOOLEAN]
      /\ grid'.loading => loads' # <<>>
      /\ ReadIsStored'
  <2>1. CASE LoadUploads(g)
    BY <1>1, <2>1, Loading, BlankIsTyped
  <2>2. CASE UNCHANGED <<grid, loads>>
    BY <1>1, <2>2, InvHasParts DEF Inv, PageTyped, UploadTyped, ReadIsStored
  <2> QED  BY <1>1, <2>1, <2>2
<1>9. PageTyped'
  BY <1>1, <1>4, <1>5, <1>8, UploadStays DEF PageTyped
<1>10. UploadTyped'
  BY <1>1, <1>5, <1>8, UploadStays DEF UploadTyped
<1>11. GridFollows'
  BY <1>7 DEF GridFollows
<1>12. UploadIsStored' /\ SuccessMeansStored'
  BY <1>1, UploadStays
<1> QED  BY <1>6, <1>8, <1>9, <1>10, <1>11, <1>12
         DEF PageTyped, UploadTyped, Inv, TypeOK, SpinnersHaveRequests

LEMMA LeaveKeeps ==
    ASSUME Inv, Leave
    PROVE  Inv'
<1>1. /\ page' = None /\ UNCHANGED <<details, grid, asking, loads>>
      /\ UNCHANGED <<uploading, upload, stored, told>>
  BY DEF Leave
<1>2. DetailsFollow' /\ GridFollows'
  BY <1>1 DEF DetailsFollow, GridFollows, GridShown
<1>3. PageTyped' /\ UploadTyped' /\ ReadIsStored'
  BY <1>1, InvHasParts DEF PageTyped, UploadTyped, ReadIsStored, Inv
<1>4. UploadIsStored' /\ SuccessMeansStored'
  BY <1>1, UploadStays
<1> QED  BY <1>2, <1>3, <1>4
         DEF PageTyped, UploadTyped, Inv, TypeOK, SpinnersHaveRequests

LEMMA DetailsAnsweredKeeps ==
    ASSUME Inv, NEW i \in 1 .. Len(asking), DetailsArrive(i) \/ DetailsFail(i)
    PROVE  Inv'
<1>1. /\ asking \in Seq(Asked) /\ Len(asking) \in Nat /\ Len(asking) <= MaxAsking
      /\ asking[i] \in Asked /\ MaxAsking \in Nat
  BY LenProperties, ElementOfSeq, BoundsAssumption DEF Inv, TypeOK
<1>2. /\ UNCHANGED <<page, uploading, upload, stored, told>>
      /\ asking' = Answered(asking, i)
      /\ details' \in [of : Galleries \cup {None}, loading : BOOLEAN, error : BOOLEAN,
                       late : BOOLEAN]
      /\ ~details'.loading
      /\ Loaded(details') => details'.of = asking[i].of /\ details'.late = asking[i].late
      /\ IF page # None /\ Loaded(details') /\ ~GridShown
         THEN LoadUploads(page)
         ELSE UNCHANGED <<grid, loads>>
  <2>1. CASE DetailsArrive(i)
    BY <1>1, <2>1 DEF DetailsArrive, Takes, Asked
  <2>2. CASE DetailsFail(i)
    <3> DEFINE d == [of |-> None, loading |-> FALSE, error |-> TRUE, late |-> FALSE]
    <3>1. details' = d /\ ~Loaded(d)
      BY <2>2 DEF DetailsFail, Takes, Loaded
    <3>2. d \in [of : Galleries \cup {None}, loading : BOOLEAN, error : BOOLEAN,
                 late : BOOLEAN] /\ ~d.loading
      OBVIOUS
    <3>3. Takes(i, d)
      BY <2>2 DEF DetailsFail
    <3> HIDE DEF d
    <3>4. /\ UNCHANGED <<page, uploading, upload, stored, told>>
          /\ asking' = Answered(asking, i)
          /\ UNCHANGED <<grid, loads>>
      BY <3>1, <3>3 DEF Takes
    <3> QED  BY <3>1, <3>2, <3>4
  <2> QED  BY <2>1, <2>2
<1>3. asking' \in Seq(Asked) /\ Len(asking') <= MaxAsking
  <2>1. asking' \in Seq(Asked)
    BY <1>1, <1>2, AnsweredType, LateAsked
  <2>2. Len(asking') = Len(asking) - 1
    BY <1>1, <1>2, AnsweredIs
  <2> QED  BY <1>1, <2>1, <2>2
<1>4. DetailsFollow'
  <2> SUFFICES ASSUME page # None  PROVE DetailsFollow'
    BY <1>2 DEF DetailsFollow
  <2>1. CASE \E n \in 1 .. Len(asking) : IsLatest(asking, n) /\ asking[n].of = page
    <3>1. PICK n \in 1 .. Len(asking) : IsLatest(asking, n) /\ asking[n].of = page
      BY <2>1
    <3>2. n \in Nat /\ n - 1 \in Nat /\ (i < n \/ i = n \/ i > n)
      BY <1>1
    <3>3. /\ i < n => IsLatest(asking', n - 1) /\ asking'[n - 1] = asking[n]
          /\ i >= n => AllLate(asking')
          /\ i > n => asking[i].late
      BY <1>1, <1>2, <3>1, <3>2, LateAsked, LatestAnswered
    <3>4. CASE i < n
      <4>1. IsLatest(asking', n - 1) /\ asking'[n - 1].of = page'
        BY <1>2, <3>1, <3>3, <3>4
      <4>2. n - 1 \in 1 .. Len(asking')
        BY <4>1 DEF IsLatest
      <4> QED  BY <4>1, <4>2 DEF DetailsFollow
    <3>5. CASE i = n
      <4>1. AllLate(asking') /\ asking[i].of = page'
        BY <1>2, <3>1, <3>2, <3>3, <3>5
      <4> QED  BY <1>2, <4>1 DEF DetailsFollow
    <3>6. CASE i > n
      <4>1. AllLate(asking') /\ asking[i].late
        BY <3>2, <3>3, <3>6
      <4> QED  BY <1>2, <4>1 DEF DetailsFollow
    <3> QED  BY <3>2, <3>4, <3>5, <3>6
  <2>2. CASE AllLate(asking)
    <3>1. AllLate(asking') /\ asking[i].late
      BY <1>1, <1>2, <2>2, LateAsked, LateAnswered
    <3> QED  BY <1>2, <3>1 DEF DetailsFollow
  <2> QED  BY <2>1, <2>2 DEF Inv, DetailsFollow
<1>5. page # None => page \in Galleries
  BY DEF Inv, TypeOK
<1>6. CASE page # None /\ Loaded(details') /\ ~GridShown
  <2>1. LoadUploads(page) /\ page \in Galleries /\ page = page'
    BY <1>2, <1>5, <1>6
  <2>2. /\ loads' \in Seq(Load) /\ Len(loads') <= MaxLoads /\ loads' # <<>>
        /\ grid' = Blank(TRUE, FALSE)
        /\ ReadIsStored'
        /\ \E n \in 1 .. Len(loads') :
              IsLatest(loads', n) /\ loads'[n].of = page' /\ loads'[n].got = Unread
    BY <1>2, <2>1, Loading
  <2>3. PageTyped'
    BY <1>2, <1>3, <1>5, <2>2, BlankIsTyped, InvHasParts DEF PageTyped
  <2>4. UploadTyped'
    BY <1>2, <2>2, UploadStays DEF UploadTyped
  <2>5. GridFollows'
    BY <2>2 DEF GridFollows
  <2>6. UploadIsStored' /\ SuccessMeansStored'
    BY <1>2, UploadStays
  <2> QED  BY <1>4, <2>2, <2>3, <2>4, <2>5, <2>6
           DEF PageTyped, UploadTyped, Inv, TypeOK, SpinnersHaveRequests
<1>7. CASE ~(page # None /\ Loaded(details') /\ ~GridShown)
  <2>1. UNCHANGED <<grid, loads>>
    BY <1>2, <1>7
  <2>2. PageTyped'
    BY <1>2, <1>3, <2>1, InvHasParts DEF PageTyped
  <2>3. UploadTyped'
    BY <1>2, <2>1, UploadStays, InvHasParts DEF UploadTyped
  <2>4. GridFollows'
    <3> SUFFICES ASSUME GridShown'  PROVE GridFollows'
      BY DEF GridFollows
    <3>1. GridShown
      BY <1>2, <1>7 DEF GridShown
    <3>2. ASSUME NEW ids, NEW g, Covers(ids, g)
          PROVE  \A t \in told' : t.of = g /\ stored'[t.photo].listed =>
                    t.photo \in ids \/ Cardinality(Newer(t.photo)') >= PageSize
      BY <1>2, <3>2, UploadStays
    <3>3. CASE \E n \in 1 .. Len(loads) :
                  /\ IsLatest(loads, n) /\ loads[n].of = page
                  /\ loads[n].got = Unread \/ Covers(loads[n].got, page)
      <4>1. PICK n \in 1 .. Len(loads) :
                  /\ IsLatest(loads, n) /\ loads[n].of = page
                  /\ loads[n].got = Unread \/ Covers(loads[n].got, page)
        BY <3>3
      <4>2. loads'[n].got = Unread \/ Covers(loads[n].got, page)'
        BY <1>2, <2>1, <3>2, <4>1 DEF Covers
      <4>3. IsLatest(loads', n) /\ n \in 1 .. Len(loads') /\ loads'[n].of = page'
        BY <1>2, <2>1, <4>1
      <4> QED  BY <4>2, <4>3 DEF GridFollows
    <3>4. CASE /\ AllLate(loads)
               /\ ~grid.loading /\ ~grid.error /\ ~grid.late =>
                     grid.of = page /\ Covers(grid.ids, page)
      BY <1>2, <2>1, <3>2, <3>4 DEF GridFollows, Covers
    <3> QED  BY <3>1, <3>3, <3>4 DEF Inv, GridFollows
  <2>5. UploadIsStored' /\ SuccessMeansStored'
    BY <1>2, UploadStays
  <2>6. ReadIsStored'
    BY <1>2, <2>1 DEF Inv, ReadIsStored
  <2> QED  BY <1>4, <2>2, <2>3, <2>4, <2>5, <2>6
           DEF PageTyped, UploadTyped, Inv, TypeOK, SpinnersHaveRequests
<1> QED  BY <1>6, <1>7

LEMMA ReadUploadsKeeps ==
    ASSUME Inv, NEW i \in 1 .. Len(loads), ReadUploads(i)
    PROVE  Inv'
<1> DEFINE ids == FirstPage(loads[i].of)
<1>1. /\ loads \in Seq(Load) /\ Len(loads) \in Nat /\ Len(loads) <= MaxLoads
      /\ \A j \in 1 .. Len(loads) : loads[j] \in Load
      /\ stored \in Seq([of : Galleries, whole : BOOLEAN, listed : BOOLEAN])
      /\ Len(stored) \in Nat /\ Len(stored) <= MaxStored /\ MaxStored \in Nat
  BY LenProperties, ElementOfSeq, BoundsAssumption DEF Inv, TypeOK, ReadIsStored
<1>2. /\ UNCHANGED <<uploading, upload, stored, told>>
      /\ UNCHANGED <<page, details, grid, asking>>
      /\ loads' = [loads EXCEPT ![i].got = ids]
  BY DEF ReadUploads
<1>3. ids \subseteq 1 .. Len(stored)
  BY DEF FirstPage, Listed
<1>4. ids \in SUBSET (0 .. MaxStored)
  BY <1>1, <1>3
<1>5. Covers(ids, loads[i].of)
  BY PageIsCurrent DEF Inv
<1> HIDE DEF ids
<1>6. [loads[i] EXCEPT !.got = ids] \in Load
  BY <1>1, <1>4 DEF Load
<1>7. loads' \in Seq(Load) /\ Len(loads') = Len(loads)
  <2>1. loads' = [loads EXCEPT ![i] = [loads[i] EXCEPT !.got = ids]]
    BY <1>2
  <2> QED  BY <1>1, <1>6, <2>1, ExceptSeq
<1>8. ASSUME NEW j \in 1 .. Len(loads)
      PROVE  /\ loads'[j].late = loads[j].late /\ loads'[j].of = loads[j].of
             /\ loads'[j].got = IF j = i THEN ids ELSE loads[j].got
  <2>1. DOMAIN loads = 1 .. Len(loads)
    BY <1>1, LenProperties
  <2>2. CASE j = i
    <3>1. loads'[j] = [loads[j] EXCEPT !.got = ids]
      BY <1>2, <2>1, <2>2
    <3> QED  BY <1>1, <2>2, <3>1 DEF Load
  <2>3. CASE j # i
    BY <1>2, <2>1, <2>3
  <2> QED  BY <2>2, <2>3
<1>9. PageTyped'
  BY <1>1, <1>2, <1>7, InvHasParts DEF PageTyped
<1>10. UploadTyped'
  <2>1. grid.loading => loads # <<>> /\ loads' # <<>>
    BY <1>1, <1>7, InvHasParts DEF UploadTyped
  <2> QED  BY <1>2, <2>1, UploadStays, InvHasParts DEF UploadTyped
<1>11. ReadIsStored'
  BY <1>2, <1>3, <1>7, <1>8 DEF Inv, ReadIsStored
<1>12. UploadIsStored' /\ SuccessMeansStored'
  BY <1>2, UploadStays
<1>13. DetailsFollow'
  BY <1>2 DEF Inv, DetailsFollow, Loaded
<1>14. GridFollows'
  <2> SUFFICES ASSUME GridShown'  PROVE GridFollows'
    BY DEF GridFollows
  <2>1. GridShown
    BY <1>2 DEF GridShown, Loaded
  <2>2. ASSUME NEW these, NEW g, Covers(these, g)
        PROVE  \A t \in told' : t.of = g /\ stored'[t.photo].listed =>
                  t.photo \in these \/ Cardinality(Newer(t.photo)') >= PageSize
    BY <1>2, <2>2, UploadStays
  <2>3. CASE \E n \in 1 .. Len(loads) :
                /\ IsLatest(loads, n) /\ loads[n].of = page
                /\ loads[n].got = Unread \/ Covers(loads[n].got, page)
    <3>1. PICK n \in 1 .. Len(loads) :
                /\ IsLatest(loads, n) /\ loads[n].of = page
                /\ loads[n].got = Unread \/ Covers(loads[n].got, page)
      BY <2>3
    <3>2. loads'[n].got = Unread \/ Covers(loads'[n].got, page)
      BY <1>5, <1>8, <3>1
    <3>3. loads'[n].got = Unread \/ Covers(loads[n].got, page)'
      BY <1>2, <2>2, <3>2 DEF Covers
    <3>4. n \in 1 .. Len(loads') /\ loads'[n].of = page'
      BY <1>2, <1>7, <1>8, <3>1
    <3>5. IsLatest(loads', n)
      <4>1. \A j \in n + 1 .. Len(loads) : j \in 1 .. Len(loads)
        BY <1>1, <3>1
      <4> QED  BY <1>7, <1>8, <3>1, <4>1 DEF IsLatest
    <3> QED  BY <3>3, <3>4, <3>5 DEF GridFollows
  <2>4. CASE /\ AllLate(loads)
             /\ ~grid.loading /\ ~grid.error /\ ~grid.late =>
                   grid.of = page /\ Covers(grid.ids, page)
    <3>1. AllLate(loads')
      BY <1>7, <1>8, <2>4 DEF AllLate
    <3> QED  BY <1>2, <2>2, <2>4, <3>1 DEF GridFollows, Covers
  <2> QED  BY <2>1, <2>3, <2>4 DEF Inv, GridFollows
<1> QED  BY <1>9, <1>10, <1>11, <1>12, <1>13, <1>14
         DEF PageTyped, UploadTyped, Inv, TypeOK, SpinnersHaveRequests

\* What an answer leaves of the listings is theirs still.
LEMMA GotsStay ==
    ASSUME Inv, NEW i \in 1 .. Len(loads), loads' = Answered(loads, i)
    PROVE  /\ loads' \in Seq(Load) /\ Len(loads') <= MaxLoads
           /\ \A j \in 1 .. Len(loads') : \E k \in 1 .. Len(loads) : loads'[j].got = loads[k].got
<1>1. /\ loads \in Seq(Load) /\ Len(loads) \in Nat /\ Len(loads) <= MaxLoads /\ MaxLoads \in Nat
      /\ \A j \in 1 .. Len(loads) : loads[j] \in Load
  BY LenProperties, ElementOfSeq, BoundsAssumption DEF Inv, TypeOK
<1>2. loads' \in Seq(Load)
  BY <1>1, AnsweredType, LateLoad
<1>3. /\ Len(loads') = Len(loads) - 1
      /\ \A j \in 1 .. Len(loads) - 1 :
            /\ j < i => loads'[j] = [loads[j] EXCEPT !.late = TRUE]
            /\ j >= i => loads'[j] = loads[j + 1]
  BY <1>1, AnsweredIs
<1>4. ASSUME NEW j \in 1 .. Len(loads')
      PROVE  \E k \in 1 .. Len(loads) : loads'[j].got = loads[k].got
  <2>1. /\ j \in 1 .. Len(loads) - 1 /\ j \in 1 .. Len(loads) /\ j + 1 \in 1 .. Len(loads)
        /\ j < i \/ j >= i
    BY <1>1, <1>3
  <2>2. CASE j < i
    <3>1. loads'[j] = [loads[j] EXCEPT !.late = TRUE]
      BY <1>3, <2>1, <2>2
    <3>2. [loads[j] EXCEPT !.late = TRUE].got = loads[j].got
      BY <1>1, <2>1, LateLoad
    <3> QED  BY <2>1, <3>1, <3>2
  <2>3. CASE j >= i
    BY <1>3, <2>1, <2>3
  <2> QED  BY <2>1, <2>2, <2>3
<1> QED  BY <1>1, <1>2, <1>3, <1>4

LEMMA PhotosAnsweredKeeps ==
    ASSUME Inv, NEW i \in 1 .. Len(loads), PhotosArrive(i) \/ PhotosFail(i)
    PROVE  Inv'
<1>1. loads \in Seq(Load) /\ Len(loads) \in Nat /\ loads[i] \in Load
  BY LenProperties, ElementOfSeq DEF Inv, TypeOK
<1>2. /\ UNCHANGED <<uploading, upload, stored, told>>
      /\ UNCHANGED <<page, details, asking>>
      /\ loads' = Answered(loads, i)
  BY DEF PhotosArrive, PhotosFail
<1>3. /\ grid' \in [of : Galleries \cup {None}, ids : SUBSET (1 .. Len(stored)),
                    loading : BOOLEAN, error : BOOLEAN, late : BOOLEAN]
      /\ ~grid'.loading
      /\ ~grid'.error =>
            /\ grid'.of = loads[i].of /\ grid'.ids = loads[i].got
            /\ grid'.late = loads[i].late /\ loads[i].got # Unread
  <2>1. CASE PhotosArrive(i)
    <3>1. loads[i].got \in SUBSET (1 .. Len(stored)) /\ loads[i].got # Unread
      BY <2>1 DEF PhotosArrive, Inv, ReadIsStored
    <3> QED  BY <1>1, <2>1, <3>1 DEF PhotosArrive, Load
  <2>2. CASE PhotosFail(i)
    <3>1. grid' = Blank(FALSE, TRUE)
      BY <2>2 DEF PhotosFail
    <3> QED  BY <3>1, BlankIsTyped
  <2> QED  BY <2>1, <2>2
<1>4. PageTyped'
  BY <1>2, <1>3, GotsStay, InvHasParts DEF PageTyped
<1>5. UploadTyped'
  BY <1>2, <1>3, UploadStays, InvHasParts DEF UploadTyped
<1>6. ReadIsStored'
  BY <1>2, GotsStay DEF Inv, ReadIsStored
<1>7. UploadIsStored' /\ SuccessMeansStored'
  BY <1>2, UploadStays
<1>8. DetailsFollow'
  BY <1>2 DEF Inv, DetailsFollow, Loaded
<1>9. GridFollows'
  <2> SUFFICES ASSUME GridShown'  PROVE GridFollows'
    BY DEF GridFollows
  <2>1. GridShown
    BY <1>2 DEF GridShown, Loaded
  <2>2. ASSUME NEW these, NEW g, Covers(these, g)
        PROVE  \A t \in told' : t.of = g /\ stored'[t.photo].listed =>
                  t.photo \in these \/ Cardinality(Newer(t.photo)') >= PageSize
    BY <1>2, <2>2, UploadStays
  <2>3. CASE \E n \in 1 .. Len(loads) :
                /\ IsLatest(loads, n) /\ loads[n].of = page
                /\ loads[n].got = Unread \/ Covers(loads[n].got, page)
    <3>1. PICK n \in 1 .. Len(loads) :
                /\ IsLatest(loads, n) /\ loads[n].of = page
                /\ loads[n].got = Unread \/ Covers(loads[n].got, page)
      BY <2>3
    <3>2. n \in Nat /\ n - 1 \in Nat /\ (i < n \/ i = n \/ i > n)
      BY <1>1
    <3>3. /\ i < n => IsLatest(loads', n - 1) /\ loads'[n - 1] = loads[n]
          /\ i >= n => AllLate(loads')
          /\ i > n => loads[i].late
      <4>1. \A r \in Load :
               [r EXCEPT !.late = TRUE] \in Load /\ [r EXCEPT !.late = TRUE].late
        BY LateLoad
      <4>2. IsLatest(loads, n) /\ loads \in Seq(Load) /\ n \in Nat
        BY <1>1, <3>1, <3>2
      <4>3. /\ i < n => IsLatest(Answered(loads, i), n - 1) /\ Answered(loads, i)[n - 1] = loads[n]
            /\ i >= n => AllLate(Answered(loads, i))
            /\ i > n => loads[i].late
        BY <4>1, <4>2, LatestAnswered
      <4> QED  BY <1>2, <4>3
    <3>4. CASE i < n
      <4>1. IsLatest(loads', n - 1) /\ loads'[n - 1].of = page'
        BY <1>2, <3>1, <3>3, <3>4
      <4>2. n - 1 \in 1 .. Len(loads')
        BY <4>1 DEF IsLatest
      <4>3. loads'[n - 1].got = Unread \/ Covers(loads'[n - 1].got, page)
        BY <3>1, <3>3, <3>4
      <4>4. loads'[n - 1].got = Unread \/ Covers(loads[n - 1].got, page)'
        BY <1>2, <2>2, <4>3 DEF Covers
      <4> QED  BY <4>1, <4>2, <4>4 DEF GridFollows
    <3>5. CASE i = n
      <4>1. AllLate(loads') /\ loads[i].of = page'
        BY <1>2, <3>1, <3>2, <3>3, <3>5
      <4>2. ~grid'.error => grid'.of = page' /\ Covers(grid'.ids, page)
        BY <1>2, <1>3, <3>1, <3>5
      <4>3. ~grid'.error => Covers(grid.ids, page)'
        BY <1>2, <2>2, <4>2 DEF Covers
      <4> QED  BY <4>1, <4>2, <4>3 DEF GridFollows
    <3>6. CASE i > n
      <4>1. AllLate(loads') /\ loads[i].late
        BY <3>2, <3>3, <3>6
      <4> QED  BY <1>3, <4>1 DEF GridFollows
    <3> QED  BY <3>2, <3>4, <3>5, <3>6
  <2>4. CASE AllLate(loads)
    <3>1. AllLate(loads') /\ loads[i].late
      <4>1. \A r \in Load :
               [r EXCEPT !.late = TRUE] \in Load /\ [r EXCEPT !.late = TRUE].late
        BY LateLoad
      <4> QED  BY <1>1, <1>2, <2>4, <4>1, LateAnswered
    <3> QED  BY <1>3, <3>1 DEF GridFollows
  <2> QED  BY <2>1, <2>3, <2>4 DEF Inv, GridFollows
<1> QED  BY <1>4, <1>5, <1>6, <1>7, <1>8, <1>9
         DEF PageTyped, UploadTyped, Inv, TypeOK, SpinnersHaveRequests

\* The success is shown, and the photos are asked for anew.
LEMMA SucceedsKeeps ==
    ASSUME Inv, Succeeds
    PROVE  Inv'
<1>1. /\ upload # Idle /\ upload.outcome = "stored" /\ LoadUploads(upload.of)
      /\ uploading' = FALSE /\ upload' = Idle
      /\ told' = told \cup {[photo |-> upload.photo, of |-> upload.of]}
      /\ UNCHANGED <<page, details, asking, stored>>
  BY DEF Succeeds, Reported
<1>2. upload.of \in Galleries
  <2>1. upload \in Upload
    BY <1>1, NotIdle, InvHasParts DEF UploadTyped
  <2> QED  BY <2>1 DEF Upload
<1>3. /\ upload.photo \in 1 .. Len(stored)
      /\ stored[upload.photo].whole /\ stored[upload.photo].of = upload.of
  BY <1>1 DEF Inv, UploadIsStored
<1>4. SuccessMeansStored'
  <2>1. \A t \in told' : t \in told \/ t = [photo |-> upload.photo, of |-> upload.of]
    BY <1>1
  <2>2. /\ [photo |-> upload.photo, of |-> upload.of].photo = upload.photo
        /\ [photo |-> upload.photo, of |-> upload.of].of = upload.of
    OBVIOUS
  <2> QED  BY <1>1, <1>3, <2>1, <2>2 DEF Inv, SuccessMeansStored
<1>5. /\ loads' \in Seq(Load) /\ Len(loads') <= MaxLoads /\ loads' # <<>>
      /\ grid' = Blank(TRUE, FALSE)
      /\ ReadIsStored'
      /\ upload.of = page' => \E n \in 1 .. Len(loads') :
            IsLatest(loads', n) /\ loads'[n].of = page' /\ loads'[n].got = Unread
  BY <1>1, <1>2, Loading
<1>6. upload.of # page' =>
         /\ AllLate(loads) => AllLate(loads')
         /\ \A n \in 1 .. Len(loads) : IsLatest(loads, n) =>
               n \in 1 .. Len(loads') /\ IsLatest(loads', n) /\ loads'[n] = loads[n]
  BY <1>1, <1>2, Loading
<1>7. PageTyped'
  BY <1>1, <1>5, BlankIsTyped, InvHasParts DEF PageTyped
<1>8. UploadTyped'
  BY <1>1, <1>5, InvHasParts DEF UploadTyped
<1>9. UploadIsStored'
  BY <1>1 DEF UploadIsStored
<1>10. DetailsFollow'
  BY <1>1 DEF Inv, DetailsFollow, Loaded
<1>11. GridFollows'
  <2> SUFFICES ASSUME GridShown'  PROVE GridFollows'
    BY DEF GridFollows
  <2>1. GridShown
    BY <1>1 DEF GridShown, Loaded
  <2>2. CASE upload.of = page'
    BY <1>5, <2>2 DEF GridFollows
  <2>3. CASE upload.of # page'
    <3>1. ASSUME NEW ids, Covers(ids, page)
          PROVE  \A t \in told' : t.of = page' /\ stored'[t.photo].listed =>
                    t.photo \in ids \/ Cardinality(Newer(t.photo)') >= PageSize
      <4>1. ASSUME NEW p  PROVE Newer(p)' = Newer(p)
        BY <1>1 DEF Newer, Listed
      <4>2. \A t \in told' : t.of = page' => t \in told /\ t.of = page
        BY <1>1, <2>3
      <4>3. UNCHANGED stored
        BY <1>1
      <4> QED  BY <3>1, <4>1, <4>2, <4>3 DEF Covers
    <3>2. CASE \E n \in 1 .. Len(loads) :
                  /\ IsLatest(loads, n) /\ loads[n].of = page
                  /\ loads[n].got = Unread \/ Covers(loads[n].got, page)
      <4>1. PICK n \in 1 .. Len(loads) :
                  /\ IsLatest(loads, n) /\ loads[n].of = page
                  /\ loads[n].got = Unread \/ Covers(loads[n].got, page)
        BY <3>2
      <4>2. n \in 1 .. Len(loads') /\ IsLatest(loads', n) /\ loads'[n] = loads[n]
        BY <1>6, <2>3, <4>1
      <4>3. loads'[n].got = Unread \/ Covers(loads'[n].got, page)
        BY <4>1, <4>2
      <4>4. loads'[n].got = Unread \/ Covers(loads[n].got, page)'
        BY <3>1, <4>3 DEF Covers
      <4> QED  BY <1>1, <4>1, <4>2, <4>4 DEF GridFollows
    <3>3. CASE AllLate(loads)
      <4>1. AllLate(loads') /\ grid'.loading
        BY <1>5, <1>6, <2>3, <3>3, BlankIsTyped
      <4> QED  BY <4>1 DEF GridFollows
    <3> QED  BY <2>1, <3>2, <3>3 DEF Inv, GridFollows
  <2> QED  BY <2>2, <2>3
<1> QED  BY <1>4, <1>5, <1>7, <1>8, <1>9, <1>10, <1>11
         DEF PageTyped, UploadTyped, Inv, TypeOK, SpinnersHaveRequests

-----------------------------------------------------------------------------
(* The theorems.                                                           *)

\* The page starts with nothing asked for, and every step, of the user, of the tab,
\* of the service and of others, keeps the invariant.
THEOREM Invariant == Spec => []Inv
<1>1. Init => Inv
  <2> SUFFICES ASSUME Init  PROVE Inv
    OBVIOUS
  <2>1. /\ asking = <<>> /\ loads = <<>> /\ stored = <<>> /\ told = {} /\ page = None
        /\ upload = Idle /\ uploading = FALSE /\ grid = Blank(FALSE, FALSE)
        /\ details = [of |-> None, loading |-> FALSE, error |-> FALSE, late |-> FALSE]
    BY DEF Init
  <2>2. /\ asking \in Seq(Asked) /\ loads \in Seq(Load)
        /\ stored \in Seq([of : Galleries, whole : BOOLEAN, listed : BOOLEAN])
        /\ Len(asking) = 0 /\ Len(loads) = 0 /\ Len(stored) = 0
    BY <2>1, EmptySeq
  <2>3. TypeOK
    <3>1. /\ page \in Galleries \cup {None}
          /\ details \in [of : Galleries \cup {None}, loading : BOOLEAN, error : BOOLEAN,
                          late : BOOLEAN]
      BY <2>1
    <3>2. grid \in [of : Galleries \cup {None}, ids : SUBSET (1 .. Len(stored)),
                    loading : BOOLEAN, error : BOOLEAN, late : BOOLEAN]
      BY <2>1, BlankIsTyped
    <3>3. Len(asking) <= MaxAsking /\ Len(loads) <= MaxLoads
      BY <2>2, BoundsAssumption
    <3> QED  BY <2>1, <2>2, <3>1, <3>2, <3>3 DEF TypeOK
  <2>4. ReadIsStored
    BY <2>2, BoundsAssumption DEF ReadIsStored
  <2>5. UploadIsStored /\ SuccessMeansStored /\ SpinnersHaveRequests
    BY <2>1, BlankIsTyped DEF UploadIsStored, SuccessMeansStored, SpinnersHaveRequests
  <2>6. DetailsFollow /\ GridFollows
    BY <2>1 DEF DetailsFollow, GridFollows, GridShown
  <2> QED  BY <2>3, <2>4, <2>5, <2>6 DEF Inv
<1>2. Inv /\ [Next]_vars => Inv'
  <2> SUFFICES ASSUME Inv, [Next]_vars  PROVE Inv'
    OBVIOUS
  <2>1. CASE Leave
    BY <2>1, LeaveKeeps
  <2>2. CASE \E g \in Galleries : Enter(g)
    BY <2>2, EnterKeeps
  <2>3. CASE \E i \in 1 .. Len(asking) : DetailsArrive(i) \/ DetailsFail(i)
    BY <2>3, DetailsAnsweredKeeps
  <2>4. CASE \E i \in 1 .. Len(loads) : ReadUploads(i)
    BY <2>4, ReadUploadsKeeps
  <2>5. CASE \E i \in 1 .. Len(loads) : PhotosArrive(i) \/ PhotosFail(i)
    BY <2>5, PhotosAnsweredKeeps
  <2>6. CASE \E size \in Sizes : UploadPhoto(size)
    BY <2>6, UploadPhotoKeeps
  <2>7. CASE SendAndRecv
    BY <2>7, SendAndRecvKeeps
  <2>8. CASE Finish
    BY <2>8, FinishKeeps
  <2>9. CASE Succeeds
    BY <2>9, SucceedsKeeps
  <2>10. CASE Refused \/ Breaks \/ \E g \in Galleries : OthersUpload(g)
    BY <2>10, UploadEndsKeeps
  <2>11. CASE UNCHANGED vars
    <3>1. /\ UNCHANGED <<page, details, grid, asking, loads>>
          /\ UNCHANGED <<uploading, upload, stored, told>>
      BY <2>11 DEF vars, tab
    <3>2. /\ PageTyped' /\ ReadIsStored' /\ SuccessMeansStored'
          /\ DetailsFollow' /\ GridFollows'
      BY <3>1, PageStays
    <3>3. UploadTyped'
      BY <3>1, InvHasParts DEF UploadTyped
    <3>4. UploadIsStored'
      BY <3>1, UploadStays
    <3> QED  BY <3>2, <3>3, <3>4
             DEF PageTyped, UploadTyped, Inv, TypeOK, SpinnersHaveRequests
  <2> QED  BY <2>1, <2>2, <2>3, <2>4, <2>5, <2>6, <2>7, <2>8, <2>9, <2>10, <2>11 DEF Next
<1> QED  BY <1>1, <1>2, PTL DEF Spec

\* The page, its stores, the requests and the upload are always of their types, within
\* the bounds.
THEOREM TypeCorrect == Spec => []TypeOK
<1>1. Inv => TypeOK
  BY DEF Inv
<1> QED  BY <1>1, Invariant, PTL

\* The form never reports a success for a photo that is not in the bucket, whole,
\* under the gallery it was meant for.
THEOREM SuccessIsStored == Spec => []SuccessMeansStored
<1>1. Inv => SuccessMeansStored
  BY DEF Inv
<1> QED  BY <1>1, Invariant, PTL

\* With no request for details under way, the page shows the details of its gallery,
\* unless an answer came late.
THEOREM DetailsFollowPage == Spec => []DetailsAreOfPage
<1>1. Inv => DetailsAreOfPage
  <2> SUFFICES ASSUME Inv, page # None, Loaded(details), asking = <<>>, ~details.late
               PROVE  details.of = page
    BY DEF DetailsAreOfPage
  <2>1. Len(asking) = 0
    BY EmptySeq
  <2>2. ~ \E n \in 1 .. Len(asking) : IsLatest(asking, n)
    BY <2>1
  <2> QED  BY <2>2 DEF Inv, DetailsFollow
<1> QED  BY <1>1, Invariant, PTL

\* With no request for photos under way, the grid shows the photos of its gallery, and
\* among them those reported as uploaded whose record has been saved.
THEOREM GridFollowsUploads == Spec => []GridIsCurrent
<1>1. Inv => GridIsCurrent
  <2> SUFFICES ASSUME Inv, GridShown, loads = <<>>, ~grid.error, ~grid.late
               PROVE  grid.of = page /\ Covers(grid.ids, page)
    BY DEF GridIsCurrent, Covers
  <2>1. Len(loads) = 0
    BY EmptySeq
  <2>2. ~ \E n \in 1 .. Len(loads) : IsLatest(loads, n)
    BY <2>1
  <2>3. ~grid.loading
    BY DEF Inv, SpinnersHaveRequests
  <2> QED  BY <2>2, <2>3 DEF Inv, GridFollows
<1> QED  BY <1>1, Invariant, PTL

\* No spinner turns for ever on a request that has been answered.
THEOREM SpinnersStop == Spec => []SpinnersHaveRequests
<1>1. Inv => SpinnersHaveRequests
  BY DEF Inv
<1> QED  BY <1>1, Invariant, PTL
=============================================================================
