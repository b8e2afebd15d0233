------------------------ MODULE GalleryServiceProofs ------------------------
(***************************************************************************)
(* Proofs about GalleryService, for any users, galleries and number of     *)
(* concurrent requests, with every fault: memberships never outlive their  *)
(* gallery, and a gallery that is or has been closed never opens.          *)
(*                                                                         *)
(* A row becomes open in CreateGallery only.  The invariant therefore says *)
(* that a creation under way is the first thing that happens to its id:    *)
(* nothing that was read, announced or is about to be saved is about it.   *)
(***************************************************************************)
EXTENDS GalleryService, TLAPS

ClosedEvent(g) == [type |-> "GalleryClosed", gallery |-> g]

Announced(g) ==
    \/ ClosedEvent(g) \in published
    \/ \E r \in Requests : req[r].at = "publish" /\ req[r].event = ClosedEvent(g)

Creating(r, g) == Waiting(r, "write", "create") /\ req[r].gallery = g

Closing(r, g) == Waiting(r, "write", "close") /\ req[r].gallery = g

\* Something of gallery g has been written, announced, or read for a closing.
Known(g) == HasRow(g) \/ Announced(g) \/ \E r \in Requests : Closing(r, g)

\* CloseGallery saves a row it has read.
ClosesWhatItRead ==
    \A r \in Requests : Waiting(r, "write", "close") => req[r].seen \in Rows

\* An id that has not been drawn is the id of nothing.
FreshIds ==
    \A g \in Galleries : g \notin used =>
        ~Known(g) /\ \A r \in Requests : ~Creating(r, g)

\* An id that is being created is known to nobody else.
CreatedOnce ==
    \A g \in Galleries : \A r \in Requests : Creating(r, g) =>
        ~Known(g) /\ \A s \in Requests : Creating(s, g) => s = r

\* Creations and departures write without reading.
ReadersReadOnly ==
    \A r \in Requests : req[r].at = "read" => req[r].op \notin {"create", "leave"}

Inv ==
    /\ TypeOK
    /\ ReadersReadOnly
    /\ ClosesWhatItRead
    /\ FreshIds
    /\ CreatedOnce
    /\ MembersHaveGallery
    /\ AnnouncedNeverOpen
-----------------------------------------------------------------------------
(* Requests and rows.                                                      *)

\* What a slot may hold is told apart by its field at.
LEMMA SlotKinds ==
    ASSUME TypeOK, NEW r \in Requests
    PROVE  /\ req[r].at \in {"read", "write"} => req[r] \in Pending
           /\ req[r].at = "publish" => req[r] \in Publishing
           /\ req[r] = Idle => req[r].at = "idle"
  BY DEF TypeOK, Idle, Pending, Publishing

\* A step of one request leaves the others alone.
LEMMA OtherSlots ==
    ASSUME TypeOK, NEW r \in Requests, NEW x, req' = [req EXCEPT ![r] = x]
    PROVE  req'[r] = x /\ \A s \in Requests \ {r} : req'[s] = req[s]
  BY DEF TypeOK

\* Closing a row that was read gives a row, and a closed one.
LEMMA ClosedRow ==
    ASSUME NEW seen \in Rows
    PROVE  LET closed == [seen EXCEPT !.status = "CLOSED"]
           IN  closed \in Rows /\ closed.status = "CLOSED" /\ closed # NoRow
  BY NoRowAssumption DEF Rows

-----------------------------------------------------------------------------
(* Types.                                                                  *)

LEMMA InitTypes == Init => TypeOK
  BY DEF Init, TypeOK

LEMMA NextTypes == TypeOK /\ ClosesWhatItRead /\ [Next]_vars => TypeOK'
<1> SUFFICES ASSUME TypeOK, ClosesWhatItRead, [Next]_vars
             PROVE  TypeOK'
  OBVIOUS
<1> USE DEF TypeOK, Finish
<1>1. ASSUME NEW r \in Requests, NEW op \in Ops, NEW u \in Users, NEW g \in Galleries,
             Begin(r, op, u, g)
      PROVE  TypeOK'
  BY <1>1 DEF Begin, Pending
<1>2. ASSUME NEW r \in Requests, Read(r)
      PROVE  TypeOK'
  <2>1. req[r] \in Pending
    BY <1>2, SlotKinds DEF Read
  <2>2. CASE req' = [req EXCEPT ![r] = Idle]
    BY <1>2, <2>2 DEF Read
  <2>3. CASE Announce(r, "ModeratorAlert", req[r].gallery)
    BY <1>2, <2>1, <2>3 DEF Read, Announce, Publishing, Events, Pending
  <2>4. CASE req' = [req EXCEPT ![r].at = "write", ![r].seen = row[req[r].gallery]]
    <3>1. row[req[r].gallery] \in Rows \cup {NoRow}
      BY <2>1 DEF Pending
    <3>2. [req[r] EXCEPT !.at = "write", !.seen = row[req[r].gallery]] \in Pending
      BY <2>1, <3>1 DEF Pending
    <3> QED
      BY <1>2, <2>4, <3>2 DEF Read
  <2> QED
    BY <1>2, <2>2, <2>3, <2>4 DEF Read
<1>3. ASSUME NEW r \in Requests, CreateGallery(r)
      PROVE  TypeOK'
  <2>1. req[r] \in Pending
    BY <1>3, SlotKinds DEF CreateGallery, Waiting
  <2> QED
    BY <1>3, <2>1 DEF CreateGallery, Pending, Rows
<1>4. ASSUME NEW r \in Requests, DeleteGallery(r)
      PROVE  TypeOK'
  BY <1>4 DEF DeleteGallery
<1>5. ASSUME NEW r \in Requests, CloseGallery(r)
      PROVE  TypeOK'
  <2>1. req[r] \in Pending /\ req[r].seen \in Rows
    BY <1>5, SlotKinds DEF CloseGallery, Waiting, ClosesWhatItRead
  <2>2. [req[r].seen EXCEPT !.status = "CLOSED"] \in Rows
    BY <2>1, ClosedRow
  <2> QED
    BY <1>5, <2>1, <2>2 DEF CloseGallery, Announce, Publishing, Events, Pending
<1>6. ASSUME NEW r \in Requests, JoinGallery(r)
      PROVE  TypeOK'
  <2>1. req[r] \in Pending
    BY <1>6, SlotKinds DEF JoinGallery, Waiting
  <2> QED
    BY <1>6, <2>1 DEF JoinGallery, Pending
<1>7. ASSUME NEW r \in Requests, LeaveGallery(r)
      PROVE  TypeOK'
  BY <1>7 DEF LeaveGallery
<1>8. ASSUME NEW r \in Requests, Publish(r)
      PROVE  TypeOK'
  <2>1. req[r] \in Publishing
    BY <1>8, SlotKinds DEF Publish
  <2> QED
    BY <1>8, <2>1 DEF Publish, Publishing
<1>9. ASSUME NEW r \in Requests, SqlError(r)
      PROVE  TypeOK'
  BY <1>9 DEF SqlError
<1>10. CASE Start \/ DropChannel \/ Crash
  BY <1>10 DEF Start, NewDB, NewRabbitMQPublisher, DropChannel, Crash
<1>11. CASE UNCHANGED vars
  BY <1>11 DEF vars
<1> QED
  BY <1>1, <1>2, <1>3, <1>4, <1>5, <1>6, <1>7, <1>8, <1>9, <1>10, <1>11
  DEF Next, Step

-----------------------------------------------------------------------------
(* The invariant.                                                          *)

\* What the slots say, slot by slot.
LEMMA SlotsDecide ==
    ASSUME NEW g, \A s \in Requests : req'[s] = req[s] \/ req'[s].at = "idle"
    PROVE  /\ \A s \in Requests : Creating(s, g)' => Creating(s, g)
           /\ \A s \in Requests : Closing(s, g)' => Closing(s, g)
           /\ published' = published => (Announced(g)' => Announced(g))
  BY DEF Creating, Closing, Announced, Waiting

\* A step that starts neither a creation, a closing nor a publication and draws no
\* id, nor makes or opens a row, keeps what is said of ids and announcements.
LEMMA QuietStep ==
    ASSUME Inv,
           \A s \in Requests : req'[s] = req[s] \/ req'[s].at = "idle",
           used' = used, published' = published,
           \A g \in Galleries : row'[g] \in {row[g], NoRow}
    PROVE  (ReadersReadOnly /\ ClosesWhatItRead /\ FreshIds /\ CreatedOnce /\ AnnouncedNeverOpen)'
<1>1. ReadersReadOnly' /\ ClosesWhatItRead'
  BY DEF Inv, ReadersReadOnly, ClosesWhatItRead, Waiting
<1>2. ASSUME NEW g \in Galleries
      PROVE  /\ Known(g)' => Known(g)
             /\ IsOpen(g)' => IsOpen(g)
             /\ Announced(g)' => Announced(g)
             /\ \A s \in Requests : Creating(s, g)' => Creating(s, g)
  <2>1. HasRow(g)' => HasRow(g)
    BY DEF HasRow
  <2>2. IsOpen(g)' => IsOpen(g)
    BY DEF IsOpen, HasRow
  <2> QED
    BY <2>1, <2>2, SlotsDecide DEF Known
<1>3. FreshIds'
  BY <1>2 DEF Inv, FreshIds
<1>4. CreatedOnce'
  BY <1>2 DEF Inv, CreatedOnce
<1>5. AnnouncedNeverOpen'
  BY <1>2 DEF Inv, AnnouncedNeverOpen, Announced, ClosedEvent
<1> QED
  BY <1>1, <1>3, <1>4, <1>5

LEMMA InitInv == Init => Inv
<1> SUFFICES ASSUME Init
             PROVE  Inv
  OBVIOUS
<1>1. \A r \in Requests : req[r].at = "idle"
  BY DEF Init, Idle
<1>2. \A g \in Galleries : ~Known(g) /\ \A r \in Requests : ~Creating(r, g)
  BY <1>1 DEF Init, Known, HasRow, Announced, Closing, Creating, Waiting
<1>3. ReadersReadOnly /\ ClosesWhatItRead
  BY <1>1 DEF ReadersReadOnly, ClosesWhatItRead, Waiting
<1>4. FreshIds /\ CreatedOnce
  BY <1>2 DEF FreshIds, CreatedOnce
<1>5. MembersHaveGallery /\ AnnouncedNeverOpen
  BY DEF Init, MembersHaveGallery, AnnouncedNeverOpen, IsOpen, HasRow
<1> QED
  BY <1>3, <1>4, <1>5, InitTypes DEF Inv

LEMMA NextInv == Inv /\ [Next]_vars => Inv'
<1> SUFFICES ASSUME Inv, [Next]_vars
             PROVE  Inv'
  OBVIOUS
<1> USE DEF Finish
<1>0. TypeOK /\ TypeOK'
  BY NextTypes DEF Inv
<1>1. ASSUME NEW r \in Requests, NEW op \in Ops, NEW u \in Users, NEW g \in Galleries,
             Begin(r, op, u, g)
      PROVE  Inv'
  <2>1. /\ UNCHANGED <<row, members, published>>
        /\ req[r] = Idle
        /\ \A s \in Requests \ {r} : req'[s] = req[s]
        /\ req'[r].op = op /\ req'[r].gallery = g
        /\ req'[r].at \in {"read", "write"}
        /\ req'[r].at = "write" <=> op \in {"create", "leave"}
    BY <1>0, <1>1 DEF Begin, TypeOK
  <2>2. \A h \in Galleries :
           /\ Known(h)' => Known(h)
           /\ \A s \in Requests \ {r} : Creating(s, h)' => Creating(s, h)
           /\ Creating(r, h)' => op = "create" /\ h = g
    BY <2>1 DEF Known, HasRow, Announced, Closing, Creating, Waiting
  <2>3. ReadersReadOnly' /\ ClosesWhatItRead'
    BY <2>1 DEF Inv, ReadersReadOnly, ClosesWhatItRead, Waiting
  <2>4. MembersHaveGallery'
    BY <2>1 DEF Inv, MembersHaveGallery, HasRow
  <2>5. AnnouncedNeverOpen'
    BY <2>1 DEF Inv, AnnouncedNeverOpen, IsOpen, HasRow
  <2>6. used' = IF op = "create" THEN used \cup {g} ELSE used
    BY <1>1 DEF Begin
  <2>7. FreshIds'
    BY <2>2, <2>6 DEF Inv, FreshIds
  <2>8. op = "create" => ~Known(g) /\ \A s \in Requests : ~Creating(s, g)
    BY <1>1 DEF Begin, Inv, FreshIds
  <2>9. CreatedOnce'
    BY <2>2, <2>8 DEF Inv, CreatedOnce
  <2> QED
    BY <1>0, <2>3, <2>4, <2>5, <2>7, <2>9 DEF Inv
<1>2. ASSUME NEW r \in Requests, Read(r)
      PROVE  Inv'
  <2> DEFINE g == req[r].gallery
  <2>1. /\ UNCHANGED <<row, members, used, published>>
        /\ req[r] \in Pending /\ g \in Galleries
        /\ \A s \in Requests \ {r} : req'[s] = req[s]
    BY <1>0, <1>2, SlotKinds DEF Read, Announce, TypeOK, Pending
  <2>2. MembersHaveGallery'
    BY <2>1 DEF Inv, MembersHaveGallery, HasRow
  <2>3. CASE req' = [req EXCEPT ![r] = Idle]
    <3>1. req'[r].at = "idle"
      BY <1>0, <2>3 DEF TypeOK, Idle
    <3> QED
      BY <1>0, <2>1, <2>2, <3>1, QuietStep DEF Inv
  <2>4. CASE Announce(r, "ModeratorAlert", g)
    <3>1. req'[r].at = "publish" /\ \A h : req'[r].event # ClosedEvent(h)
      BY <1>0, <2>4 DEF Announce, TypeOK, ClosedEvent
    <3>2. \A h \in Galleries :
             /\ Known(h)' => Known(h)
             /\ Announced(h)' => Announced(h)
             /\ \A s \in Requests : Creating(s, h)' => Creating(s, h)
      BY <2>1, <3>1 DEF Known, HasRow, Announced, Closing, Creating, Waiting
    <3>3. ReadersReadOnly' /\ ClosesWhatItRead'
      BY <2>1, <3>1 DEF Inv, ReadersReadOnly, ClosesWhatItRead, Waiting
    <3>4. FreshIds' /\ CreatedOnce'
      BY <2>1, <3>2 DEF Inv, FreshIds, CreatedOnce
    <3>5. AnnouncedNeverOpen'
      BY <2>1, <3>2 DEF Inv, AnnouncedNeverOpen, Announced, ClosedEvent, IsOpen, HasRow
    <3> QED
      BY <1>0, <2>2, <3>3, <3>4, <3>5 DEF Inv
  <2>5. CASE /\ row[g] # NoRow
             /\ req' = [req EXCEPT ![r].at = "write", ![r].seen = row[g]]
    <3>1. req'[r].at = "write" /\ req'[r].seen = row[g] /\ req'[r].gallery = g
      BY <1>0, <2>1, <2>5 DEF TypeOK, Pending
    <3>2. req'[r].op # "create"
      <4>1. req'[r].op = req[r].op
        BY <1>0, <2>1, <2>5 DEF TypeOK, Pending
      <4> QED
        BY <1>2, <4>1 DEF Read, Inv, ReadersReadOnly
    <3>3. row[g] \in Rows
      BY <1>0, <2>1, <2>5 DEF TypeOK
    <3>4. \A h \in Galleries :
             /\ Known(h)' => Known(h)
             /\ Announced(h)' => Announced(h)
             /\ \A s \in Requests : Creating(s, h)' => Creating(s, h)
      BY <2>1, <2>5, <3>1, <3>2 DEF Known, HasRow, Announced, Closing, Creating, Waiting
    <3>5. ReadersReadOnly' /\ ClosesWhatItRead'
      BY <2>1, <3>1, <3>3 DEF Inv, ReadersReadOnly, ClosesWhatItRead, Waiting
    <3>6. FreshIds' /\ CreatedOnce'
      BY <2>1, <3>4 DEF Inv, FreshIds, CreatedOnce
    <3>7. AnnouncedNeverOpen'
      BY <2>1, <3>4 DEF Inv, AnnouncedNeverOpen, Announced, ClosedEvent, IsOpen, HasRow
    <3> QED
      BY <1>0, <2>2, <3>5, <3>6, <3>7 DEF Inv
  <2> QED
    BY <1>2, <2>3, <2>4, <2>5 DEF Read
<1>3. ASSUME NEW r \in Requests, CreateGallery(r)
      PROVE  Inv'
  <2> DEFINE g == req[r].gallery
  <2>1. /\ UNCHANGED <<members, used, published>>
        /\ g \in Galleries /\ g \in used
        /\ Creating(r, g)
        /\ req'[r].at = "idle"
        /\ \A s \in Requests \ {r} : req'[s] = req[s]
        /\ \A h \in Galleries \ {g} : row'[h] = row[h]
        /\ row'[g] # NoRow
    <3>1. req[r] \in Pending /\ Creating(r, g)
      BY <1>0, <1>3, SlotKinds DEF CreateGallery, Creating, Waiting
    <3>2. g \in Galleries /\ g \in used
      BY <3>1 DEF Inv, FreshIds, Pending
    <3>3. [status |-> "OPEN", moderator |-> req[r].caller] # NoRow
      BY <3>1, NoRowAssumption DEF Pending, Rows
    <3> QED
      BY <1>0, <1>3, <3>1, <3>2, <3>3 DEF CreateGallery, TypeOK, Idle
  <2>2. ~Known(g) /\ \A s \in Requests \ {r} : ~Creating(s, g)
    BY <2>1 DEF Inv, CreatedOnce
  <2>3. \A h \in Galleries :
           /\ \A s \in Requests : Creating(s, h)' => Creating(s, h) /\ s # r
           /\ Announced(h)' => Announced(h)
           /\ \A s \in Requests : Closing(s, h)' => Closing(s, h)
    BY <2>1 DEF Announced, Closing, Creating, Waiting
  <2>4. \A h \in Galleries : h # g /\ Known(h)' => Known(h)
    BY <2>1, <2>3 DEF Known, HasRow
  <2>5. ReadersReadOnly' /\ ClosesWhatItRead'
    BY <2>1 DEF Inv, ReadersReadOnly, ClosesWhatItRead, Waiting
  <2>6. FreshIds'
    BY <2>1, <2>3, <2>4 DEF Inv, FreshIds
  <2>7. CreatedOnce'
    BY <2>2, <2>3, <2>4 DEF Inv, CreatedOnce
  <2>8. MembersHaveGallery'
    BY <2>1 DEF Inv, MembersHaveGallery, HasRow
  <2>9. \A h \in Galleries : Announced(h)' => ~IsOpen(h)'
    BY <2>1, <2>2, <2>3
    DEF Inv, AnnouncedNeverOpen, Known, Announced, ClosedEvent, IsOpen, HasRow
  <2>10. AnnouncedNeverOpen'
    BY <2>9 DEF AnnouncedNeverOpen, Announced, ClosedEvent
  <2> QED
    BY <1>0, <2>5, <2>6, <2>7, <2>8, <2>10 DEF Inv
<1>4. ASSUME NEW r \in Requests, DeleteGallery(r)
      PROVE  Inv'
  <2>1. /\ UNCHANGED <<used, published>>
        /\ \A s \in Requests : req'[s] = req[s] \/ req'[s].at = "idle"
        /\ \A h \in Galleries : row'[h] \in {row[h], NoRow}
    BY <1>0, <1>4 DEF DeleteGallery, TypeOK, Idle
  <2>2. MembersHaveGallery'
    BY <1>0, <1>4 DEF DeleteGallery, TypeOK, Inv, MembersHaveGallery, HasRow
  <2> QED
    BY <1>0, <2>1, <2>2, QuietStep DEF Inv
<1>5. ASSUME NEW r \in Requests, CloseGallery(r)
      PROVE  Inv'
  <2> DEFINE g == req[r].gallery
  <2>1. /\ UNCHANGED <<members, used, published>>
        /\ g \in Galleries
        /\ Closing(r, g)
        /\ req'[r].at = "publish" /\ req'[r].event = ClosedEvent(g)
        /\ \A s \in Requests \ {r} : req'[s] = req[s]
        /\ \A h \in Galleries \ {g} : row'[h] = row[h]
        /\ row'[g] # NoRow /\ row'[g].status = "CLOSED"
    <3>1. req[r] \in Pending /\ Closing(r, g) /\ req[r].seen \in Rows
      BY <1>0, <1>5, SlotKinds DEF CloseGallery, Closing, Waiting, Inv, ClosesWhatItRead
    <3>2. g \in Galleries
      BY <3>1 DEF Pending
    <3> QED
      BY <1>0, <1>5, <3>1, <3>2, ClosedRow
      DEF CloseGallery, Announce, ClosedEvent, TypeOK
  <2>2. Known(g)
    BY <2>1 DEF Known
  <2>3. \A h \in Galleries :
           /\ \A s \in Requests : Creating(s, h)' => Creating(s, h)
           /\ \A s \in Requests : Closing(s, h)' => Closing(s, h)
           /\ Announced(h)' => Announced(h) \/ h = g
    BY <2>1 DEF Announced, ClosedEvent, Closing, Creating, Waiting
  <2>4. \A h \in Galleries : Known(h)' => Known(h)
    BY <2>1, <2>2, <2>3 DEF Known, HasRow
  <2>5. ReadersReadOnly' /\ ClosesWhatItRead'
    BY <2>1 DEF Inv, ReadersReadOnly, ClosesWhatItRead, Waiting
  <2>6. FreshIds' /\ CreatedOnce'
    BY <2>1, <2>3, <2>4 DEF Inv, FreshIds, CreatedOnce
  <2>7. MembersHaveGallery'
    BY <2>1 DEF Inv, MembersHaveGallery, HasRow
  <2>8. \A h \in Galleries : Announced(h)' => ~IsOpen(h)'
    BY <2>1, <2>3 DEF Inv, AnnouncedNeverOpen, Announced, ClosedEvent, IsOpen, HasRow
  <2>9. AnnouncedNeverOpen'
    BY <2>8 DEF AnnouncedNeverOpen, Announced, ClosedEvent
  <2> QED
    BY <1>0, <2>5, <2>6, <2>7, <2>9 DEF Inv
<1>6. ASSUME NEW r \in Requests, JoinGallery(r) \/ LeaveGallery(r) \/ SqlError(r)
      PROVE  Inv'
  <2>1. /\ UNCHANGED <<row, used, published>>
        /\ \A s \in Requests : req'[s] = req[s] \/ req'[s].at = "idle"
    BY <1>0, <1>6 DEF JoinGallery, LeaveGallery, SqlError, TypeOK, Idle
  <2>2. MembersHaveGallery'
    BY <1>0, <1>6 DEF JoinGallery, LeaveGallery, SqlError, TypeOK, Inv, MembersHaveGallery, HasRow
  <2> QED
    BY <1>0, <2>1, <2>2, QuietStep DEF Inv
<1>7. ASSUME NEW r \in Requests, Publish(r)
      PROVE  Inv'
  <2>1. /\ UNCHANGED <<row, members, used>>
        /\ req[r].at = "publish"
        /\ published' \subseteq published \cup {req[r].event}
        /\ req'[r].at = "idle"
        /\ \A s \in Requests \ {r} : req'[s] = req[s]
    BY <1>0, <1>7 DEF Publish, TypeOK, Idle
  <2>2. \A h \in Galleries :
           /\ \A s \in Requests : Creating(s, h)' => Creating(s, h)
           /\ Announced(h)' => Announced(h)
           /\ Known(h)' => Known(h)
    BY <2>1 DEF Known, HasRow, Announced, Closing, Creating, Waiting
  <2>3. ReadersReadOnly' /\ ClosesWhatItRead'
    BY <2>1 DEF Inv, ReadersReadOnly, ClosesWhatItRead, Waiting
  <2>4. FreshIds' /\ CreatedOnce'
    BY <2>1, <2>2 DEF Inv, FreshIds, CreatedOnce
  <2>5. MembersHaveGallery'
    BY <2>1 DEF Inv, MembersHaveGallery, HasRow
  <2>6. AnnouncedNeverOpen'
    BY <2>1, <2>2 DEF Inv, AnnouncedNeverOpen, Announced, ClosedEvent, IsOpen, HasRow
  <2> QED
    BY <1>0, <2>3, <2>4, <2>5, <2>6 DEF Inv
<1>8. CASE Start \/ DropChannel \/ Crash \/ UNCHANGED vars
  <2>1. /\ UNCHANGED <<row, members, used, published>>
        /\ \A s \in Requests : req'[s] = req[s] \/ req'[s].at = "idle"
    BY <1>8 DEF Start, NewDB, DropChannel, Crash, vars, Idle
  <2>2. MembersHaveGallery'
    BY <2>1 DEF Inv, MembersHaveGallery, HasRow
  <2> QED
    BY <1>0, <2>1, <2>2, QuietStep DEF Inv
<1> QED
  BY <1>1, <1>2, <1>3, <1>4, <1>5, <1>6, <1>7, <1>8 DEF Next, Step

LEMMA Invariant == Spec => []Inv
  BY InitInv, NextInv, PTL DEF Spec

-----------------------------------------------------------------------------
(* Theorems.                                                               *)

\* Rows, memberships, requests and events keep their types, whatever fails.
THEOREM TypeCorrect == Spec => []TypeOK
  BY Invariant, PTL DEF Inv

\* MembersHaveGallery for any number of requests: the cascade of DeleteGallery and
\* the foreign key of JoinGallery leave no membership behind.
THEOREM MembersAlwaysHaveGallery == Spec => []MembersHaveGallery
  BY Invariant, PTL DEF Inv

\* AnnouncedNeverOpen for any number of requests: no closing is announced of a
\* gallery that is open, or opens later.
THEOREM AnnouncedIsNeverOpen == Spec => []AnnouncedNeverOpen
  BY Invariant, PTL DEF Inv

\* Only a creation opens a row, and only of an id that has none.
LEMMA OnlyCreationOpens ==
    ASSUME Inv, [Next]_vars, NEW g \in Galleries, IsOpen(g)'
    PROVE  IsOpen(g) \/ (~HasRow(g) /\ \E r \in Requests : Creating(r, g) /\ CreateGallery(r))
<1>1. ASSUME NEW r \in Requests, CreateGallery(r), row'[g] # row[g]
      PROVE  ~HasRow(g) /\ Creating(r, g)
  <2>1. Creating(r, g)
    BY <1>1 DEF CreateGallery, Creating, Inv, TypeOK
  <2> QED
    BY <2>1 DEF Inv, CreatedOnce, Known
<1>2. ASSUME NEW r \in Requests, CloseGallery(r), row'[g] # row[g]
      PROVE  FALSE
  <2>1. req[r].seen \in Rows
    BY <1>2 DEF CloseGallery, Inv, ClosesWhatItRead
  <2>2. row'[g] = [req[r].seen EXCEPT !.status = "CLOSED"]
    BY <1>2 DEF CloseGallery, Inv, TypeOK
  <2> QED
    BY <2>1, <2>2, ClosedRow DEF IsOpen
<1>3. ASSUME NEW r \in Requests, DeleteGallery(r), row'[g] # row[g]
      PROVE  FALSE
  BY <1>3 DEF DeleteGallery, IsOpen, HasRow, Inv, TypeOK
<1>4. CASE row'[g] = row[g]
  BY <1>4 DEF IsOpen, HasRow
<1>5. CASE row'[g] # row[g]
  BY <1>1, <1>2, <1>3, <1>5
  DEF Next, Step, Begin, Read, JoinGallery, LeaveGallery, Publish, SqlError, Start, NewDB,
      DropChannel, Crash, vars
<1> QED
  BY <1>4, <1>5

\* ClosedNeverReopens for any number of requests: no Save of a row read earlier, and
\* no creation, opens a closed gallery.
THEOREM ClosedIsFinal == Spec => ClosedNeverReopens
<1>1. Inv /\ [Next]_vars =>
        [\A g \in Galleries : HasRow(g) /\ row[g].status = "CLOSED" => ~IsOpen(g)']_vars
  <2> SUFFICES ASSUME Inv, [Next]_vars, NEW g \in Galleries,
                      HasRow(g), row[g].status = "CLOSED", IsOpen(g)'
               PROVE  FALSE
    OBVIOUS
  <2> QED
    BY OnlyCreationOpens DEF IsOpen
<1> QED
  BY <1>1, Invariant, PTL DEF Spec, ClosedNeverReopens

\* UndeletedIsClosed for any number of requests: a deleted gallery reappears only
\* closed and without members.
THEOREM OnlyClosedReturn == Spec => UndeletedIsClosed
<1>1. Inv /\ [Next]_vars =>
        [\A g \in Galleries : ~HasRow(g) /\ HasRow(g)' =>
           \/ \E r \in Requests : Waiting(r, "write", "create") /\ req[r].gallery = g
           \/ row'[g].status = "CLOSED" /\ members'[g] = {}]_vars
  <2> SUFFICES ASSUME Inv, [Next]_vars, NEW g \in Galleries, ~HasRow(g), HasRow(g)'
               PROVE  \/ \E r \in Requests : Waiting(r, "write", "create") /\ req[r].gallery = g
                      \/ row'[g].status = "CLOSED" /\ members'[g] = {}
    OBVIOUS
  <2>1. ASSUME NEW r \in Requests, CreateGallery(r)
        PROVE  Waiting(r, "write", "create") /\ req[r].gallery = g
    BY <2>1 DEF CreateGallery, HasRow, Inv, TypeOK
  <2>2. ASSUME NEW r \in Requests, CloseGallery(r)
        PROVE  row'[g].status = "CLOSED" /\ members'[g] = {}
    <3>1. req[r].seen \in Rows
      BY <2>2 DEF CloseGallery, Inv, ClosesWhatItRead
    <3>2. row'[g] = [req[r].seen EXCEPT !.status = "CLOSED"]
      BY <2>2 DEF CloseGallery, HasRow, Inv, TypeOK
    <3>3. members'[g] = {}
      BY <2>2 DEF CloseGallery, Inv, MembersHaveGallery
    <3> QED
      BY <3>1, <3>2, <3>3, ClosedRow
  <2>3. ASSUME NEW r \in Requests, DeleteGallery(r)
        PROVE  FALSE
    BY <2>3 DEF DeleteGallery, HasRow, Inv, TypeOK
  <2>4. row' # row
    BY DEF HasRow
  <2> QED
    BY <2>1, <2>2, <2>3, <2>4
    DEF Next, Step, Begin, Read, JoinGallery, LeaveGallery, Publish, SqlError, Start, NewDB,
        DropChannel, Crash, vars
<1> QED
  BY <1>1, Invariant, PTL DEF Spec, UndeletedIsClosed
=============================================================================
