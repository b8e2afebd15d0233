------------------------ MODULE UploadServiceProofs ------------------------
(***************************************************************************)
(* Proofs about UploadService, for any number of uploads under way, any    *)
(* threshold of the breaker and every fault: what is in the bucket was     *)
(* allowed, what is said of a photo is true, and the breaker of the        *)
(* service behaves as CircuitBreaker says although a crash makes a new one.*)
(* At the end, proofs about Publisher, the other part of the service: a    *)
(* publish that dials again successfully never returns and ends all        *)
(* publishing.                                                             *)
(***************************************************************************)
EXTENDS UploadService, TLAPS

BreakerProofs == INSTANCE CircuitBreakerProofs WITH Callers <- Uploads

-----------------------------------------------------------------------------
(* The invariant: what holds of the breaker and of every request.          *)

\* A gallery that is open, and a user who is a member, while request u asks, have been
\* so at some time since it began: nothing opens a gallery again, and joining is seen.
BeganSees(u) ==
    at[u] \in Asking =>
        /\ gallery = "open" => began[u].open
        /\ u \in members => began[u].member

\* What the reads of IsMember have found so far was true then.
SeenWasTrue(u) ==
    /\ at[u] \in {"preload", "answered"} /\ seen[u].status # "closed" => began[u].open
    /\ at[u] = "answered" /\ seen[u].member => began[u].member

\* Nothing is done, and nothing is stored, but for a member of an open gallery.
WasAllowed(u) == at[u] \in Admitted \/ u \in objects => began[u].open /\ began[u].member

\* The photo is in the bucket before anything is said of it.
StoredInTime(u) ==
    /\ at[u] \in {"idle"} \cup Asking => u \notin objects
    /\ at[u] \in Admitted \ {"store"} => u \in objects
    /\ u \in rows \cup events \cup notified \/ told[u] = "ok" => u \in objects

\* Records and events come after the last error that the client is told of.
UnseenInTime(u) ==
    /\ at[u] \in {"idle", "store", "save"} \cup Asking => u \notin rows \cup events
    /\ told[u] # "none" => at[u] = "done"
    /\ told[u] \in {"error", "unavailable"} => u \notin rows \cup events

Request(u) ==
    BeganSees(u) /\ SeenWasTrue(u) /\ WasAllowed(u) /\ StoredInTime(u) /\ UnseenInTime(u)

\* The breaker is as its own proofs say, and no call outlives resetTimeout.
BreakerInv == BreakerProofs!TimelyInv /\ ~late

Inv ==
    /\ TypeOK
    /\ BreakerInv
    /\ \A u \in Uploads : Request(u)

-----------------------------------------------------------------------------
(* The breaker.                                                            *)

\* The instance that brings the proofs along has the same definitions.
LEMMA SameBreaker ==
    /\ [Breaker!Next]_breakerVars <=> [BreakerProofs!Next]_(BreakerProofs!vars)
    /\ Breaker!TypeOK <=> BreakerProofs!TypeOK
    /\ Breaker!Init <=> BreakerProofs!Init
    /\ Breaker!StateMatchesFields <=> BreakerProofs!StateMatchesFields
  BY DEF Breaker!Next, BreakerProofs!Next, breakerVars, BreakerProofs!vars,
         Breaker!AdmitClosed, BreakerProofs!AdmitClosed,
         Breaker!AdmitProbe, BreakerProofs!AdmitProbe,
         Breaker!MayProbe, BreakerProofs!MayProbe,
         Breaker!Reject, BreakerProofs!Reject,
         Breaker!Succeed, BreakerProofs!Succeed,
         Breaker!Fail, BreakerProofs!Fail,
         Breaker!CountFailure, BreakerProofs!CountFailure,
         Breaker!Elapse, BreakerProofs!Elapse,
         Breaker!Running, BreakerProofs!Running,
         Breaker!InFlight, BreakerProofs!InFlight,
         Breaker!Results, BreakerProofs!Results,
         Breaker!States, BreakerProofs!States,
         Breaker!TypeOK, BreakerProofs!TypeOK,
         Breaker!Init, BreakerProofs!Init,
         Breaker!StateMatchesFields, BreakerProofs!StateMatchesFields,
         Breaker!ClosedBelowThreshold, BreakerProofs!ClosedBelowThreshold,
         Breaker!HalfOpenIsProbing, BreakerProofs!HalfOpenIsProbing

\* Every step of the service is one of the breaker, or leaves it alone, or starts the
\* process anew and the breaker with it.
BreakerStep == [Breaker!Next]_breakerVars \/ NewServer

LEMMA StepsOfBreaker == [Next]_vars => BreakerStep
<1> SUFFICES ASSUME [Next]_vars
             PROVE  BreakerStep
  OBVIOUS
<1> USE DEF process, galleryVars, storeVars, requestVars, BreakerStep
<1>1. ASSUME NEW u \in Uploads, Begin(u) \/ Refuse(u)
      PROVE  Breaker!Next
  BY <1>1 DEF Begin, Refuse, Breaker!Next
<1>2. ASSUME NEW u \in Uploads, IsMember(u)
      PROVE  BreakerStep
  BY <1>2 DEF IsMember, ReadGallery, ReadMember, IsMemberFails, Breaker!Next
<1>3. ASSUME NEW u \in Uploads, TimeOut(u) \/ Decide(u)
      PROVE  Breaker!Next
  BY <1>3 DEF TimeOut, IsMemberFails, Decide, Breaker!Next
<1>4. ASSUME NEW u \in Uploads,
             \/ Malformed(u) \/ Store(u) \/ Save(u) \/ ResolveMembers(u) \/ Reply(u)
             \/ PublishPhoto(u) \/ Notify(u) \/ Join(u) \/ Leave(u)
      PROVE  UNCHANGED breakerVars
  BY <1>4
  DEF Malformed, Store, Save, ResolveMembers, Reply, PublishPhoto, Notify, Join, Leave
<1>5. CASE Close \/ Delete \/ GalleryStops \/ UNCHANGED vars
  BY <1>5 DEF Close, Delete, GalleryStops, vars
<1>6. CASE Elapse \/ Start \/ Crash
  BY <1>6 DEF Elapse, Start, Crash, Breaker!Next
<1> QED
  BY <1>1, <1>2, <1>3, <1>4, <1>5, <1>6 DEF Next, Step

\* No step makes a call late.
LEMMA NeverLate == ~late /\ [Next]_vars => ~late'
<1> SUFFICES ASSUME ~late, [Next]_vars
             PROVE  ~late'
  OBVIOUS
<1>1. CASE NewServer
  BY <1>1 DEF NewServer
<1>2. CASE Breaker!Elapse
  <2>1. ASSUME NEW u \in Uploads
        PROVE  ~Begin(u) /\ ~Refuse(u) /\ ~Decide(u) /\ ~IsMemberFails(u)
    BY <1>2 DEF Breaker!Elapse, Begin, Refuse, Decide, IsMemberFails, Breaker!AdmitClosed,
                Breaker!AdmitProbe, Breaker!Reject, Breaker!Succeed, Breaker!Fail
  <2>2. CASE Elapse
    BY <2>2 DEF Elapse
  <2>3. CASE UNCHANGED late
    BY <2>3
  <2> QED
    BY <2>1, <2>2, <2>3, <1>2
    DEF Next, Step, Malformed, IsMember, ReadGallery, ReadMember, TimeOut, Store, Save,
        ResolveMembers, Reply, PublishPhoto, Notify, Join, Leave, Close, Delete,
        GalleryStops, Start, Crash, NewServer, vars, process, breakerVars
<1>3. CASE UNCHANGED late
  BY <1>3
<1> QED
  BY StepsOfBreaker, <1>1, <1>2, <1>3
  DEF BreakerStep, Breaker!Next, Breaker!AdmitClosed, Breaker!AdmitProbe, Breaker!Reject,
      Breaker!Succeed, Breaker!Fail, breakerVars

\* A new breaker satisfies what an old one does.
LEMMA NewBreaker == NewServer => (BreakerProofs!TimelyInv)'
<1> SUFFICES ASSUME NewServer
             PROVE  (BreakerProofs!TimelyInv)'
  OBVIOUS
<1>1. /\ current' = "CLOSED" /\ consecutiveFailures' = 0 /\ cooled' = TRUE
      /\ probing' = FALSE /\ late' = FALSE
      /\ call' = [u \in Uploads |-> "none"]
  BY DEF NewServer
<1>2. (BreakerProofs!TypeOK)'
  <2>1. current' \in BreakerProofs!States /\ consecutiveFailures' \in 0 .. MaxFailures
    BY <1>1, MaxFailuresAssumption DEF BreakerProofs!States
  <2>2. call' \in [Uploads -> BreakerProofs!InFlight \cup BreakerProofs!Results]
    BY <1>1 DEF BreakerProofs!Results
  <2>3. cooled' \in BOOLEAN /\ probing' \in BOOLEAN /\ late' \in BOOLEAN
    BY <1>1
  <2> QED
    BY <2>1, <2>2, <2>3 DEF BreakerProofs!TypeOK
<1>3. (BreakerProofs!ClosedBelowThreshold)' /\ (BreakerProofs!HalfOpenIsProbing)'
  BY <1>1, MaxFailuresAssumption
  DEF BreakerProofs!ClosedBelowThreshold, BreakerProofs!HalfOpenIsProbing
<1>4. (BreakerProofs!Timely)'
  BY <1>1 DEF BreakerProofs!Timely
<1> QED
  BY <1>2, <1>3, <1>4 DEF BreakerProofs!TimelyInv, BreakerProofs!AnyInv

LEMMA InitBreaker == Init => BreakerInv
<1>1. BreakerProofs!Init => BreakerProofs!TimelyInv
  BY BreakerProofs!InitTimely, MaxFailuresAssumption
<1> QED
  BY <1>1, SameBreaker DEF Init, BreakerInv, Breaker!Init

LEMMA NextBreaker == BreakerInv /\ [Next]_vars => BreakerInv'
<1>1. BreakerProofs!TimelyInv /\ [BreakerProofs!Next]_(BreakerProofs!vars)
         => (BreakerProofs!TimelyInv)'
  BY BreakerProofs!NextTimelyInv, MaxFailuresAssumption
<1> QED
  BY <1>1, SameBreaker, StepsOfBreaker, NewBreaker, NeverLate DEF BreakerStep, BreakerInv

-----------------------------------------------------------------------------
(* Types.                                                                  *)

LEMMA Typed ==
    ASSUME TypeOK, NEW u \in Uploads
    PROVE  /\ \A p \in {"idle", "done"} \cup Asking \cup Admitted :
                 [at EXCEPT ![u] = p] \in [Uploads -> {"idle", "done"} \cup Asking \cup Admitted]
           /\ \A a \in Answers : [told EXCEPT ![u] = a] \in [Uploads -> Answers]
  BY DEF TypeOK

LEMMA Names ==
    /\ {"count", "first", "preload", "answered"} = Asking
    /\ {"store", "save", "resolve", "publish", "reply"} = Admitted
    /\ {"none", "ok", "error", "unavailable", "lost"} = Answers
  BY DEF Asking, Admitted, Answers

LEMMA NextTypes == TypeOK /\ BreakerInv /\ [Next]_vars => TypeOK'
<1> SUFFICES ASSUME TypeOK, BreakerInv, [Next]_vars
             PROVE  TypeOK'
  OBVIOUS
<1>b. (Breaker!TypeOK)'
  <2>1. (BreakerProofs!TypeOK)'
    BY NextBreaker DEF BreakerInv, BreakerProofs!TimelyInv, BreakerProofs!AnyInv
  <2> QED
    BY <2>1
    DEF Breaker!TypeOK, BreakerProofs!TypeOK, Breaker!States, BreakerProofs!States,
        Breaker!InFlight, BreakerProofs!InFlight, Breaker!Results, BreakerProofs!Results
<1>g. \A u \in Uploads : \A p \in Asking \cup Admitted \cup {"done"} : Go(u, p) =>
         at' \in [Uploads -> {"idle", "done"} \cup Asking \cup Admitted]
  BY Typed DEF Go
<1>r. \A u \in Uploads : \A a \in Answers : Return(u, a) =>
         /\ at' \in [Uploads -> {"idle", "done"} \cup Asking \cup Admitted]
         /\ told' \in [Uploads -> Answers]
  BY Typed DEF Go, Return
<1> USE DEF process, galleryVars, storeVars, requestVars, May
<1>1. ASSUME NEW u \in Uploads, Begin(u)
      PROVE  TypeOK'
  BY <1>b, <1>g, <1>1, Names DEF TypeOK, Begin
<1>2. ASSUME NEW u \in Uploads, Refuse(u) \/ Malformed(u)
      PROVE  TypeOK'
  BY <1>b, <1>r, <1>2, Names DEF TypeOK, Refuse, Malformed
<1>3. ASSUME NEW u \in Uploads, IsMember(u) \/ TimeOut(u) \/ Decide(u)
      PROVE  TypeOK'
  <2>1. CASE IsMemberFails(u)
    BY <1>b, <1>r, <2>1, Names DEF TypeOK, IsMemberFails
  <2>2. CASE ReadGallery(u) /\ ~IsMemberFails(u)
    <3>1. gallery \in {"open", "closed"}
      BY <2>2 DEF TypeOK, ReadGallery
    <3>2. seen' \in [Uploads -> [status : {"open", "closed"}, member : BOOLEAN]]
      <4>1. [seen[u] EXCEPT !.status = gallery]
               \in [status : {"open", "closed"}, member : BOOLEAN]
        BY <3>1 DEF TypeOK
      <4>2. seen' = seen \/ seen' = [seen EXCEPT ![u] = [seen[u] EXCEPT !.status = gallery]]
        BY <2>2 DEF ReadGallery
      <4> QED
        BY <4>1, <4>2 DEF TypeOK
    <3> QED
      BY <1>b, <1>g, <2>2, <3>2, Names DEF TypeOK, ReadGallery
  <2>3. CASE ReadMember(u)
    <3>1. seen' \in [Uploads -> [status : {"open", "closed"}, member : BOOLEAN]]
      <4>1. \A b \in BOOLEAN : [seen[u] EXCEPT !.member = b]
                                 \in [status : {"open", "closed"}, member : BOOLEAN]
        BY DEF TypeOK
      <4>2. seen' = [seen EXCEPT ![u] = [seen[u] EXCEPT !.member = u \in members]]
        BY <2>3 DEF ReadMember
      <4>3. [seen[u] EXCEPT !.member = u \in members]
               \in [status : {"open", "closed"}, member : BOOLEAN]
        <5>1. CASE u \in members
          <6>1. (u \in members) = TRUE
            BY <5>1
          <6> QED
            BY <4>1, <6>1, Zenon
        <5>2. CASE u \notin members
          <6>1. (u \in members) = FALSE
            BY <5>2
          <6> QED
            BY <4>1, <6>1, Zenon
        <5> QED
          BY <5>1, <5>2
      <4> QED
        BY <4>2, <4>3 DEF TypeOK
    <3> QED
      BY <1>b, <1>g, <2>3, <3>1, Names DEF TypeOK, ReadMember
  <2>4. CASE Decide(u)
    BY <1>b, <1>g, <1>r, <2>4, Names DEF TypeOK, Decide
  <2> QED
    BY <1>3, <2>1, <2>2, <2>3, <2>4 DEF IsMember, TimeOut
<1>4. ASSUME NEW u \in Uploads, Store(u)
      PROVE  TypeOK'
  BY <1>b, <1>g, <1>r, <1>4, Names DEF TypeOK, Store, Upload
<1>5. ASSUME NEW u \in Uploads, Save(u) \/ PublishPhoto(u) \/ ResolveMembers(u) \/ Reply(u)
      PROVE  TypeOK'
  <2>1. CASE Save(u)
    BY <1>b, <1>g, <2>1, Names DEF TypeOK, Save
  <2>2. CASE PublishPhoto(u)
    BY <1>b, <1>g, <2>2, Names DEF TypeOK, PublishPhoto
  <2>4. CASE ResolveMembers(u)
    BY <1>b, <1>g, <2>4, Names DEF TypeOK, ResolveMembers
  <2>3. CASE Reply(u)
    BY <1>b, <1>r, <2>3, Names DEF TypeOK, Reply
  <2> QED
    BY <1>5, <2>1, <2>2, <2>3, <2>4
<1>6. ASSUME NEW u \in Uploads, Notify(u) \/ Leave(u)
      PROVE  TypeOK'
  BY <1>b, <1>6 DEF TypeOK, Notify, Leave
<1>7. ASSUME NEW u \in Uploads, Join(u)
      PROVE  TypeOK'
  <2>1. began' \in [Uploads -> [open : BOOLEAN, member : BOOLEAN]]
    <3>1. began \in [Uploads -> [open : BOOLEAN, member : BOOLEAN]]
      BY DEF TypeOK
    <3>2. (began[u].member \/ at[u] \in Asking) \in BOOLEAN
      BY <3>1
    <3> QED
      BY <1>7, <3>1, <3>2 DEF Join
  <2> QED
    BY <1>b, <1>7, <2>1 DEF TypeOK, Join
<1>8. CASE Close \/ Delete \/ GalleryStops \/ Elapse
  BY <1>b, <1>8 DEF TypeOK, Close, Delete, GalleryStops, Elapse
<1>9. CASE Start
  BY <1>b, <1>9 DEF TypeOK, Start, NewStorage, NewDB
<1>10. CASE Crash
  <2>1. at' \in [Uploads -> {"idle", "done"} \cup Asking \cup Admitted]
    BY <1>10 DEF TypeOK, Crash
  <2>2. told' \in [Uploads -> Answers]
    BY <1>10, Names DEF TypeOK, Crash
  <2> QED
    BY <1>b, <1>10, <2>1, <2>2 DEF TypeOK, Crash
<1>11. CASE UNCHANGED vars
  BY <1>b, <1>11 DEF TypeOK, vars
<1> QED
  BY <1>1, <1>2, <1>3, <1>4, <1>5, <1>6, <1>7, <1>8, <1>9, <1>10, <1>11 DEF Next, Step

-----------------------------------------------------------------------------
(* Requests.                                                               *)

LEMMA NextRequests == Inv /\ [Next]_vars => \A v \in Uploads : Request(v)'
<1> SUFFICES ASSUME Inv, [Next]_vars, NEW v \in Uploads
             PROVE  Request(v)'
  OBVIOUS
<1>t. TypeOK /\ Request(v)
  BY DEF Inv
<1> USE DEF process, galleryVars, storeVars, requestVars, Go, Return, Asking, Admitted,
            Request, BeganSees, SeenWasTrue, WasAllowed, StoredInTime, UnseenInTime
<1>0. /\ at \in [Uploads -> {"idle", "done"} \cup Asking \cup Admitted]
      /\ seen \in [Uploads -> [status : {"open", "closed"}, member : BOOLEAN]]
      /\ began \in [Uploads -> [open : BOOLEAN, member : BOOLEAN]]
      /\ told \in [Uploads -> Answers]
      /\ gallery \in {"open", "closed", "deleted"}
  BY <1>t DEF TypeOK
<1> HIDE DEF TypeOK
<1>1. ASSUME NEW u \in Uploads, Begin(u)
      PROVE  Request(v)'
  BY <1>t, <1>0, <1>1 DEF Begin
<1>2. ASSUME NEW u \in Uploads, Refuse(u) \/ Malformed(u)
      PROVE  Request(v)'
  BY <1>t, <1>0, <1>2 DEF Refuse, Malformed
<1>3. ASSUME NEW u \in Uploads, at[u] \in Asking, IsMemberFails(u)
      PROVE  Request(v)'
  BY <1>t, <1>0, <1>3 DEF IsMemberFails
<1>4. ASSUME NEW u \in Uploads, ReadGallery(u), ~IsMemberFails(u)
      PROVE  Request(v)'
  <2>1. CASE v # u \/ at[u] = "count"
    BY <1>t, <1>0, <1>4, <2>1 DEF ReadGallery
  <2>2. CASE v = u /\ at[u] = "first"
    <3>1. gallery \in {"open", "closed"}
      BY <1>0, <1>4 DEF ReadGallery
    <3>2. at'[v] = "preload" /\ seen'[v].status = gallery
      <4>1. /\ at' = [at EXCEPT ![v] = "preload"]
            /\ seen' = [seen EXCEPT ![v].status = gallery]
        BY <1>4, <2>2 DEF ReadGallery
      <4> QED
        BY <1>0, <4>1
    <3>3. UNCHANGED <<galleryVars, storeVars, began, told>>
      BY <1>4 DEF ReadGallery
    <3> QED
      BY <1>t, <2>2, <3>1, <3>2, <3>3
  <2> QED
    BY <1>4, <2>1, <2>2 DEF ReadGallery
<1>5. ASSUME NEW u \in Uploads, ReadMember(u)
      PROVE  Request(v)'
  BY <1>t, <1>0, <1>5 DEF ReadMember
<1>6. ASSUME NEW u \in Uploads, Decide(u)
      PROVE  Request(v)'
  BY <1>t, <1>0, <1>6 DEF Decide
<1>7. ASSUME NEW u \in Uploads, Store(u)
      PROVE  Request(v)'
  BY <1>t, <1>0, <1>7 DEF Store, Upload
<1>8. ASSUME NEW u \in Uploads, Save(u)
      PROVE  Request(v)'
  BY <1>t, <1>0, <1>8 DEF Save
<1>9. ASSUME NEW u \in Uploads, ResolveMembers(u) \/ Reply(u)
      PROVE  Request(v)'
  BY <1>t, <1>0, <1>9 DEF ResolveMembers, Reply
<1>10. ASSUME NEW u \in Uploads, PublishPhoto(u)
       PROVE  Request(v)'
  BY <1>t, <1>0, <1>10 DEF PublishPhoto
<1>11. ASSUME NEW u \in Uploads, Notify(u) \/ Leave(u)
       PROVE  Request(v)'
  BY <1>t, <1>0, <1>11 DEF Notify, Leave
<1>12. ASSUME NEW u \in Uploads, Join(u)
       PROVE  Request(v)'
  BY <1>t, <1>0, <1>12 DEF Join
<1>13. CASE Close \/ Delete \/ GalleryStops \/ Elapse
  BY <1>t, <1>0, <1>13 DEF Close, Delete, GalleryStops, Elapse
<1>14. CASE Start
  BY <1>t, <1>0, <1>14 DEF Start, NewStorage, NewDB
<1>15. CASE Crash
  BY <1>t, <1>0, <1>15 DEF Crash
<1>16. CASE UNCHANGED vars
  BY <1>t, <1>0, <1>16 DEF vars
<1>17. ASSUME NEW u \in Uploads, IsMember(u) \/ TimeOut(u)
       PROVE  Request(v)'
  BY <1>3, <1>4, <1>5, <1>17 DEF IsMember, ReadGallery, TimeOut
<1> QED
  BY <1>1, <1>2, <1>6, <1>7, <1>8, <1>9, <1>10, <1>11, <1>12, <1>13, <1>14, <1>15, <1>16, <1>17
  DEF Next, Step

LEMMA InitInv == Init => Inv
<1> SUFFICES ASSUME Init
             PROVE  Inv
  OBVIOUS
<1>1. BreakerInv /\ Breaker!TypeOK
  <2>1. BreakerProofs!TypeOK
    BY InitBreaker DEF BreakerInv, BreakerProofs!TimelyInv, BreakerProofs!AnyInv
  <2> QED
    BY <2>1, InitBreaker, SameBreaker
<1>2. TypeOK
  BY <1>1 DEF Init, TypeOK, Unseen, Answers
<1>3. \A u \in Uploads : Request(u)
  BY DEF Init, Request, BeganSees, SeenWasTrue, WasAllowed, StoredInTime, UnseenInTime,
         Asking, Admitted
<1> QED
  BY <1>1, <1>2, <1>3 DEF Inv

LEMMA NextInv == Inv /\ [Next]_vars => Inv'
  BY NextTypes, NextBreaker, NextRequests DEF Inv

-----------------------------------------------------------------------------
(* What the invariant says.                                                *)

\* No step from Init on breaks the invariant, whatever fails.
THEOREM Invariant == Spec => []Inv
  BY InitInv, NextInv, PTL DEF Spec

\* Every variable has its type, for any number of uploads and any threshold.
THEOREM TypeCorrect == Spec => []TypeOK
<1>1. Inv => TypeOK
  BY DEF Inv
<1> QED
  BY <1>1, Invariant, PTL

\* StoredWasAllowed for any number of uploads: whoever closes, joins, leaves or deletes
\* between the three reads of IsMember.
THEOREM OnlyAllowedStored == Spec => []StoredWasAllowed
<1>1. Inv => StoredWasAllowed
  BY DEF Inv, TypeOK, Request, WasAllowed, StoredWasAllowed
<1> QED
  BY <1>1, Invariant, PTL

\* AnnouncedIsStored for any number of uploads, failed calls and crashes.
THEOREM OnlyStoredAnnounced == Spec => []AnnouncedIsStored
<1>1. Inv => AnnouncedIsStored
  BY DEF Inv, TypeOK, Request, StoredInTime, AnnouncedIsStored
<1> QED
  BY <1>1, Invariant, PTL

\* ErrorMeansUnseen for any number of uploads, failed calls and crashes.
THEOREM ErrorsAreUnseen == Spec => []ErrorMeansUnseen
<1>1. Inv => ErrorMeansUnseen
  BY DEF Inv, Request, UnseenInTime, ErrorMeansUnseen
<1> QED
  BY <1>1, Invariant, PTL

\* At most one request at a time tests a Gallery Service that is recovering.
OneQuestion == \A u, v \in Uploads : call[u] = "probing" /\ call[v] = "probing" => u = v

\* What CircuitBreakerProofs says of a breaker holds inside the service, where a crash
\* replaces it, and without an exception for late calls: isMember returns before
\* resetTimeout has passed.
THEOREM BreakerKept == Spec => [](Breaker!StateMatchesFields /\ OneQuestion)
<1>1. Inv => Breaker!StateMatchesFields /\ OneQuestion
  BY SameBreaker
  DEF Inv, BreakerInv, BreakerProofs!TimelyInv, BreakerProofs!Timely, BreakerProofs!AnyInv,
      BreakerProofs!StateMatchesFields, OneQuestion
<1> QED
  BY <1>1, Invariant, PTL

-----------------------------------------------------------------------------
(* The publisher of the service.  It has a breaker and goroutines of its   *)
(* own, so every variable of the instance is one of these.                 *)

CONSTANTS Boot, NoOne       \* of Publisher

VARIABLES pCurrent, pFailures, pCooled, pProbing, pCall, pLate,  \* its breaker
          mu, channel, dialled, broker,                          \* as in Publisher
          place                                                  \* its "at"

Pub == INSTANCE Publisher
    WITH current <- pCurrent, consecutiveFailures <- pFailures, cooled <- pCooled,
         probing <- pProbing, call <- pCall, late <- pLate, at <- place

\* What Publisher assumes of its constants (ThreadsAssumption).
PubConstants == Boot \notin Uploads /\ NoOne \notin Uploads \cup {Boot}

\* The positions and the mutex: what the proofs need of the types.
Positions == place \in [Pub!Threads -> Pub!Places]

PubInv == Positions /\ Pub!LockDiscipline

\* Breaker steps only touch the breaker; everything else is a step of one
\* goroutine, of the breaker's clock, or of RabbitMQ.
LEMMA StepsInside ==
    ASSUME [Pub!Next]_(Pub!vars)
    PROVE  \/ \E t \in Uploads : Pub!Begin(t) \/ Pub!Finish(t) \/ Pub!Lock(t)
           \/ \E t \in Pub!Threads : Pub!Try(t) \/ Pub!Dial(t) \/ Pub!Swap(t)
           \/ UNCHANGED <<mu, place>>
  BY DEF Pub!Next, Pub!Step, Pub!vars, Pub!Refuse, Pub!Elapse, Pub!BrokerDown,
         Pub!BrokerUp

\* Nobody holds the mutex at the start and only Boot runs.
LEMMA InitPublisher == PubConstants /\ Pub!Init => PubInv
  BY DEF PubConstants, Pub!Init, PubInv, Positions, Pub!LockDiscipline, Pub!Threads,
         Pub!Places, Pub!Critical

\* Every step preserves the lock discipline.
LEMMA NextPublisher == PubConstants /\ PubInv /\ [Pub!Next]_(Pub!vars) => PubInv'
<1> SUFFICES ASSUME PubConstants, PubInv, [Pub!Next]_(Pub!vars)
             PROVE  PubInv'
  OBVIOUS
<1> USE DEF PubConstants, PubInv, Positions, Pub!LockDiscipline, Pub!Threads,
            Pub!Places, Pub!Critical, Pub!Go, Pub!Leave
<1>1. ASSUME NEW t \in Uploads, Pub!Begin(t)
      PROVE  PubInv'
  BY <1>1 DEF Pub!Begin
<1>2. ASSUME NEW t \in Uploads, Pub!Finish(t)
      PROVE  PubInv'
  BY <1>2 DEF Pub!Finish
<1>3. ASSUME NEW t \in Uploads, Pub!Lock(t)
      PROVE  PubInv'
  BY <1>3 DEF Pub!Lock
<1>4. ASSUME NEW t \in Pub!Threads, Pub!Try(t)
      PROVE  PubInv'
  <2>1. CASE channel = "open"
    BY <1>4, <2>1 DEF Pub!Try
  <2>2. CASE channel # "open"
    BY <1>4, <2>2 DEF Pub!Try
  <2> QED
    BY <2>1, <2>2
<1>5. ASSUME NEW t \in Pub!Threads, Pub!Dial(t)
      PROVE  PubInv'
  <2>1. CASE broker
    BY <1>5, <2>1 DEF Pub!Dial
  <2>2. CASE ~broker
    BY <1>5, <2>2 DEF Pub!Dial
  <2> QED
    BY <2>1, <2>2
<1>6. ASSUME NEW t \in Pub!Threads, Pub!Swap(t)
      PROVE  PubInv'
  BY <1>6 DEF Pub!Swap
<1>7. CASE UNCHANGED <<mu, place>>
  BY <1>7
<1> QED
  BY <1>1, <1>2, <1>3, <1>4, <1>5, <1>6, <1>7, StepsInside

\* p.mu is held exactly inside publish.
THEOREM LockDisciplineHolds == PubConstants /\ Pub!Spec => []Pub!LockDiscipline
<1>1. PubInv => Pub!LockDiscipline
  BY DEF PubInv
<1>2. PubConstants => PubConstants'
  BY DEF PubConstants
<1> QED
  BY InitPublisher, NextPublisher, <1>1, <1>2, PTL DEF Pub!Spec

\* While one upload is stuck only it holds the mutex, so nobody can lock it, and
\* nobody is about to try.
LEMMA StuckStep ==
    ASSUME PubConstants, PubInv, [Pub!Next]_(Pub!vars), NEW s \in Uploads, Pub!Stuck(s)
    PROVE  /\ Pub!Stuck(s)'
           /\ \A t \in Uploads : place[t] # "ok" => place'[t] # "ok"
<1> USE DEF PubConstants, Pub!Stuck, PubInv, Positions, Pub!LockDiscipline,
            Pub!Threads, Pub!Places, Pub!Critical, Pub!Go, Pub!Leave
<1>1. mu = s /\ place[Boot] = "idle"
  OBVIOUS
<1>2. \A t \in Pub!Threads : place[t] \in {"try", "dial", "swap", "retry"} => t = s
  BY <1>1
<1>3. \A t \in Pub!Threads : ~Pub!Try(t) /\ ~Pub!Dial(t) /\ ~Pub!Swap(t)
  BY <1>1, <1>2 DEF Pub!Try, Pub!Dial, Pub!Swap
<1>4. \A t \in Uploads : ~Pub!Lock(t)
  BY <1>1 DEF Pub!Lock
<1>5. CASE \E t \in Uploads : Pub!Begin(t) \/ Pub!Finish(t)
  BY <1>5 DEF Pub!Begin, Pub!Finish
<1>6. CASE UNCHANGED <<mu, place>>
  BY <1>6
<1> QED
  BY <1>3, <1>4, <1>5, <1>6, StepsInside

\* A publish that has dialled again never returns, and no event is published any
\* more.
THEOREM StuckIsTheEnd == PubConstants /\ Pub!Spec => Pub!StuckStopsAll
<1> DEFINE Final == \A s \in Uploads : Pub!Stuck(s) =>
                      /\ Pub!Stuck(s)'
                      /\ \A t \in Uploads : place[t] # "ok" => place'[t] # "ok"
<1>1. PubConstants /\ PubInv /\ [Pub!Next]_(Pub!vars) => [Final]_(Pub!vars)
  <2> SUFFICES ASSUME PubConstants, PubInv, [Pub!Next]_(Pub!vars),
                      NEW s \in Uploads, Pub!Stuck(s)
               PROVE  /\ Pub!Stuck(s)'
                      /\ \A t \in Uploads : place[t] # "ok" => place'[t] # "ok"
    OBVIOUS
  <2> QED
    BY StuckStep
<1>2. PubConstants => PubConstants'
  BY DEF PubConstants
<1> QED
  BY InitPublisher, NextPublisher, <1>1, <1>2, PTL DEF Pub!Spec, Pub!StuckStopsAll
=============================================================================
