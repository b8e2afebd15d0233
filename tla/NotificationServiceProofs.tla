--------------------- MODULE NotificationServiceProofs ---------------------
(***************************************************************************)
(* Proofs about NotificationService, for any users, galleries, streams and *)
(* replicas, any prefetch and any number of events and failures: the       *)
(* registry holds no stream that is over, a stream receives events of its  *)
(* galleries only, and, as long as no replica fails, each of them once and *)
(* those of one replica in order. Before that, proofs about Registry, the  *)
(* indexes that the replicas' registries stand for: they agree, keep no    *)
(* key without use and implement Subscriptions.                            *)
(***************************************************************************)
EXTENDS NotificationService, TLAPS, FiniteSetTheorems, SequenceTheorems

-----------------------------------------------------------------------------
(* The registry: its three indexes, for any sets of users, galleries and   *)
(* connections.                                                            *)

VARIABLES connections, clients, galleries, notified

Indexes == INSTANCE Registry WITH toSend <- notified

IndexInv == Indexes!TypeOK /\ Indexes!IndexesAgree /\ Indexes!NoEmptyEntry

-----------------------------------------------------------------------------
(* Maps: functions on a subset of the possible keys.                       *)

\* A function on some of the keys, with values of the right kind, is a map.
LEMMA MapsIntro ==
    ASSUME NEW K, NEW V, NEW D \in SUBSET K, NEW f \in [D -> V]
    PROVE  f \in Indexes!Maps(K, V)
  BY DEF Indexes!Maps

\* And every map is one.
LEMMA MapsElim ==
    ASSUME NEW K, NEW V, NEW f \in Indexes!Maps(K, V)
    PROVE  DOMAIN f \in SUBSET K /\ f \in [DOMAIN f -> V]
  BY DEF Indexes!Maps

\* Binding a key gives a map.
LEMMA PutMap ==
    ASSUME NEW K, NEW V, NEW m \in Indexes!Maps(K, V), NEW k \in K, NEW v \in V
    PROVE  Indexes!Put(m, k, v) \in Indexes!Maps(K, V)
<1>1. DOMAIN m \cup {k} \in SUBSET K
  BY MapsElim
<1>2. Indexes!Put(m, k, v) \in [DOMAIN m \cup {k} -> V]
  BY MapsElim DEF Indexes!Put
<1> QED
  BY <1>1, <1>2, MapsIntro

\* Leaving keys out gives a map.
LEMMA WithoutMap ==
    ASSUME NEW K, NEW V, NEW m \in Indexes!Maps(K, V), NEW S
    PROVE  Indexes!Without(m, S) \in Indexes!Maps(K, V)
<1>1. DOMAIN m \ S \in SUBSET K
  BY MapsElim
<1>2. Indexes!Without(m, S) \in [DOMAIN m \ S -> V]
  BY MapsElim DEF Indexes!Without
<1> QED
  BY <1>1, <1>2, MapsIntro

\* Taking connections out of inner maps gives a map.
LEMMA TakeOutMap ==
    ASSUME NEW K, NEW W, NEW m \in Indexes!Maps(K, SUBSET W), NEW L, NEW S
    PROVE  Indexes!TakeOut(m, L, S) \in Indexes!Maps(K, SUBSET W)
<1> DEFINE D == {x \in DOMAIN m : ~(x \in L /\ m[x] \ S = {})}
<1>1. D \in SUBSET K
  BY MapsElim
<1>2. Indexes!TakeOut(m, L, S) \in [D -> SUBSET W]
  BY MapsElim DEF Indexes!TakeOut
<1> QED
  BY <1>1, <1>2, MapsIntro

\* What a map holds for a key.
LEMMA EntryType ==
    ASSUME NEW K, NEW W, NEW m \in Indexes!Maps(K, SUBSET W), NEW k
    PROVE  Indexes!Entry(m, k) \in SUBSET W
  BY MapsElim DEF Indexes!Entry

-----------------------------------------------------------------------------
(* The invariant.                                                          *)

Clients == [user : Users, galleries : SUBSET Galleries]

\* The type invariant in the form the steps below use it.
LEMMA IndexTypes ==
    ASSUME Indexes!TypeOK
    PROVE  /\ DOMAIN connections \subseteq Conns
           /\ DOMAIN clients \subseteq Users
           /\ DOMAIN galleries \subseteq Galleries
           /\ connections \in [DOMAIN connections -> Clients]
           /\ clients \in [DOMAIN clients -> SUBSET Conns]
           /\ galleries \in [DOMAIN galleries -> SUBSET Conns]
  BY MapsElim DEF Indexes!TypeOK, Clients

\* The empty registry satisfies it.
LEMMA InitIndexInv == Indexes!Init => IndexInv
<1> SUFFICES ASSUME Indexes!Init
             PROVE  IndexInv
  OBVIOUS
<1>1. \A K, V : Indexes!EmptyMap \in Indexes!Maps(K, V)
  <2> SUFFICES ASSUME NEW K, NEW V
               PROVE  Indexes!EmptyMap \in Indexes!Maps(K, V)
    OBVIOUS
  <2>1. {} \in SUBSET K /\ Indexes!EmptyMap \in [{} -> V]
    BY DEF Indexes!EmptyMap
  <2> QED
    BY <2>1, MapsIntro
<1>2. Indexes!TypeOK
  BY <1>1 DEF Indexes!Init, Indexes!TypeOK
<1>3. DOMAIN Indexes!EmptyMap = {}
  BY DEF Indexes!EmptyMap
<1> QED
  BY <1>2, <1>3 DEF Indexes!Init, IndexInv, Indexes!IndexesAgree,
                    Indexes!ClientsIndexed, Indexes!GalleriesIndexed,
                    Indexes!NoEmptyEntry

\* A new connection enters two indexes.
LEMMA CreateClientInv ==
    ASSUME IndexInv, NEW c \in Conns, NEW u \in Users, Indexes!CreateClient(c, u)
    PROVE  IndexInv'
<1> USE DEF IndexInv, Indexes!CreateClient
<1>1. (Indexes!TypeOK)'
  BY PutMap, EntryType DEF Indexes!TypeOK
<1>2. (Indexes!ClientsIndexed)'
  BY IndexTypes DEF Indexes!IndexesAgree, Indexes!ClientsIndexed, Indexes!Put,
                    Indexes!Entry, Clients
<1>3. (Indexes!GalleriesIndexed)'
  BY IndexTypes DEF Indexes!IndexesAgree, Indexes!GalleriesIndexed, Indexes!Put, Clients
<1>4. (Indexes!NoEmptyEntry)'
  BY IndexTypes DEF Indexes!NoEmptyEntry, Indexes!Put, Indexes!Entry
<1> QED
  BY <1>1, <1>2, <1>3, <1>4 DEF Indexes!IndexesAgree

\* A subscription enters the client object and the gallery index.
LEMMA SubscribeInv ==
    ASSUME IndexInv, NEW c \in Conns, NEW g \in Galleries, Indexes!Subscribe(c, g)
    PROVE  IndexInv'
<1> USE DEF IndexInv, Indexes!Subscribe
<1>1. (Indexes!TypeOK)'
  <2>1. connections' \in [DOMAIN connections -> Clients]
    BY IndexTypes DEF Clients
  <2>2. connections' \in Indexes!Maps(Conns, Clients)
    BY <2>1, IndexTypes, MapsIntro
  <2>3. galleries' \in Indexes!Maps(Galleries, SUBSET Conns)
    BY PutMap, EntryType DEF Indexes!TypeOK
  <2> QED
    BY <2>2, <2>3 DEF Indexes!TypeOK, Clients
<1>2. (Indexes!ClientsIndexed)'
  BY IndexTypes DEF Indexes!IndexesAgree, Indexes!ClientsIndexed, Clients
<1>3. (Indexes!GalleriesIndexed)'
  BY IndexTypes DEF Indexes!IndexesAgree, Indexes!GalleriesIndexed, Indexes!Put,
                    Indexes!Entry, Clients
<1>4. (Indexes!NoEmptyEntry)'
  BY IndexTypes DEF Indexes!NoEmptyEntry, Indexes!Put, Indexes!Entry
<1> QED
  BY <1>1, <1>2, <1>3, <1>4 DEF Indexes!IndexesAgree

\* All connections of the user enter the gallery index together.
LEMMA AddGalleryForClientInv ==
    ASSUME IndexInv, NEW g \in Galleries, NEW u \in Users, Indexes!AddGalleryForClient(g, u)
    PROVE  IndexInv'
<1> USE DEF IndexInv, Indexes!AddGalleryForClient
<1>0. clients[u] = {c \in DOMAIN connections : connections[c].user = u}
  BY DEF Indexes!IndexesAgree, Indexes!ClientsIndexed
<1>1. (Indexes!TypeOK)'
  <2>1. connections' \in [DOMAIN connections -> Clients]
    BY IndexTypes DEF Indexes!Add, Clients
  <2>2. connections' \in Indexes!Maps(Conns, Clients)
    BY <2>1, IndexTypes, MapsIntro
  <2>3. Indexes!Entry(galleries, g) \cup clients[u] \in SUBSET Conns
    BY IndexTypes, EntryType DEF Indexes!TypeOK
  <2>4. galleries' \in Indexes!Maps(Galleries, SUBSET Conns)
    BY <2>3, PutMap DEF Indexes!TypeOK
  <2> QED
    BY <2>2, <2>4 DEF Indexes!TypeOK, Clients
<1>2. (Indexes!ClientsIndexed)'
  BY IndexTypes DEF Indexes!IndexesAgree, Indexes!ClientsIndexed, Indexes!Add, Clients
<1>3. (Indexes!GalleriesIndexed)'
  BY <1>0, IndexTypes DEF Indexes!IndexesAgree, Indexes!GalleriesIndexed, Indexes!Put,
                          Indexes!Entry, Indexes!Add, Clients
<1>4. (Indexes!NoEmptyEntry)'
  BY IndexTypes DEF Indexes!NoEmptyEntry, Indexes!Put, Indexes!Entry
<1> QED
  BY <1>1, <1>2, <1>3, <1>4 DEF Indexes!IndexesAgree

\* The connections of the user that have the gallery leave its index together.
LEMMA UnsubscribeInv ==
    ASSUME IndexInv, NEW g \in Galleries, NEW u \in Users, Indexes!Unsubscribe(g, u)
    PROVE  IndexInv'
<1> USE DEF IndexInv
<1> DEFINE S == {c \in clients[u] : g \in connections[c].galleries}
<1>0. /\ u \in DOMAIN clients
      /\ connections' = Indexes!Remove(S, g)
      /\ galleries' = IF S = {} THEN galleries ELSE Indexes!TakeOut(galleries, {g}, S)
      /\ UNCHANGED <<clients, notified>>
  BY DEF Indexes!Unsubscribe
<1>a. S = {c \in DOMAIN connections :
             connections[c].user = u /\ g \in connections[c].galleries}
  BY <1>0 DEF Indexes!IndexesAgree, Indexes!ClientsIndexed
<1> HIDE DEF S
<1>1. (Indexes!TypeOK)'
  <2>1. connections' \in [DOMAIN connections -> Clients]
    BY <1>0, IndexTypes DEF Indexes!Remove, Clients
  <2>2. connections' \in Indexes!Maps(Conns, Clients)
    BY <2>1, IndexTypes, MapsIntro
  <2>3. galleries' \in Indexes!Maps(Galleries, SUBSET Conns)
    BY <1>0, TakeOutMap DEF Indexes!TypeOK
  <2> QED
    BY <1>0, <2>2, <2>3 DEF Indexes!TypeOK, Clients
<1>2. (Indexes!ClientsIndexed)'
  BY <1>0, IndexTypes DEF Indexes!IndexesAgree, Indexes!ClientsIndexed, Indexes!Remove,
                          Clients
<1>3. (Indexes!GalleriesIndexed)'
  <2>1. CASE S = {}
    BY <1>0, <2>1, IndexTypes DEF Indexes!IndexesAgree, Indexes!GalleriesIndexed,
                                  Indexes!Remove, Clients
  <2>2. CASE S # {}
    BY <1>0, <1>a, <2>2, IndexTypes
    DEF Indexes!IndexesAgree, Indexes!GalleriesIndexed, Indexes!Remove, Indexes!TakeOut,
        Clients
  <2> QED
    BY <2>1, <2>2
<1>4. (Indexes!NoEmptyEntry)'
  BY <1>0, IndexTypes DEF Indexes!NoEmptyEntry, Indexes!TakeOut
<1> QED
  BY <1>1, <1>2, <1>3, <1>4 DEF Indexes!IndexesAgree

\* A forgotten connection leaves all three indexes.
LEMMA ForgetInv ==
    ASSUME IndexInv, NEW c \in DOMAIN connections, Indexes!Forget(c), notified' \subseteq notified
    PROVE  IndexInv'
<1> USE DEF IndexInv, Indexes!Forget
<1>1. (Indexes!TypeOK)'
  BY WithoutMap, TakeOutMap DEF Indexes!TypeOK
<1>2. (Indexes!ClientsIndexed)'
  BY IndexTypes DEF Indexes!IndexesAgree, Indexes!ClientsIndexed, Indexes!Without,
                    Indexes!TakeOut, Clients
<1>3. (Indexes!GalleriesIndexed)'
  BY IndexTypes DEF Indexes!IndexesAgree, Indexes!GalleriesIndexed, Indexes!Without,
                    Indexes!TakeOut, Clients
<1>4. (Indexes!NoEmptyEntry)'
  BY IndexTypes DEF Indexes!NoEmptyEntry, Indexes!TakeOut
<1> QED
  BY <1>1, <1>2, <1>3, <1>4 DEF Indexes!IndexesAgree

\* Every step preserves the invariant.
LEMMA NextIndexInv == IndexInv /\ [Indexes!Next]_(Indexes!vars) => IndexInv'
<1> SUFFICES ASSUME IndexInv, [Indexes!Next]_(Indexes!vars)
             PROVE  IndexInv'
  OBVIOUS
<1>1. ASSUME NEW c \in Conns, NEW u \in Users, Indexes!CreateClient(c, u)
      PROVE  IndexInv'
  BY <1>1, CreateClientInv
<1>2. ASSUME NEW c \in Conns, NEW g \in Galleries, Indexes!Subscribe(c, g)
      PROVE  IndexInv'
  BY <1>2, SubscribeInv
<1>3. ASSUME NEW g \in Galleries, NEW u \in Users, Indexes!AddGalleryForClient(g, u)
      PROVE  IndexInv'
  BY <1>3, AddGalleryForClientInv
<1>4. ASSUME NEW g \in Galleries, NEW u \in Users, Indexes!Unsubscribe(g, u)
      PROVE  IndexInv'
  BY <1>4, UnsubscribeInv
<1>5. ASSUME NEW c \in Conns, Indexes!RemoveClient(c)
      PROVE  IndexInv'
  BY <1>5, ForgetInv DEF Indexes!RemoveClient
<1>6. CASE /\ notified' \subseteq Conns
           /\ UNCHANGED <<connections, clients, galleries>>
  BY <1>6 DEF IndexInv, Indexes!TypeOK, Indexes!IndexesAgree, Indexes!ClientsIndexed,
              Indexes!GalleriesIndexed, Indexes!NoEmptyEntry
<1>7. ASSUME NEW c \in Conns, Indexes!SendOk(c) \/ Indexes!SendFails(c)
      PROVE  IndexInv'
  <2>1. notified' \subseteq notified
    BY <1>7 DEF Indexes!SendOk, Indexes!SendFails
  <2>2. notified' \subseteq Conns
    BY <2>1 DEF IndexInv, Indexes!TypeOK
  <2>3. CASE c \in DOMAIN connections /\ Indexes!SendFails(c)
    BY <2>1, <2>3, ForgetInv DEF Indexes!SendFails
  <2>4. CASE ~(c \in DOMAIN connections /\ Indexes!SendFails(c))
    BY <1>6, <1>7, <2>2, <2>4 DEF Indexes!SendOk, Indexes!SendFails
  <2> QED
    BY <2>3, <2>4
<1>8. ASSUME NEW g \in Galleries, Indexes!Notify(g)
      PROVE  IndexInv'
  <2>1. notified' \subseteq Conns
    BY <1>8, IndexTypes DEF IndexInv, Indexes!Notify
  <2> QED
    BY <1>6, <1>8, <2>1 DEF Indexes!Notify
<1>9. CASE UNCHANGED Indexes!vars
  BY <1>6, <1>9 DEF Indexes!vars, IndexInv, Indexes!TypeOK
<1> QED
  BY <1>1, <1>2, <1>3, <1>4, <1>5, <1>7, <1>8, <1>9 DEF Indexes!Next

\* The registry's maps have their types.
THEOREM IndexTypeCorrect == Indexes!Spec => []Indexes!TypeOK
<1>1. IndexInv => Indexes!TypeOK
  BY DEF IndexInv
<1> QED
  BY InitIndexInv, NextIndexInv, <1>1, PTL DEF Indexes!Spec

\* The three indexes always agree, and keep no key they do not need.
THEOREM IndexesAlwaysExact == Indexes!Spec => []Indexes!IndexesExact
<1>1. IndexInv => Indexes!IndexesExact
  BY DEF IndexInv, Indexes!IndexesExact
<1> QED
  BY InitIndexInv, NextIndexInv, <1>1, PTL DEF Indexes!Spec
-----------------------------------------------------------------------------
(* The registry implements Subscriptions.                                  *)

\* The two relations as the client objects record them.
View ==
    /\ Indexes!Owners = {p \in Conns \X Users :
           p[1] \in DOMAIN connections /\ connections[p[1]].user = p[2]}
    /\ Indexes!Subscribed = {p \in Conns \X Galleries :
           p[1] \in DOMAIN connections /\ p[2] \in connections[p[1]].galleries}

\* The indexes and the client objects record the same relations.
LEMMA ViewOfInv == IndexInv => View
<1> SUFFICES ASSUME IndexInv
             PROVE  View
  OBVIOUS
<1>1. ASSUME NEW c \in Conns, NEW u \in Users
      PROVE  c \in Indexes!Entry(clients, u)
                <=> c \in DOMAIN connections /\ connections[c].user = u
  BY DEF IndexInv, Indexes!IndexesAgree, Indexes!ClientsIndexed, Indexes!Entry
<1>2. ASSUME NEW c \in Conns, NEW g \in Galleries
      PROVE  c \in Indexes!Entry(galleries, g)
                <=> c \in DOMAIN connections /\ g \in connections[c].galleries
  BY DEF IndexInv, Indexes!IndexesAgree, Indexes!GalleriesIndexed, Indexes!Entry
<1> QED
  BY <1>1, <1>2 DEF View, Indexes!Owners, Indexes!Subscribed

\* The empty registry is the empty pair of relations.
LEMMA InitImplements == Indexes!Init => Indexes!Abstract!Init
  BY DEF Indexes!Init, Indexes!Abstract!Init, Indexes!Owners, Indexes!Subscribed,
         Indexes!Entry, Indexes!EmptyMap

\* A step of the registry is a step of Subscriptions or changes neither relation.
LEMMA NextImplements ==
    IndexInv /\ IndexInv' /\ [Indexes!Next]_(Indexes!vars)
      => [Indexes!Abstract!Next]_(Indexes!Abstract!vars)
<1> SUFFICES ASSUME IndexInv, IndexInv', [Indexes!Next]_(Indexes!vars)
             PROVE  [Indexes!Abstract!Next]_(Indexes!Abstract!vars)
  OBVIOUS
<1>0. View /\ View'
  <2>1. View
    BY ViewOfInv
  <2>2. IndexInv' => View'
    BY ViewOfInv, PTL
  <2> QED
    BY <2>1, <2>2
<1> USE DEF IndexInv
<1>1. ASSUME NEW c \in Conns, NEW u \in Users, Indexes!CreateClient(c, u)
      PROVE  Indexes!Abstract!Connect(c, u)
  <2>1. \A v \in Users : <<c, v>> \notin Indexes!Owners
    BY <1>0, <1>1 DEF View, Indexes!CreateClient
  <2>2. (Indexes!Owners)' = Indexes!Owners \cup {<<c, u>>}
    BY <1>0, <1>1, IndexTypes DEF View, Indexes!CreateClient, Indexes!Put, Clients
  <2>3. (Indexes!Subscribed)' = Indexes!Subscribed
    BY <1>1 DEF Indexes!CreateClient, Indexes!Subscribed
  <2> QED
    BY <2>1, <2>2, <2>3 DEF Indexes!Abstract!Connect
<1>2. ASSUME NEW c \in Conns, NEW g \in Galleries, Indexes!Subscribe(c, g)
      PROVE  Indexes!Abstract!Subscribe(c, g)
  <2>1. \E u \in Users : <<c, u>> \in Indexes!Owners
    BY <1>0, <1>2, IndexTypes DEF View, Indexes!Subscribe, Clients
  <2>2. (Indexes!Subscribed)' = Indexes!Subscribed \cup {<<c, g>>}
    BY <1>0, <1>2, IndexTypes DEF View, Indexes!Subscribe, Clients
  <2>3. (Indexes!Owners)' = Indexes!Owners
    BY <1>2 DEF Indexes!Subscribe, Indexes!Owners
  <2> QED
    BY <2>1, <2>2, <2>3 DEF Indexes!Abstract!Subscribe
<1> DEFINE OfUser(u) == {c \in Conns : <<c, u>> \in Indexes!Owners}
<1>a. ASSUME NEW u \in DOMAIN clients
      PROVE  OfUser(u) = clients[u]
  BY IndexTypes DEF Indexes!Owners, Indexes!Entry
<1>3. ASSUME NEW g \in Galleries, NEW u \in Users, Indexes!AddGalleryForClient(g, u)
      PROVE  Indexes!Abstract!UserJoins(u, g)
  <2>1. u \in DOMAIN clients /\ OfUser(u) = clients[u]
    BY <1>3, <1>a DEF Indexes!AddGalleryForClient
  <2>2. clients[u] \subseteq DOMAIN connections
    BY <2>1 DEF Indexes!IndexesAgree, Indexes!ClientsIndexed
  <2>3. (Indexes!Subscribed)' = Indexes!Subscribed \cup {<<c, g>> : c \in clients[u]}
    BY <1>0, <1>3, <2>1, <2>2, IndexTypes
    DEF View, Indexes!AddGalleryForClient, Indexes!Add, Clients
  <2>4. (Indexes!Owners)' = Indexes!Owners
    BY <1>3 DEF Indexes!AddGalleryForClient, Indexes!Owners
  <2> QED
    BY <2>1, <2>3, <2>4 DEF Indexes!Abstract!UserJoins, Indexes!Abstract!Of
<1>4. ASSUME NEW g \in Galleries, NEW u \in Users, Indexes!Unsubscribe(g, u)
      PROVE  Indexes!Abstract!UserLeaves(u, g)
  <2>1. u \in DOMAIN clients /\ OfUser(u) = clients[u]
    BY <1>4, <1>a DEF Indexes!Unsubscribe
  <2>2. clients[u] \subseteq DOMAIN connections
    BY <2>1 DEF Indexes!IndexesAgree, Indexes!ClientsIndexed
  <2>3. (Indexes!Subscribed)' = Indexes!Subscribed \ {<<c, g>> : c \in clients[u]}
    BY <1>0, <1>4, <2>1, <2>2, IndexTypes
    DEF View, Indexes!Unsubscribe, Indexes!Remove, Clients
  <2>4. (Indexes!Owners)' = Indexes!Owners
    BY <1>4 DEF Indexes!Unsubscribe, Indexes!Owners
  <2> QED
    BY <2>1, <2>3, <2>4 DEF Indexes!Abstract!UserLeaves, Indexes!Abstract!Of
<1>5. ASSUME NEW c \in DOMAIN connections, Indexes!Forget(c)
      PROVE  Indexes!Abstract!Disconnect(c)
  <2>1. (Indexes!Owners)' = Indexes!Owners \ {<<c, u>> : u \in Users}
    BY <1>0, <1>5, IndexTypes DEF View, Indexes!Forget, Indexes!Without, Clients
  <2>2. (Indexes!Subscribed)' = Indexes!Subscribed \ {<<c, g>> : g \in Galleries}
    BY <1>0, <1>5, IndexTypes DEF View, Indexes!Forget, Indexes!Without, Clients
  <2> QED
    BY <2>1, <2>2 DEF Indexes!Abstract!Disconnect
<1>6. CASE UNCHANGED <<connections, clients, galleries>>
  BY <1>6 DEF Indexes!Abstract!vars, Indexes!Owners, Indexes!Subscribed
<1>7. ASSUME NEW c \in Conns, Indexes!SendFails(c)
      PROVE  Indexes!Abstract!Disconnect(c) \/ UNCHANGED <<connections, clients, galleries>>
  BY <1>5, <1>7 DEF Indexes!SendFails
<1> QED
  BY <1>1, <1>2, <1>3, <1>4, <1>5, <1>6, <1>7, IndexTypes
  DEF Indexes!Next, Indexes!vars, Indexes!Abstract!Next, Indexes!RemoveClient,
      Indexes!SendOk, Indexes!Notify

\* The registry with its three indexes implements the two relations.
THEOREM RegistryRefines == Indexes!Spec => Indexes!ImplementsSubscriptions
<1> QED
  BY InitIndexInv, NextIndexInv, InitImplements, NextImplements, PTL
  DEF Indexes!Spec, Indexes!ImplementsSubscriptions, Indexes!Abstract!Spec

-----------------------------------------------------------------------------
(* The invariant, part by part.                                            *)

\* A Notify that has somebody to send to sends an event.
SendsEvents == \A i \in Replicas : toSend[i] # {} => sending[i] # 0

\* The number of an event is that of one published, wherever it is.
InBounds(s) == \A k \in 1 .. Len(s) : s[k] <= Len(sent)

PublishedOnly ==
    /\ InBounds(queue)
    /\ \A i \in Replicas :
         /\ InBounds(held[i])
         /\ InBounds(inbox[i])
         /\ sending[i] <= Len(sent)
    /\ \A c \in Conns : InBounds(got[c])
    /\ \A n \in Numbers : via[n] # NoOne => n <= Len(sent)

\* Subscriptions come from what was resolved.
SubsResolved ==
    /\ \A c \in Conns : stream[c].todo \subseteq stream[c].resolved
    /\ \A p \in subs : p[2] \in stream[p[1]].resolved

\* A stream that is not registered yet has received nothing and is in no snapshot.
NewStreams ==
    \A c \in Conns :
        /\ stream[c].at \in {"off", "resolving"} => got[c] = <<>>
        /\ stream[c].at = "resolving" => \A i \in Replicas : c \notin toSend[i]

\* A snapshot outlives registry entries and RPCs, but what it names is a stream of
\* the replica that had the gallery resolved, or no stream.
Snapshots ==
    \A i \in Replicas : \A c \in toSend[i] : stream[c] # Off =>
        /\ stream[c].replica = i
        /\ sent[sending[i]] \in stream[c].resolved

StreamInv ==
    /\ TypeOK
    /\ SendsEvents
    /\ PublishedOnly
    /\ RegisteredHasHandler
    /\ SubsResolved
    /\ NewStreams
    /\ Snapshots
    /\ OnlyResolved

\* Until a replica fails, an event is in one place on its way to the fan-out, ...
Increasing(s) == \A j, k \in 1 .. Len(s) : j < k => s[j] < s[k]

\* ... held events wait for their fan-out, but for one that waits for its Ack, ...
Waits(i, k) == k \in 1 .. Len(held[i]) /\ (handling[i] = "acking" => k # 1)

OnePlace ==
    /\ Increasing(queue)
    /\ \A i \in Replicas : Increasing(held[i])
    /\ \A k \in 1 .. Len(queue) : via[queue[k]] = NoOne
    /\ \A i \in Replicas : \A k \in 1 .. Len(held[i]) : \A l \in 1 .. Len(queue) :
          held[i][k] < queue[l]
    /\ \A i, j \in Replicas : \A k \in 1 .. Len(held[i]) : \A l \in 1 .. Len(held[j]) :
          held[i][k] = held[j][l] => i = j
    /\ \A i \in Replicas : \A k \in 1 .. Len(held[i]) :
          IF Waits(i, k) THEN via[held[i][k]] = NoOne ELSE via[held[i][k]] = i

\* ... and a replica fans events out in the order of their publication.
FansOutInOrder ==
    \A n \in Numbers :
        /\ via[n] # NoOne => \A l \in 1 .. Len(queue) : n < queue[l]
        /\ \A i \in Replicas : via[n] = i => \A k \in 1 .. Len(held[i]) :
              Waits(i, k) => n < held[i][k]

\* Event m may be sent to a stream before event n, when w says who published what
\* and r how often again.
Before(w, r, m, n) ==
    r[n] > 0 \/ (m # n /\ (w[m] = w[n] => m < n))

Ordered(w, r, s) ==
    /\ \A k \in 1 .. Len(s) : w[s[k]] # NoOne
    /\ \A j, k \in 1 .. Len(s) : j < k => Before(w, r, s[j], s[k])

AllBefore(w, r, s, n) == \A k \in 1 .. Len(s) : Before(w, r, s[k], n)

BeforeAll(w, r, m, s) == \A k \in 1 .. Len(s) : Before(w, r, m, s[k])

\* What has been sent, is being sent and is still to be applied, in this order.
Pipeline ==
    /\ \A i \in Replicas :
         /\ Ordered(via, repeats, inbox[i])
         /\ toSend[i] # {} => /\ via[sending[i]] # NoOne
                              /\ BeforeAll(via, repeats, sending[i], inbox[i])
    /\ \A c \in Conns :
         /\ Ordered(via, repeats, got[c])
         /\ stream[c] # Off =>
              LET i == stream[c].replica
              IN  /\ \A k \in 1 .. Len(inbox[i]) :
                        AllBefore(via, repeats, got[c], inbox[i][k])
                  /\ c \in toSend[i] => AllBefore(via, repeats, got[c], sending[i])

OrderInv == failures = 0 => OnePlace /\ FansOutInOrder /\ Pipeline

Inv == StreamInv /\ OrderInv

-----------------------------------------------------------------------------
(* Sequences, streams and the count of failures.                           *)

LEMMA HeadAndTail ==
    ASSUME NEW S, NEW s \in Seq(S), s # <<>>
    PROVE  /\ Len(s) \in Nat /\ Len(s) >= 1
           /\ Head(s) \in S /\ Head(s) = s[1]
           /\ Tail(s) \in Seq(S)
           /\ Len(Tail(s)) = Len(s) - 1
           /\ \A k \in 1 .. Len(Tail(s)) : k + 1 \in 1 .. Len(s) /\ Tail(s)[k] = s[k + 1]
<1>1. Len(s) \in Nat /\ Len(s) >= 1
  BY EmptySeq, LenProperties
<1>2. /\ Head(s) \in S /\ Head(s) = s[1] /\ Tail(s) \in Seq(S)
      /\ Len(Tail(s)) = Len(s) - 1
  BY HeadTailProperties, ElementOfSeq, <1>1
<1> QED
  BY <1>1, <1>2, HeadTailProperties

LEMMA Appended ==
    ASSUME NEW S, NEW s \in Seq(S), NEW x \in S
    PROVE  /\ Append(s, x) \in Seq(S) /\ Append(s, x) # <<>>
           /\ Len(s) \in Nat
           /\ Len(Append(s, x)) = Len(s) + 1
           /\ Append(s, x)[Len(s) + 1] = x
           /\ \A k \in 1 .. Len(s) : Append(s, x)[k] = s[k]
  BY AppendProperties, LenProperties

LEMMA Joined ==
    ASSUME NEW S, NEW s \in Seq(S), NEW t \in Seq(S)
    PROVE  /\ s \o t \in Seq(S)
           /\ Len(s) \in Nat /\ Len(t) \in Nat
           /\ Len(s \o t) = Len(s) + Len(t)
           /\ \A k \in 1 .. Len(s) : (s \o t)[k] = s[k]
           /\ \A k \in Len(s) + 1 .. Len(s) + Len(t) : (s \o t)[k] = t[k - Len(s)]
  BY ConcatProperties, LenProperties

LEMMA OffIsNoStream ==
    /\ Off \notin Streams
    /\ Off.at = "off" /\ Off.resolved = {} /\ Off.todo = {} /\ Off.replica = NoOne
  BY NoOneAssumption DEF Off, Streams

\* A handler that runs has a stream, on a replica.
LEMMA Running ==
    ASSUME TypeOK, NEW c \in Conns, stream[c] # Off
    PROVE  stream[c] \in Streams /\ stream[c].replica \in Replicas /\ stream[c].at # "off"
  BY DEF TypeOK, Streams

LEMMA FailuresCounted ==
    ASSUME TypeOK, FaultsLeft
    PROVE  failures + 1 \in 0 .. MaxFailures
<1>1. IsFiniteSet(lost \cup Repeated)
  <2>1. IsFiniteSet(Numbers)
    BY FS_Interval, BoundsAssumption DEF Numbers
  <2>2. lost \cup Repeated \subseteq Numbers
    BY DEF TypeOK, Repeated
  <2> QED
    BY <2>1, <2>2, FS_Subset
<1>2. Cardinality(lost \cup Repeated) \in Nat
  BY <1>1, FS_CardinalityType
<1> QED
  BY <1>2, BoundsAssumption DEF TypeOK, FaultsLeft
-----------------------------------------------------------------------------
(* Types.                                                                  *)

LEMMA InitTypes == Init => TypeOK
  BY BoundsAssumption DEF Init, TypeOK, Numbers

LEMMA NextTypes == TypeOK /\ SendsEvents /\ [Next]_vars => TypeOK'
<1> SUFFICES ASSUME TypeOK, SendsEvents, [Next]_vars
             PROVE  TypeOK'
  OBVIOUS
<1> USE DEF TypeOK, queueVars, fanoutVars, streamVars, historyVars
<1>1. ASSUME NEW g \in Galleries, PublishEvent(g)
      PROVE  TypeOK'
  <2>1. /\ Len(sent) + 1 \in Numbers
        /\ sent' \in Seq(Galleries) /\ Len(sent') <= MaxEvents
    BY <1>1, Appended, BoundsAssumption DEF PublishEvent, Numbers
  <2>2. queue' \in Seq(Numbers)
    BY <1>1, <2>1, Appended DEF PublishEvent
  <2> QED
    BY <1>1, <2>1, <2>2 DEF PublishEvent
<1>2. ASSUME NEW c \in Conns, NEW u \in Users, NEW i \in Replicas, Open(c, u, i)
      PROVE  TypeOK'
  BY <1>2 DEF Open, Off, Streams
<1>3. ASSUME NEW c \in Conns, HandlerStep(c) \/ ResolveFails(c) \/ Disconnect(c)
      PROVE  TypeOK'
  <2>1. stream[c] \in Streams
    BY <1>3, Running, OffIsNoStream
    DEF HandlerStep, Resolve, Wait, Return, SubscribeTo, ResolveFails, Disconnect, Alive
  <2>2. CASE Resolve(c)
    <3>1. PICK mine \in SUBSET Galleries :
             stream' = [stream EXCEPT ![c].at = "registering", ![c].resolved = mine,
                                      ![c].todo = mine]
      BY <2>2 DEF Resolve, ListGalleriesByMember
    <3>2. [stream[c] EXCEPT !.at = "registering", !.resolved = mine, !.todo = mine]
             \in Streams
      BY <2>1 DEF Streams
    <3> QED
      BY <2>2, <3>1, <3>2 DEF Resolve
  <2>3. CASE Wait(c)
    BY <2>1, <2>3 DEF Wait, Streams
  <2>4. CASE Return(c)
    BY <2>1, <2>4 DEF Return
  <2>5. ASSUME NEW g \in Galleries, SubscribeTo(c, g)
        PROVE  TypeOK'
    <3>1. [stream[c] EXCEPT !.todo = @ \ {g}] \in Streams
      BY <2>1 DEF Streams
    <3>2. subs' \subseteq Conns \X Galleries
      BY <2>5 DEF SubscribeTo
    <3> QED
      BY <2>5, <3>1, <3>2 DEF SubscribeTo
  <2>6. CASE ResolveFails(c)
    BY <2>1, <2>6 DEF ResolveFails
  <2>7. CASE Disconnect(c)
    BY <2>1, <2>7 DEF Disconnect, Streams
  <2> QED
    BY <1>3, <2>2, <2>3, <2>4, <2>5, <2>6, <2>7 DEF HandlerStep
<1>4. ASSUME NEW i \in Replicas, Deliver(i)
      PROVE  TypeOK'
  <2>1. /\ Head(queue) \in Numbers /\ Tail(queue) \in Seq(Numbers)
        /\ Append(held[i], Head(queue)) \in Seq(Numbers)
        /\ Append(held[i], Head(queue)) # <<>>
        /\ Len(Append(held[i], Head(queue))) = Len(held[i]) + 1
        /\ Len(held[i]) \in Nat
    BY <1>4, HeadAndTail, Appended DEF Deliver
  <2>3. held' = [held EXCEPT ![i] = Append(held[i], Head(queue))]
    BY <1>4 DEF Deliver
  <2>4. Len(Append(held[i], Head(queue))) <= Prefetch
    BY <1>4, <2>1, BoundsAssumption DEF Deliver
  <2>5. held' \in [Replicas -> Seq(Numbers)]
    BY <2>1, <2>3
  <2>6. \A j \in Replicas : Len(held'[j]) <= Prefetch /\ (handling[j] # "none" => held'[j] # <<>>)
    BY <2>1, <2>3, <2>4
  <2> QED
    BY <1>4, <2>1, <2>5, <2>6 DEF Deliver
<1>p. ASSUME NEW n \in Numbers, NEW S \in SUBSET Replicas, Pass(n, S)
      PROVE  inbox' \in [Replicas -> Seq(Numbers)]
  BY <1>p, Appended DEF Pass
<1>5. ASSUME NEW i \in Replicas, FanOut(i)
      PROVE  TypeOK'
  <2>1. Head(held[i]) \in Numbers /\ held[i] # <<>>
    BY <1>5, HeadAndTail DEF FanOut, HasNotification
  <2>2. inbox' \in [Replicas -> Seq(Numbers)]
    BY <1>5, <1>p, <2>1 DEF FanOut
  <2>3. lost' \subseteq Numbers
    BY <1>5, <2>1 DEF FanOut, LostInRedis
  <2> QED
    BY <1>5, <2>1, <2>2, <2>3 DEF FanOut
<1>6. ASSUME NEW i \in Replicas, FanOutFails(i) \/ Ack(i)
      PROVE  TypeOK'
  <2>1. held[i] # <<>>
    BY <1>6 DEF FanOutFails, HasNotification, Ack
  <2>2. /\ Head(held[i]) \in Numbers /\ Tail(held[i]) \in Seq(Numbers)
        /\ Len(Tail(held[i])) <= Prefetch
    BY <2>1, HeadAndTail, BoundsAssumption
  <2>3. CASE FanOutFails(i)
    <3>1. inbox' \in [Replicas -> Seq(Numbers)]
      BY <2>3, <1>p, <2>2 DEF FanOutFails
    <3>2. lost' \subseteq Numbers
      BY <2>3, <2>2 DEF FanOutFails, LostInRedis
    <3> QED
      BY <2>2, <2>3, <3>1, <3>2 DEF FanOutFails
  <2>4. CASE Ack(i)
    BY <2>2, <2>4 DEF Ack
  <2> QED
    BY <1>6, <2>3, <2>4
<1>g. ASSUME NEW i \in Replicas, GetGallery(i) \/ GalleryAnswers(i)
      PROVE  TypeOK'
  BY <1>g DEF GetGallery, GalleryAnswers
<1>r. ASSUME NEW n \in Numbers, Repeat(n)
      PROVE  TypeOK'
  <2>1. inbox' \in [Replicas -> Seq(Numbers)]
    BY <1>p, <1>r DEF Repeat
  <2>2. repeats' \in [Numbers -> 0 .. MaxRetries]
    BY <1>r, BoundsAssumption DEF Repeat
  <2> QED
    BY <1>r, <2>1, <2>2 DEF Repeat
<1>7. ASSUME NEW i \in Replicas, Apply(i)
      PROVE  TypeOK'
  <2>1. Head(inbox[i]) \in Numbers /\ Tail(inbox[i]) \in Seq(Numbers)
    BY <1>7, HeadAndTail DEF Apply
  <2>2. toSend' \in [Replicas -> SUBSET Conns]
    BY <1>7 DEF Apply
  <2>3. sending' \in [Replicas -> 0 .. MaxEvents]
    <3>1. PICK x \in {0, Head(inbox[i])} : sending' = [sending EXCEPT ![i] = x]
      BY <1>7 DEF Apply
    <3>2. x \in 0 .. MaxEvents
      BY <2>1, <3>1, BoundsAssumption DEF Numbers
    <3> QED
      BY <3>1, <3>2
  <2> QED
    BY <1>7, <2>1, <2>2, <2>3 DEF Apply
<1>8. ASSUME NEW i \in Replicas, NEW c \in Conns, Send(i, c)
      PROVE  TypeOK'
  <2>1. registered' \subseteq Conns /\ subs' \subseteq Conns \X Galleries
    BY <1>8 DEF Send
  <2>2. sending' \in [Replicas -> 0 .. MaxEvents]
    BY <1>8, BoundsAssumption DEF Send
  <2>3. sending[i] \in Numbers
    BY <1>8, BoundsAssumption DEF Send, SendsEvents, Numbers
  <2>4. Append(got[c], sending[i]) \in Seq(Numbers)
    BY <2>3, Appended
  <2> QED
    BY <1>8, <2>1, <2>2, <2>4 DEF Send
<1>9. ASSUME NEW i \in Replicas, Start(i)
      PROVE  TypeOK'
  BY <1>9 DEF Start
<1>10. ASSUME NEW i \in Replicas, Crash(i) \/ Drop(i)
       PROVE  TypeOK'
  <2>1. queue' \in Seq(Numbers)
    <3>1. held[i] \o queue \in Seq(Numbers)
      BY Joined
    <3>2. queue' = held[i] \o queue \/ queue' = queue
      BY <1>10 DEF Crash, Drop, GiveBack
    <3> QED
      BY <3>1, <3>2
  <2>2. failures + 1 \in 0 .. MaxFailures
    BY <1>10, FailuresCounted DEF Crash, Drop
  <2>3. CASE Crash(i)
    BY <2>1, <2>2, <2>3, BoundsAssumption DEF Crash
  <2>4. CASE Drop(i)
    <3> DEFINE kept == IF handling[i] = "none" THEN <<>> ELSE <<Head(held[i])>>
    <3>1. /\ kept \in Seq(Numbers) /\ Len(kept) <= Prefetch
          /\ handling[i] # "none" => kept # <<>>
      BY HeadAndTail, BoundsAssumption
    <3>2. held' = [held EXCEPT ![i] = kept]
      BY <2>4 DEF Drop
    <3> HIDE DEF kept
    <3>3. held' \in [Replicas -> Seq(Numbers)]
      BY <3>1, <3>2
    <3>4. \A j \in Replicas : Len(held'[j]) <= Prefetch /\ (handling[j] # "none" => held'[j] # <<>>)
      BY <3>1, <3>2
    <3> QED
      BY <2>1, <2>2, <2>4, <3>3, <3>4 DEF Drop
  <2> QED
    BY <1>10, <2>3, <2>4
<1>11. CASE UNCHANGED vars
  BY <1>11 DEF vars
<1> QED
  BY <1>1, <1>2, <1>3, <1>4, <1>5, <1>6, <1>7, <1>8, <1>9, <1>10, <1>11, <1>g, <1>r
  DEF Next, ReplicaStep

-----------------------------------------------------------------------------
(* Events are numbers of published ones.                                   *)

LEMMA AppendInBounds ==
    ASSUME NEW s \in Seq(Numbers), NEW n \in Numbers, InBounds(s), n <= Len(sent)
    PROVE  InBounds(Append(s, n))
<1>1. ASSUME NEW k \in 1 .. Len(Append(s, n))
      PROVE  Append(s, n)[k] <= Len(sent)
  <2>1. k \in 1 .. Len(s) \/ k = Len(s) + 1
    BY Appended
  <2> QED
    BY <2>1, Appended DEF InBounds
<1> QED
  BY <1>1 DEF InBounds

LEMMA TailInBounds ==
    ASSUME NEW s \in Seq(Numbers), s # <<>>, InBounds(s)
    PROVE  InBounds(Tail(s)) /\ Head(s) <= Len(sent)
  BY HeadAndTail DEF InBounds

LEMMA JoinInBounds ==
    ASSUME NEW s \in Seq(Numbers), NEW t \in Seq(Numbers), InBounds(s), InBounds(t)
    PROVE  InBounds(s \o t)
<1>1. ASSUME NEW k \in 1 .. Len(s \o t)
      PROVE  (s \o t)[k] <= Len(sent)
  <2>1. k \in 1 .. Len(s) \/ (k \in Len(s) + 1 .. Len(s) + Len(t) /\ k - Len(s) \in 1 .. Len(t))
    BY Joined
  <2> QED
    BY <2>1, Joined DEF InBounds
<1> QED
  BY <1>1 DEF InBounds

LEMMA NextPublished == StreamInv /\ [Next]_vars => (SendsEvents /\ PublishedOnly)'
<1> SUFFICES ASSUME StreamInv, [Next]_vars
             PROVE  (SendsEvents /\ PublishedOnly)'
  OBVIOUS
<1>t. TypeOK /\ SendsEvents /\ PublishedOnly
  BY DEF StreamInv
<1>e. InBounds(<<>>)
  BY DEF InBounds
<1> USE DEF queueVars, fanoutVars, streamVars, historyVars
<1>1. ASSUME NEW g \in Galleries, PublishEvent(g)
      PROVE  (SendsEvents /\ PublishedOnly)'
  <2>1. Len(sent) \in Nat /\ Len(sent') = Len(sent) + 1 /\ Len(sent) + 1 \in Numbers
    BY <1>1, <1>t, Appended, BoundsAssumption DEF PublishEvent, TypeOK, Numbers
  <2>2. ASSUME NEW s \in Seq(Numbers), InBounds(s)
        PROVE  \A k \in 1 .. Len(s) : s[k] <= Len(sent')
    <3>1. ASSUME NEW k \in 1 .. Len(s)
          PROVE  s[k] <= Len(sent')
      <4>1. s[k] \in Numbers
        BY ElementOfSeq
      <4> QED
        BY <2>1, <2>2, <4>1 DEF InBounds, Numbers
    <3> QED
      BY <3>1
  <2>3. InBounds(queue)'
    <3>1. queue' = Append(queue, Len(sent) + 1) /\ queue \in Seq(Numbers) /\ InBounds(queue)
      BY <1>1, <1>t DEF PublishEvent, TypeOK, PublishedOnly
    <3>2. ASSUME NEW k \in 1 .. Len(queue')
          PROVE  queue'[k] <= Len(sent')
      <4>1. k \in 1 .. Len(queue) \/ k = Len(queue) + 1
        BY <3>1, <2>1, Appended
      <4> QED
        BY <2>1, <2>2, <3>1, <4>1, Appended
    <3> QED
      BY <3>2 DEF InBounds
  <2>4. ASSUME NEW i \in Replicas
        PROVE  InBounds(held[i])' /\ InBounds(inbox[i])' /\ sending'[i] <= Len(sent')
    <3>1. held'[i] = held[i] /\ inbox'[i] = inbox[i] /\ sending'[i] = sending[i]
      BY <1>1 DEF PublishEvent
    <3>2. /\ held[i] \in Seq(Numbers) /\ InBounds(held[i])
          /\ inbox[i] \in Seq(Numbers) /\ InBounds(inbox[i])
          /\ sending[i] \in Nat /\ sending[i] <= Len(sent)
      BY <1>t, BoundsAssumption DEF TypeOK, PublishedOnly
    <3>3. InBounds(held[i])' /\ InBounds(inbox[i])'
      BY <2>2, <3>1, <3>2 DEF InBounds
    <3>4. sending'[i] <= Len(sent')
      BY <2>1, <3>1, <3>2
    <3> QED
      BY <3>3, <3>4
  <2>5. ASSUME NEW c \in Conns
        PROVE  InBounds(got[c])'
    <3>1. got'[c] = got[c] /\ got[c] \in Seq(Numbers) /\ InBounds(got[c])
      BY <1>1, <1>t DEF PublishEvent, TypeOK, PublishedOnly
    <3> QED
      BY <2>2, <3>1 DEF InBounds
  <2>6. SendsEvents'
    BY <1>1, <1>t DEF PublishEvent, SendsEvents
  <2>7. \A n \in Numbers : via'[n] # NoOne => n <= Len(sent')
    BY <1>1, <1>t, <2>1 DEF PublishEvent, PublishedOnly, Numbers
  <2> QED
    BY <2>3, <2>4, <2>5, <2>6, <2>7 DEF PublishedOnly
<1>2. ASSUME UNCHANGED sent,
             InBounds(queue'),
             \A i \in Replicas : /\ InBounds(held'[i])
                                 /\ InBounds(inbox'[i])
                                 /\ sending'[i] <= Len(sent)
                                 /\ toSend'[i] # {} => sending'[i] # 0,
             \A c \in Conns : InBounds(got'[c]),
             \A n \in Numbers : via'[n] # NoOne => n <= Len(sent)
      PROVE  (SendsEvents /\ PublishedOnly)'
  BY <1>2 DEF SendsEvents, PublishedOnly, InBounds
<1>3. ASSUME NEW i \in Replicas, Deliver(i)
      PROVE  (SendsEvents /\ PublishedOnly)'
  <2>1. InBounds(Tail(queue)) /\ InBounds(Append(held[i], Head(queue)))
    <3>1. queue # <<>> /\ queue \in Seq(Numbers) /\ InBounds(queue)
      BY <1>3, <1>t DEF Deliver, TypeOK, PublishedOnly
    <3>2. Head(queue) \in Numbers
      BY <3>1, HeadAndTail
    <3> QED
      BY <1>t, <3>1, <3>2, TailInBounds, AppendInBounds DEF TypeOK, PublishedOnly
  <2>2. \A j \in Replicas : InBounds(held'[j])
    BY <1>3, <1>t, <2>1 DEF Deliver, PublishedOnly, TypeOK
  <2> QED
    BY <1>2, <1>3, <1>t, <2>1, <2>2 DEF Deliver, PublishedOnly, SendsEvents
<1>p. ASSUME NEW n \in Numbers, n <= Len(sent), \E S \in SUBSET Replicas : Pass(n, S)
      PROVE  \A j \in Replicas : InBounds(inbox'[j])
  <2>1. \A j \in Replicas : InBounds(Append(inbox[j], n))
    BY <1>p, <1>t, AppendInBounds DEF TypeOK, PublishedOnly
  <2> QED
    BY <1>p, <1>t, <2>1 DEF Pass, PublishedOnly
<1>4. ASSUME NEW i \in Replicas, FanOut(i) \/ FanOutFails(i) \/ Ack(i)
      PROVE  (SendsEvents /\ PublishedOnly)'
  <2>1. held[i] # <<>> /\ held[i] \in Seq(Numbers) /\ InBounds(held[i])
    BY <1>4, <1>t DEF FanOut, FanOutFails, HasNotification, Ack, TypeOK, PublishedOnly
  <2>2. Head(held[i]) \in Numbers /\ Head(held[i]) <= Len(sent) /\ InBounds(Tail(held[i]))
    BY <2>1, HeadAndTail, TailInBounds
  <2>3. \A j \in Replicas : InBounds(inbox'[j])
    BY <1>4, <1>p, <1>t, <2>2 DEF FanOut, FanOutFails, Ack, PublishedOnly
  <2>4. \A j \in Replicas : InBounds(held'[j])
    BY <1>4, <1>t, <2>2 DEF FanOut, FanOutFails, Ack, TypeOK, PublishedOnly
  <2>5. UNCHANGED <<sent, queue, sending, toSend, got>>
    BY <1>4 DEF FanOut, FanOutFails, Ack
  <2>6. \A n \in Numbers : via'[n] # NoOne => n <= Len(sent)
    BY <1>4, <1>t, <2>2 DEF FanOut, FanOutFails, Ack, TypeOK, PublishedOnly
  <2> QED
    BY <1>2, <1>t, <2>3, <2>4, <2>5, <2>6 DEF PublishedOnly, SendsEvents
<1>5. ASSUME NEW n \in Numbers, Repeat(n)
      PROVE  (SendsEvents /\ PublishedOnly)'
  <2>1. n <= Len(sent)
    BY <1>5, <1>t DEF Repeat, PublishedOnly
  <2>2. \A j \in Replicas : InBounds(inbox'[j])
    BY <1>5, <1>p, <2>1 DEF Repeat
  <2> QED
    BY <1>2, <1>5, <1>t, <2>2 DEF Repeat, PublishedOnly, SendsEvents
<1>6. ASSUME NEW i \in Replicas, Apply(i)
      PROVE  (SendsEvents /\ PublishedOnly)'
  <2>1. inbox[i] # <<>> /\ inbox[i] \in Seq(Numbers) /\ InBounds(inbox[i])
    BY <1>6, <1>t DEF Apply, TypeOK, PublishedOnly
  <2>2. /\ Head(inbox[i]) \in Numbers /\ Head(inbox[i]) <= Len(sent) /\ Len(sent) \in Nat
        /\ InBounds(Tail(inbox[i]))
    BY <1>t, <2>1, HeadAndTail, TailInBounds, LenProperties DEF TypeOK
  <2>3. \A j \in Replicas : InBounds(inbox'[j])
    BY <1>6, <1>t, <2>2 DEF Apply, TypeOK, PublishedOnly
  <2>4. ASSUME NEW j \in Replicas
        PROVE  sending'[j] <= Len(sent) /\ (toSend'[j] # {} => sending'[j] # 0)
    <3>1. sending' = [sending EXCEPT ![i] = IF toSend'[i] = {} THEN 0 ELSE Head(inbox[i])]
      BY <1>6 DEF Apply
    <3>2. j # i => toSend'[j] = toSend[j]
      BY <1>6, <1>t DEF Apply, TypeOK
    <3> QED
      BY <1>t, <2>2, <3>1, <3>2 DEF TypeOK, PublishedOnly, SendsEvents, Numbers
  <2> QED
    BY <1>2, <1>6, <1>t, <2>3, <2>4 DEF Apply, PublishedOnly
<1>7. ASSUME NEW i \in Replicas, NEW c \in Conns, Send(i, c)
      PROVE  (SendsEvents /\ PublishedOnly)'
  <2>1. /\ sending[i] \in Numbers /\ sending[i] <= Len(sent) /\ Len(sent) \in Nat
    BY <1>7, <1>t, BoundsAssumption, LenProperties
    DEF Send, TypeOK, SendsEvents, PublishedOnly, Numbers
  <2>2. InBounds(Append(got[c], sending[i]))
    BY <1>t, <2>1, AppendInBounds DEF TypeOK, PublishedOnly
  <2>3. \A d \in Conns : InBounds(got'[d])
    BY <1>7, <1>t, <2>2 DEF Send, TypeOK, PublishedOnly
  <2>4. \A j \in Replicas : sending'[j] <= Len(sent) /\ (toSend'[j] # {} => sending'[j] # 0)
    BY <1>7, <1>t, <2>1 DEF Send, TypeOK, PublishedOnly, SendsEvents
  <2> QED
    BY <1>2, <1>7, <1>t, <2>3, <2>4 DEF Send, PublishedOnly
<1>8. ASSUME NEW i \in Replicas, Crash(i) \/ Drop(i)
      PROVE  (SendsEvents /\ PublishedOnly)'
  <2>1. InBounds(held[i] \o queue)
    BY <1>t, JoinInBounds DEF TypeOK, PublishedOnly
  <2>2. InBounds(queue') /\ UNCHANGED <<sent, via>>
    BY <1>8, <1>t, <2>1 DEF Crash, Drop, GiveBack, PublishedOnly
  <2>3. \A j \in Replicas : InBounds(held'[j]) /\ InBounds(inbox'[j])
    <3>1. CASE Crash(i)
      BY <1>t, <1>e, <3>1 DEF Crash, TypeOK, PublishedOnly
    <3>2. CASE Drop(i)
      <4>1. handling[i] # "none" => InBounds(<<Head(held[i])>>)
        <5>1. SUFFICES ASSUME handling[i] # "none"
                       PROVE  InBounds(<<Head(held[i])>>)
          OBVIOUS
        <5>2. Head(held[i]) <= Len(sent)
          BY <1>t, <5>1, TailInBounds DEF TypeOK, PublishedOnly
        <5> QED
          BY <5>2 DEF InBounds
      <4>2. InBounds(held'[i]) /\ \A j \in Replicas : j # i => held'[j] = held[j]
        BY <1>t, <1>e, <3>2, <4>1 DEF Drop, TypeOK
      <4> QED
        BY <1>t, <3>2, <4>2 DEF Drop, PublishedOnly
    <3> QED
      BY <1>8, <3>1, <3>2
  <2>4. \A j \in Replicas : sending'[j] <= Len(sent) /\ (toSend'[j] # {} => sending'[j] # 0)
    <3>1. Len(sent) \in Nat
      BY <1>t, LenProperties DEF TypeOK
    <3>2. ASSUME NEW j \in Replicas
          PROVE  \/ sending'[j] = 0 /\ toSend'[j] = {}
                 \/ sending'[j] = sending[j] /\ toSend'[j] = toSend[j]
      BY <1>8, <1>t DEF Crash, Drop, TypeOK
    <3> QED
      BY <1>t, <3>1, <3>2 DEF PublishedOnly, SendsEvents
  <2>5. \A d \in Conns : InBounds(got'[d])
    BY <1>8, <1>t, <1>e DEF Crash, Drop, PublishedOnly
  <2> QED
    BY <1>2, <1>t, <2>2, <2>3, <2>4, <2>5 DEF PublishedOnly
<1>9. ASSUME NEW c \in Conns, HandlerStep(c) \/ ResolveFails(c) \/ Disconnect(c)
      PROVE  (SendsEvents /\ PublishedOnly)'
  <2>1. \A d \in Conns : got'[d] = got[d] \/ got'[d] = <<>>
    BY <1>9, <1>t
    DEF HandlerStep, Resolve, Wait, Return, SubscribeTo, ResolveFails, Disconnect, TypeOK
  <2>2. UNCHANGED <<sent, queueVars, fanoutVars, via>>
    BY <1>9
    DEF HandlerStep, Resolve, Wait, Return, SubscribeTo, ResolveFails, Disconnect
  <2>3. \A d \in Conns : InBounds(got'[d])
    BY <1>t, <1>e, <2>1 DEF PublishedOnly
  <2> QED
    BY <1>2, <1>t, <2>2, <2>3 DEF PublishedOnly, SendsEvents
<1>10. ASSUME NEW c \in Conns, NEW u \in Users, NEW i \in Replicas, Open(c, u, i)
       PROVE  (SendsEvents /\ PublishedOnly)'
  BY <1>10, <1>2, <1>t DEF Open, PublishedOnly, SendsEvents
<1>11. ASSUME NEW i \in Replicas, Start(i)
       PROVE  (SendsEvents /\ PublishedOnly)'
  BY <1>11, <1>2, <1>t DEF Start, PublishedOnly, SendsEvents
<1>12. CASE UNCHANGED vars
  BY <1>12, <1>2, <1>t DEF vars, PublishedOnly, SendsEvents
<1>13. ASSUME NEW i \in Replicas, GetGallery(i) \/ GalleryAnswers(i)
       PROVE  (SendsEvents /\ PublishedOnly)'
  BY <1>13, <1>2, <1>t DEF GetGallery, GalleryAnswers, PublishedOnly, SendsEvents
<1> QED
  BY <1>13, <1>1, <1>3, <1>4, <1>5, <1>6, <1>7, <1>8, <1>9, <1>10, <1>11, <1>12
  DEF Next, ReplicaStep

-----------------------------------------------------------------------------
(* Streams, the registry and snapshots.                                    *)

Registrations ==
    /\ RegisteredHasHandler
    /\ SubsResolved
    /\ NewStreams
    /\ Snapshots
    /\ OnlyResolved

LEMMA NoneReceived == InRange(<<>>) = {}
  BY DEF InRange

LEMMA ReceivedAppended ==
    ASSUME NEW s \in Seq(Numbers), NEW n \in Numbers
    PROVE  \A m \in InRange(Append(s, n)) : m \in InRange(s) \/ m = n
<1>1. ASSUME NEW k \in 1 .. Len(Append(s, n))
      PROVE  Append(s, n)[k] \in InRange(s) \/ Append(s, n)[k] = n
  <2>1. k \in 1 .. Len(s) \/ k = Len(s) + 1
    BY Appended
  <2> QED
    BY <2>1, Appended DEF InRange
<1> QED
  BY <1>1 DEF InRange

\* A subscription is one of a stream that is registering or live.
LEMMA SubscribedRun ==
    ASSUME TypeOK, RegisteredHasHandler, NEW p \in subs
    PROVE  /\ p[1] \in Conns /\ p[2] \in Galleries /\ p = <<p[1], p[2]>>
           /\ stream[p[1]].at \in {"registering", "live"}
           /\ stream[p[1]] # Off
  BY DEF TypeOK, RegisteredHasHandler, Off

\* A step of the handler of c that keeps its connection.
LEMMA HandlerKeeps ==
    ASSUME StreamInv, NEW c \in Conns, NEW x \in Streams,
           stream' = [stream EXCEPT ![c] = x],
           UNCHANGED <<sent, sending, toSend, got>>,
           x.at \in {"registering", "live"}, x.todo \subseteq x.resolved,
           registered \subseteq registered', registered' \subseteq registered \cup {c},
           subs \subseteq subs', \A p \in subs' : p \in subs \/ (p[1] = c /\ c \in registered),
           \A p \in subs' : p[1] = c => p[2] \in x.resolved,
           stream[c].at \in {"registering", "live"} =>
               x.replica = stream[c].replica /\ x.resolved = stream[c].resolved,
           stream[c].at # "off"
    PROVE  Registrations'
<1>1. TypeOK /\ Registrations
  BY DEF StreamInv, Registrations
<1>2. \A d \in Conns : d # c => stream'[d] = stream[d]
  BY <1>1 DEF TypeOK
<1>3. stream'[c] = x
  BY <1>1 DEF TypeOK
<1>4. stream[c] # Off /\ (stream[c].at = "resolving" \/ stream[c].at \in {"registering", "live"})
  BY <1>1, OffIsNoStream DEF TypeOK, Streams
<1>5. RegisteredHasHandler'
  BY <1>1, <1>2, <1>3 DEF Registrations, RegisteredHasHandler, TypeOK
<1>6. SubsResolved'
  BY <1>1, <1>2, <1>3, SubscribedRun DEF Registrations, SubsResolved, RegisteredHasHandler, TypeOK
<1>7. NewStreams'
  BY <1>1, <1>2, <1>3 DEF Registrations, NewStreams, TypeOK
<1>8. Snapshots'
  BY <1>1, <1>2, <1>3, <1>4 DEF Registrations, Snapshots, NewStreams, TypeOK
<1>9. OnlyResolved'
  BY <1>1, <1>2, <1>3, <1>4, NoneReceived DEF Registrations, OnlyResolved, NewStreams
<1> QED
  BY <1>5, <1>6, <1>7, <1>8, <1>9 DEF Registrations

\* Streams of C end, and with them what the registry has of them.
LEMMA StreamsEnd ==
    ASSUME StreamInv, NEW C \in SUBSET Conns,
           stream' = [d \in Conns |-> IF d \in C THEN Off ELSE stream[d]],
           got' = [d \in Conns |-> IF d \in C THEN <<>> ELSE got[d]],
           registered' = registered \ C, subs' = subs \ SubsOf(C),
           UNCHANGED sent,
           \A i \in Replicas : \/ toSend'[i] = toSend[i] /\ sending'[i] = sending[i]
                               \/ toSend'[i] = {}
    PROVE  Registrations'
<1>1. TypeOK /\ Registrations
  BY DEF StreamInv, Registrations
<1>2. RegisteredHasHandler'
  BY <1>1 DEF Registrations, RegisteredHasHandler, TypeOK, SubsOf
<1>3. SubsResolved'
  BY <1>1, SubscribedRun, OffIsNoStream DEF Registrations, SubsResolved, SubsOf
<1>4. NewStreams'
  BY <1>1, OffIsNoStream DEF Registrations, NewStreams, TypeOK
<1>5. Snapshots'
  BY <1>1 DEF Registrations, Snapshots, TypeOK
<1>6. OnlyResolved'
  BY <1>1 DEF Registrations, OnlyResolved
<1> QED
  BY <1>2, <1>3, <1>4, <1>5, <1>6 DEF Registrations

LEMMA NextRegistrations == StreamInv /\ [Next]_vars => Registrations'
<1> SUFFICES ASSUME StreamInv, [Next]_vars
             PROVE  Registrations'
  OBVIOUS
<1>t. TypeOK /\ SendsEvents /\ PublishedOnly /\ Registrations
  BY DEF StreamInv, Registrations
<1> USE DEF queueVars, fanoutVars, streamVars, historyVars
<1>1. ASSUME UNCHANGED <<sent, sending, toSend, streamVars, got>>
      PROVE  Registrations'
  BY <1>1, <1>t
  DEF Registrations, RegisteredHasHandler, SubsResolved, NewStreams, Snapshots, OnlyResolved
<1>2. ASSUME NEW i \in Replicas,
             \/ Deliver(i) \/ GetGallery(i) \/ GalleryAnswers(i)
             \/ FanOut(i) \/ FanOutFails(i) \/ Ack(i) \/ Start(i) \/ Drop(i)
      PROVE  Registrations'
  BY <1>1, <1>2
  DEF Deliver, GetGallery, GalleryAnswers, FanOut, FanOutFails, Ack, Start, Drop
<1>3. ASSUME NEW g \in Galleries, PublishEvent(g)
      PROVE  Registrations'
  <2>1. \A n \in 1 .. Len(sent) : sent'[n] = sent[n]
    BY <1>3, <1>t, Appended DEF PublishEvent, TypeOK
  <2>2. Snapshots'
    <3>1. ASSUME NEW i \in Replicas, toSend[i] # {}
          PROVE  sending[i] \in 1 .. Len(sent)
      BY <1>t, <3>1, BoundsAssumption, LenProperties DEF TypeOK, SendsEvents, PublishedOnly
    <3> QED
      BY <1>3, <1>t, <2>1, <3>1 DEF PublishEvent, Registrations, Snapshots
  <2>3. OnlyResolved'
    <3>1. ASSUME NEW c \in Conns
          PROVE  InRange(got[c]) \subseteq 1 .. Len(sent)
      <4>1. got[c] \in Seq(Numbers) /\ InBounds(got[c]) /\ Len(sent) \in Nat
        BY <1>t, LenProperties DEF TypeOK, PublishedOnly
      <4>2. \A k \in 1 .. Len(got[c]) : got[c][k] \in Numbers
        BY <4>1, ElementOfSeq
      <4> QED
        BY <4>1, <4>2 DEF InRange, InBounds, Numbers
    <3> QED
      BY <1>3, <1>t, <2>1, <3>1 DEF PublishEvent, Registrations, OnlyResolved
  <2> QED
    BY <1>3, <1>t, <2>2, <2>3
    DEF PublishEvent, Registrations, RegisteredHasHandler, SubsResolved, NewStreams
<1>4. ASSUME NEW c \in Conns, NEW u \in Users, NEW i \in Replicas, Open(c, u, i)
      PROVE  Registrations'
  <2>1. /\ stream[c].at = "off" /\ stream'[c].at = "resolving"
        /\ stream'[c].todo = {} /\ stream'[c].resolved = {}
        /\ \A d \in Conns : d # c => stream'[d] = stream[d]
    BY <1>4, <1>t DEF Open, Off, TypeOK
  <2>2. got[c] = <<>> /\ \A p \in subs : p[1] # c
    BY <1>t, <2>1 DEF Registrations, NewStreams, RegisteredHasHandler
  <2>3. RegisteredHasHandler'
    BY <1>4, <1>t, <2>1 DEF Open, Registrations, RegisteredHasHandler, TypeOK
  <2>4. SubsResolved'
    BY <1>4, <1>t, <2>1, <2>2, SubscribedRun DEF Open, Registrations, SubsResolved
  <2>5. NewStreams'
    BY <1>4, <1>t, <2>1, <2>2 DEF Open, Registrations, NewStreams
  <2>6. Snapshots'
    BY <1>4, <1>t, <2>1 DEF Open, Registrations, Snapshots, TypeOK
  <2>7. OnlyResolved'
    BY <1>4, <1>t, <2>1, <2>2, NoneReceived DEF Open, Registrations, OnlyResolved
  <2> QED
    BY <2>3, <2>4, <2>5, <2>6, <2>7 DEF Registrations
<1>5. ASSUME NEW c \in Conns, HandlerStep(c) \/ ResolveFails(c) \/ Disconnect(c)
      PROVE  Registrations'
  <2>1. stream[c] \in Streams /\ stream[c].at # "off" /\ stream[c] # Off
    BY <1>5, <1>t, Running, OffIsNoStream
    DEF HandlerStep, Resolve, Wait, Return, SubscribeTo, ResolveFails, Disconnect, Alive
  <2>2. stream[c].todo \subseteq stream[c].resolved
    BY <1>t DEF Registrations, SubsResolved
  <2>3. \A p \in subs : p[1] = c => p[2] \in stream[c].resolved
    BY <1>t DEF Registrations, SubsResolved
  <2>4. CASE Resolve(c)
    <3>1. PICK mine \in SUBSET Galleries :
             stream' = [stream EXCEPT ![c].at = "registering", ![c].resolved = mine,
                                      ![c].todo = mine]
      BY <2>4 DEF Resolve, ListGalleriesByMember
    <3> DEFINE x == [stream[c] EXCEPT !.at = "registering", !.resolved = mine, !.todo = mine]
    <3>2. /\ x \in Streams /\ x.at = "registering" /\ x.todo = x.resolved
      BY <2>1 DEF Streams
    <3>3. stream' = [stream EXCEPT ![c] = x]
      BY <3>1
    <3>4. stream[c].at = "resolving" /\ c \notin registered
      BY <2>4, <1>t DEF Resolve, Registrations, RegisteredHasHandler
    <3>5. \A p \in subs : p[1] # c
      BY <3>4, <1>t DEF Registrations, RegisteredHasHandler
    <3> HIDE DEF x
    <3> QED
      BY <2>4, <2>1, <3>2, <3>3, <3>4, <3>5, HandlerKeeps DEF Resolve
  <2>5. CASE Wait(c)
    <3> DEFINE x == [stream[c] EXCEPT !.at = "live"]
    <3>1. /\ x \in Streams /\ x.at = "live" /\ x.todo = stream[c].todo
          /\ x.resolved = stream[c].resolved /\ x.replica = stream[c].replica
      BY <2>1 DEF Streams
    <3>2. stream' = [stream EXCEPT ![c] = x]
      BY <2>5 DEF Wait
    <3> HIDE DEF x
    <3>3. UNCHANGED <<sent, sending, toSend, got, registered, subs>>
      BY <2>5 DEF Wait
    <3>4. \A p \in subs' : p[1] = c => p[2] \in x.resolved
      BY <2>3, <3>1, <3>3
    <3> QED
      BY <2>1, <2>2, <3>1, <3>2, <3>3, <3>4, HandlerKeeps
  <2>6. ASSUME NEW g \in Galleries, SubscribeTo(c, g)
        PROVE  Registrations'
    <3> DEFINE x == [stream[c] EXCEPT !.todo = @ \ {g}]
    <3>1. /\ x \in Streams /\ x.at = "registering" /\ x.todo \subseteq stream[c].todo
          /\ x.resolved = stream[c].resolved /\ x.replica = stream[c].replica
          /\ g \in stream[c].resolved
      BY <2>1, <2>2, <2>6 DEF Streams, SubscribeTo
    <3>2. stream' = [stream EXCEPT ![c] = x]
      BY <2>6 DEF SubscribeTo
    <3>3. /\ subs \subseteq subs'
          /\ \A p \in subs' : p \in subs \/ (p[1] = c /\ p[2] = g /\ c \in registered)
      BY <2>6 DEF SubscribeTo
    <3> HIDE DEF x
    <3>4. UNCHANGED <<sent, sending, toSend, got, registered>>
      BY <2>6 DEF SubscribeTo
    <3>5. \A p \in subs' : p[1] = c => p[2] \in x.resolved
      BY <2>3, <3>1, <3>3
    <3>6. x.todo \subseteq x.resolved
      BY <2>2, <3>1
    <3> QED
      <4>1. \A p \in subs' : p \in subs \/ (p[1] = c /\ c \in registered)
        BY <3>3
      <4>2. x \in Streams /\ x.at \in {"registering", "live"}
        BY <3>1
      <4> QED
        BY <2>1, <3>1, <3>2, <3>3, <3>4, <3>5, <3>6, <4>1, <4>2, HandlerKeeps
  <2>7. CASE Return(c)
    <3>1. /\ stream' = [d \in Conns |-> IF d \in {c} THEN Off ELSE stream[d]]
          /\ got' = [d \in Conns |-> IF d \in {c} THEN <<>> ELSE got[d]]
      BY <2>7, <1>t DEF Return, TypeOK
    <3> QED
      BY <2>7, <3>1, StreamsEnd DEF Return
  <2>8. CASE ResolveFails(c)
    <3>1. /\ stream' = [d \in Conns |-> IF d \in {c} THEN Off ELSE stream[d]]
          /\ got' = [d \in Conns |-> IF d \in {c} THEN <<>> ELSE got[d]]
      BY <2>8, <1>t DEF ResolveFails, TypeOK
    <3>2. c \notin registered /\ \A p \in subs : p[1] # c
      BY <2>8, <1>t DEF ResolveFails, Registrations, RegisteredHasHandler
    <3>3. registered' = registered \ {c} /\ subs' = subs \ SubsOf({c})
      BY <2>8, <3>2 DEF ResolveFails, SubsOf
    <3> QED
      BY <2>8, <3>1, <3>3, StreamsEnd DEF ResolveFails
  <2>9. CASE Disconnect(c)
    <3>1. /\ \A d \in Conns : d # c => stream'[d] = stream[d]
          /\ stream'[c] # Off /\ stream'[c].at = stream[c].at
          /\ stream'[c].replica = stream[c].replica
          /\ stream'[c].resolved = stream[c].resolved
          /\ stream'[c].todo = stream[c].todo
      BY <2>1, <2>9, <1>t, OffIsNoStream DEF Disconnect, TypeOK, Streams
    <3>2. /\ \A d \in Conns : /\ stream'[d].at = stream[d].at
                              /\ stream'[d].replica = stream[d].replica
                              /\ stream'[d].resolved = stream[d].resolved
                              /\ stream'[d].todo = stream[d].todo
                              /\ stream'[d] # Off => stream[d] # Off
      BY <2>1, <3>1
    <3>3. UNCHANGED <<sent, sending, toSend, registered, subs, got>>
      BY <2>9 DEF Disconnect
    <3>4. RegisteredHasHandler' /\ NewStreams'
      BY <1>t, <3>2, <3>3 DEF Registrations, RegisteredHasHandler, NewStreams, TypeOK
    <3>5. SubsResolved'
      BY <1>t, <3>2, <3>3, SubscribedRun DEF Registrations, SubsResolved
    <3>6. Snapshots'
      BY <1>t, <3>2, <3>3 DEF Registrations, Snapshots, TypeOK
    <3>7. OnlyResolved'
      BY <1>t, <3>2, <3>3 DEF Registrations, OnlyResolved
    <3> QED
      BY <3>4, <3>5, <3>6, <3>7 DEF Registrations
  <2> QED
    BY <1>5, <2>4, <2>5, <2>6, <2>7, <2>8, <2>9 DEF HandlerStep
<1>6. ASSUME NEW i \in Replicas, Apply(i)
      PROVE  Registrations'
  <2>1. /\ toSend'[i] = {c \in Conns : /\ <<c, sent[Head(inbox[i])]>> \in subs
                                       /\ stream[c].replica = i}
        /\ toSend'[i] # {} => sending'[i] = Head(inbox[i])
        /\ \A j \in Replicas : j # i => toSend'[j] = toSend[j] /\ sending'[j] = sending[j]
    BY <1>6, <1>t DEF Apply, TypeOK
  <2>2. NewStreams'
    BY <1>6, <1>t, <2>1 DEF Apply, Registrations, NewStreams, RegisteredHasHandler
  <2>3. Snapshots'
    <3>1. ASSUME NEW j \in Replicas, NEW c \in toSend'[j], stream[c] # Off
          PROVE  /\ stream[c].replica = j
                 /\ sent[sending'[j]] \in stream[c].resolved
      <4>1. CASE j # i
        BY <1>t, <2>1, <3>1, <4>1 DEF Registrations, Snapshots
      <4>2. CASE j = i
        BY <1>t, <2>1, <3>1, <4>2 DEF Registrations, SubsResolved
      <4> QED
        BY <4>1, <4>2
    <3> QED
      BY <1>6, <3>1 DEF Apply, Snapshots
  <2> QED
    BY <1>6, <1>t, <2>2, <2>3
    DEF Apply, Registrations, RegisteredHasHandler, SubsResolved, OnlyResolved
<1>7. ASSUME NEW i \in Replicas, NEW c \in Conns, Send(i, c)
      PROVE  Registrations'
  <2>1. /\ c \in toSend[i] /\ toSend'[i] = toSend[i] \ {c}
        /\ toSend'[i] # {} => sending'[i] = sending[i]
        /\ \A j \in Replicas : j # i => toSend'[j] = toSend[j] /\ sending'[j] = sending[j]
        /\ UNCHANGED <<sent, stream>>
    BY <1>7, <1>t DEF Send, TypeOK
  <2>2. /\ registered' \subseteq registered /\ subs' \subseteq subs
        /\ \A p \in subs' : p[1] \in registered'
    BY <1>7, <1>t DEF Send, Registrations, RegisteredHasHandler, SubsOf
  <2>3. RegisteredHasHandler' /\ SubsResolved'
    BY <1>t, <2>1, <2>2 DEF Registrations, RegisteredHasHandler, SubsResolved
  <2>4. Snapshots'
    BY <1>t, <2>1 DEF Registrations, Snapshots
  <2>5. CASE Alive(c)
    <3>1. /\ got'[c] = Append(got[c], sending[i])
          /\ \A d \in Conns : d # c => got'[d] = got[d]
      BY <1>7, <1>t, <2>5 DEF Send, TypeOK
    <3>2. /\ stream[c] # Off /\ stream[c].at \notin {"off", "resolving"}
          /\ sent[sending[i]] \in stream[c].resolved
      BY <1>t, <2>1, <2>5, Running DEF Alive, Registrations, NewStreams, Snapshots
    <3>3. sending[i] \in Numbers /\ got[c] \in Seq(Numbers)
      BY <1>t, <2>1, BoundsAssumption DEF TypeOK, SendsEvents, Numbers
    <3>4. NewStreams'
      BY <1>t, <2>1, <3>1, <3>2 DEF Registrations, NewStreams
    <3>5. OnlyResolved'
      <4>1. \A n \in InRange(got'[c]) : sent[n] \in stream[c].resolved
        BY <1>t, <3>1, <3>2, <3>3, ReceivedAppended DEF Registrations, OnlyResolved
      <4> QED
        BY <1>t, <2>1, <3>1, <4>1 DEF Registrations, OnlyResolved
    <3> QED
      BY <2>3, <2>4, <3>4, <3>5 DEF Registrations
  <2>6. CASE ~Alive(c)
    <3>1. UNCHANGED got
      BY <1>7, <2>6 DEF Send
    <3>2. NewStreams' /\ OnlyResolved'
      BY <1>t, <2>1, <3>1 DEF Registrations, NewStreams, OnlyResolved
    <3> QED
      BY <2>3, <2>4, <3>2 DEF Registrations
  <2> QED
    BY <2>5, <2>6
<1>8. ASSUME NEW i \in Replicas, Crash(i)
      PROVE  Registrations'
  <2>1. On(i) \in SUBSET Conns
    BY DEF On
  <2>2. \A j \in Replicas : \/ toSend'[j] = toSend[j] /\ sending'[j] = sending[j]
                            \/ toSend'[j] = {}
    BY <1>8, <1>t DEF Crash, TypeOK
  <2> QED
    BY <1>8, <2>1, <2>2, StreamsEnd DEF Crash
<1>9. CASE UNCHANGED vars \/ \E n \in Numbers : Repeat(n)
  BY <1>1, <1>9 DEF vars, Repeat
<1> QED
  BY <1>2, <1>3, <1>4, <1>5, <1>6, <1>7, <1>8, <1>9 DEF Next, ReplicaStep

-----------------------------------------------------------------------------
(* Queues, until a replica fails.                                          *)

LEMMA IncreasingTail ==
    ASSUME NEW s \in Seq(Numbers), s # <<>>, Increasing(s)
    PROVE  /\ Increasing(Tail(s))
           /\ \A k \in 1 .. Len(Tail(s)) : Head(s) < Tail(s)[k]
<1>1. /\ Len(s) \in Nat /\ Len(s) >= 1 /\ Head(s) = s[1] /\ Len(Tail(s)) = Len(s) - 1
      /\ \A k \in 1 .. Len(Tail(s)) : k + 1 \in 1 .. Len(s) /\ Tail(s)[k] = s[k + 1]
  BY HeadAndTail
<1>2. ASSUME NEW k \in 1 .. Len(Tail(s))
      PROVE  Head(s) < Tail(s)[k]
  BY <1>1 DEF Increasing
<1>3. ASSUME NEW j \in 1 .. Len(Tail(s)), NEW k \in 1 .. Len(Tail(s)), j < k
      PROVE  Tail(s)[j] < Tail(s)[k]
  BY <1>1, <1>3 DEF Increasing
<1> QED
  BY <1>2, <1>3 DEF Increasing

LEMMA IncreasingAppend ==
    ASSUME NEW s \in Seq(Numbers), NEW n \in Numbers, Increasing(s),
           \A k \in 1 .. Len(s) : s[k] < n
    PROVE  Increasing(Append(s, n))
<1>1. ASSUME NEW j \in 1 .. Len(Append(s, n)), NEW k \in 1 .. Len(Append(s, n)), j < k
      PROVE  Append(s, n)[j] < Append(s, n)[k]
  <2>1. j \in 1 .. Len(s) /\ (k \in 1 .. Len(s) \/ k = Len(s) + 1)
    BY <1>1, Appended
  <2> QED
    BY <1>1, <2>1, Appended DEF Increasing
<1> QED
  BY <1>1 DEF Increasing

Queues == OnePlace /\ FansOutInOrder

LEMMA NextQueues == Inv /\ [Next]_vars /\ failures = 0 /\ failures' = 0 => Queues'
<1> SUFFICES ASSUME Inv, [Next]_vars, failures = 0, failures' = 0
             PROVE  Queues'
  OBVIOUS
<1>t. TypeOK /\ PublishedOnly /\ OnePlace /\ FansOutInOrder
  BY DEF Inv, StreamInv, OrderInv
<1>n. /\ NoOne \notin Replicas
      /\ queue \in Seq(Numbers)
      /\ \A k \in 1 .. Len(queue) : queue[k] \in Numbers
      /\ \A i \in Replicas : \A k \in 1 .. Len(held[i]) : held[i][k] \in Numbers
  BY <1>t, NoOneAssumption, ElementOfSeq DEF TypeOK
<1>i. \A n \in Numbers : n \in Int
  BY DEF Numbers
<1> USE DEF queueVars, fanoutVars, streamVars, historyVars
<1>1. ASSUME UNCHANGED <<queue, held, via>>,
             \A i \in Replicas : handling'[i] = "acking" <=> handling[i] = "acking"
      PROVE  Queues'
  BY <1>1, <1>t DEF Queues, OnePlace, FansOutInOrder, Waits
<1>2. ASSUME NEW g \in Galleries, PublishEvent(g)
      PROVE  Queues'
  <2> DEFINE n == Len(sent) + 1
  <2>1. n \in Numbers /\ Len(sent) \in Nat /\ Len(sent') = n
    BY <1>2, <1>t, Appended, BoundsAssumption DEF PublishEvent, TypeOK, Numbers
  <2>2. /\ \A k \in 1 .. Len(queue) : queue[k] < n
        /\ \A i \in Replicas : \A k \in 1 .. Len(held[i]) : held[i][k] < n
    BY <1>t, <1>n, <1>i, <2>1 DEF PublishedOnly, InBounds
  <2>3. /\ queue' = Append(queue, n)
        /\ \A l \in 1 .. Len(queue') :
              (l \in 1 .. Len(queue) /\ queue'[l] = queue[l]) \/ queue'[l] = n
    <3>1. queue' = Append(queue, n)
      BY <1>2 DEF PublishEvent
    <3>2. \A l \in 1 .. Len(queue') : l \in 1 .. Len(queue) \/ l = Len(queue) + 1
      BY <1>n, <2>1, <3>1, Appended
    <3> QED
      BY <1>n, <2>1, <3>1, <3>2, Appended
  <2>4. UNCHANGED <<held, handling, via>>
    BY <1>2 DEF PublishEvent
  <2> HIDE DEF n
  <2>5. via[n] = NoOne /\ \A m \in Numbers : via[m] # NoOne => m < n
    BY <1>t, <1>i, <2>1 DEF PublishedOnly, n
  <2>6. Increasing(queue')
    BY <1>t, <1>n, <2>1, <2>2, <2>3, IncreasingAppend DEF OnePlace
  <2>7. OnePlace'
    BY <1>t, <2>2, <2>3, <2>4, <2>5, <2>6 DEF OnePlace, Waits, Increasing
  <2>8. FansOutInOrder'
    BY <1>t, <1>i, <2>1, <2>3, <2>4, <2>5 DEF FansOutInOrder, Waits
  <2> QED
    BY <2>7, <2>8 DEF Queues
<1>3. ASSUME NEW i \in Replicas, Deliver(i)
      PROVE  Queues'
  <2> DEFINE h == Head(queue)
  <2>1. /\ h \in Numbers /\ Tail(queue) \in Seq(Numbers) /\ 1 \in 1 .. Len(queue)
        /\ h = queue[1]
        /\ \A l \in 1 .. Len(queue') : l + 1 \in 1 .. Len(queue) /\ queue'[l] = queue[l + 1]
    BY <1>3, <1>n, HeadAndTail DEF Deliver
  <2>2. /\ Increasing(queue')
        /\ \A l \in 1 .. Len(queue') : h < queue'[l]
    BY <1>3, <1>t, <1>n, IncreasingTail DEF Deliver, OnePlace
  <2>3. /\ held[i] \in Seq(Numbers)
        /\ held'[i] = Append(held[i], h)
        /\ \A j \in Replicas : j # i => held'[j] = held[j]
        /\ UNCHANGED <<handling, via>>
    BY <1>3, <1>t DEF Deliver, TypeOK
  <2> HIDE DEF h
  <2>4. /\ Len(held[i]) \in Nat /\ (handling[i] = "acking" => Len(held[i]) >= 1)
        /\ \A k \in 1 .. Len(held'[i]) :
              \/ k \in 1 .. Len(held[i]) /\ held'[i][k] = held[i][k]
              \/ k = Len(held[i]) + 1 /\ held'[i][k] = h
    <3>1. Len(held[i]) \in Nat /\ (handling[i] = "acking" => Len(held[i]) >= 1)
      BY <1>t, <2>3, HeadAndTail, LenProperties DEF TypeOK
    <3>2. \A k \in 1 .. Len(held'[i]) : k \in 1 .. Len(held[i]) \/ k = Len(held[i]) + 1
      BY <2>1, <2>3, <3>1, Appended
    <3> QED
      BY <2>1, <2>3, <3>1, <3>2, Appended
  <2>5. /\ via[h] = NoOne
        /\ \A j \in Replicas : \A k \in 1 .. Len(held[j]) : held[j][k] < h
        /\ \A m \in Numbers : via[m] # NoOne => m < h
    BY <1>t, <2>1 DEF OnePlace, FansOutInOrder
  <2>6. \A j \in Replicas : \A k \in 1 .. Len(held'[j]) :
           \/ k \in 1 .. Len(held[j]) /\ held'[j][k] = held[j][k]
              /\ (Waits(j, k)' <=> Waits(j, k))
           \/ j = i /\ held'[j][k] = h /\ Waits(j, k)'
    BY <2>3, <2>4 DEF Waits
  <2>7. \A j \in Replicas : Increasing(held'[j])
    <3>1. Increasing(held[i]) /\ \A j \in Replicas : Increasing(held[j])
      BY <1>t DEF OnePlace
    <3>2. Increasing(Append(held[i], h))
      BY <2>1, <2>3, <2>5, <3>1, IncreasingAppend
    <3> QED
      BY <2>3, <3>1, <3>2
  <2>8. /\ \A k \in 1 .. Len(queue') : via'[queue'[k]] = NoOne
        /\ \A j \in Replicas : \A k \in 1 .. Len(held'[j]) : \A l \in 1 .. Len(queue') :
              held'[j][k] < queue'[l]
    <3>1. \A k \in 1 .. Len(queue') : via'[queue'[k]] = NoOne
      BY <1>t, <2>1, <2>3 DEF OnePlace
    <3>2. ASSUME NEW j \in Replicas, NEW k \in 1 .. Len(held'[j]), NEW l \in 1 .. Len(queue')
          PROVE  held'[j][k] < queue'[l]
      <4>1. held'[j][k] = h \/ (k \in 1 .. Len(held[j]) /\ held'[j][k] = held[j][k])
        BY <2>6
      <4>2. h < queue'[l] /\ queue'[l] = queue[l + 1] /\ l + 1 \in 1 .. Len(queue)
        BY <2>1, <2>2
      <4> QED
        BY <1>t, <4>1, <4>2 DEF OnePlace
    <3> QED
      BY <3>1, <3>2
  <2>9. \A j, m \in Replicas : \A k \in 1 .. Len(held'[j]) : \A l \in 1 .. Len(held'[m]) :
           held'[j][k] = held'[m][l] => j = m
    <3>1. \A j \in Replicas : \A k \in 1 .. Len(held[j]) : held[j][k] # h
      BY <1>n, <1>i, <2>5
    <3>2. ASSUME NEW j \in Replicas, NEW m \in Replicas, NEW k \in 1 .. Len(held'[j]),
                 NEW l \in 1 .. Len(held'[m]), held'[j][k] = held'[m][l]
          PROVE  j = m
      <4>0. \A a \in 1 .. Len(held[j]), b \in 1 .. Len(held[m]) :
               held[j][a] = held[m][b] => j = m
        BY <1>t DEF OnePlace
      <4>1. \/ k \in 1 .. Len(held[j]) /\ held'[j][k] = held[j][k]
            \/ j = i /\ held'[j][k] = h
        BY <2>6
      <4>2. \/ l \in 1 .. Len(held[m]) /\ held'[m][l] = held[m][l]
            \/ m = i /\ held'[m][l] = h
        BY <2>6
      <4>3. CASE /\ k \in 1 .. Len(held[j]) /\ held'[j][k] = held[j][k]
                 /\ l \in 1 .. Len(held[m]) /\ held'[m][l] = held[m][l]
        BY <3>2, <4>0, <4>3
      <4> QED
        BY <3>1, <3>2, <4>1, <4>2, <4>3
    <3> QED
      BY <3>2
  <2>10. \A j \in Replicas : \A k \in 1 .. Len(held'[j]) :
            IF Waits(j, k)' THEN via'[held'[j][k]] = NoOne ELSE via'[held'[j][k]] = j
    <3>1. ASSUME NEW j \in Replicas, NEW k \in 1 .. Len(held'[j])
          PROVE  IF Waits(j, k)' THEN via'[held'[j][k]] = NoOne ELSE via'[held'[j][k]] = j
      <4>1. CASE j = i /\ held'[j][k] = h /\ Waits(j, k)'
        BY <2>3, <2>5, <4>1
      <4>2. CASE /\ k \in 1 .. Len(held[j]) /\ held'[j][k] = held[j][k]
                 /\ (Waits(j, k)' <=> Waits(j, k))
        BY <1>t, <2>3, <4>2 DEF OnePlace
      <4> QED
        BY <2>6, <4>1, <4>2
    <3> QED
      BY <3>1
  <2>11. FansOutInOrder'
    <3>1. ASSUME NEW m \in Numbers, via[m] # NoOne, NEW l \in 1 .. Len(queue')
          PROVE  m < queue'[l]
      BY <1>t, <2>1, <3>1 DEF FansOutInOrder
    <3>2. ASSUME NEW m \in Numbers, NEW j \in Replicas, via[m] = j,
                 NEW k \in 1 .. Len(held'[j]), Waits(j, k)'
          PROVE  m < held'[j][k]
      <4>1. via[m] # NoOne
        BY <1>n, <3>2
      <4>2. CASE held'[j][k] = h
        BY <2>5, <4>1, <4>2
      <4>3. CASE k \in 1 .. Len(held[j]) /\ held'[j][k] = held[j][k] /\ Waits(j, k)
        BY <1>t, <3>2, <4>3 DEF FansOutInOrder
      <4> QED
        BY <2>6, <3>2, <4>2, <4>3
    <3> QED
      BY <1>t, <2>3, <3>1, <3>2 DEF FansOutInOrder
  <2> QED
    BY <2>2, <2>7, <2>8, <2>9, <2>10, <2>11 DEF Queues, OnePlace
<1>h. ASSUME NEW i \in Replicas, HasNotification(i)
      PROVE  LET h == Head(held[i])
             IN  /\ held[i] \in Seq(Numbers) /\ held[i] # <<>>
                 /\ 1 \in 1 .. Len(held[i]) /\ h = held[i][1] /\ h \in Numbers
                 /\ Waits(i, 1) /\ via[h] = NoOne
                 /\ \A l \in 1 .. Len(queue) : h < queue[l]
                 /\ \A j \in Replicas : \A k \in 1 .. Len(held[j]) :
                       held[j][k] = h => j = i /\ k = 1
                 /\ \A k \in 1 .. Len(held[i]) : k # 1 => h < held[i][k]
  <2> DEFINE h == Head(held[i])
  <2>1. /\ held[i] \in Seq(Numbers) /\ held[i] # <<>>
        /\ Len(held[i]) \in Nat /\ 1 \in 1 .. Len(held[i])
        /\ h = held[i][1] /\ h \in Numbers
        /\ Waits(i, 1)
    BY <1>h, <1>t, HeadAndTail DEF HasNotification, TypeOK, Waits
  <2> HIDE DEF h
  <2>2. \A k \in 1 .. Len(held[i]) : k # 1 => h < held[i][k]
    BY <1>t, <2>1 DEF OnePlace, Increasing
  <2>3. \A j \in Replicas : \A k \in 1 .. Len(held[j]) : held[j][k] = h => j = i
    BY <1>t, <2>1 DEF OnePlace
  <2>4. via[h] = NoOne /\ \A l \in 1 .. Len(queue) : h < queue[l]
    BY <1>t, <2>1 DEF OnePlace
  <2>5. \A j \in Replicas : \A k \in 1 .. Len(held[j]) : held[j][k] = h => j = i /\ k = 1
    BY <1>n, <1>i, <2>1, <2>2, <2>3
  <2> QED
    BY <2>1, <2>2, <2>4, <2>5 DEF h
<1>4. ASSUME NEW i \in Replicas, FanOut(i)
      PROVE  Queues'
  <2> DEFINE h == Head(held[i])
  <2>1. /\ 1 \in 1 .. Len(held[i]) /\ h = held[i][1] /\ h \in Numbers
        /\ Waits(i, 1)
    BY <1>4, <1>h DEF FanOut
  <2>3. /\ via[h] = NoOne
        /\ \A l \in 1 .. Len(queue) : h < queue[l]
        /\ \A j \in Replicas : \A k \in 1 .. Len(held[j]) :
              held[j][k] = h => j = i /\ k = 1
        /\ \A k \in 1 .. Len(held[i]) : k # 1 => h < held[i][k]
    BY <1>4, <1>h DEF FanOut
  <2>2. /\ via'[h] = i /\ \A n \in Numbers : n # h => via'[n] = via[n]
        /\ handling'[i] = "acking" /\ handling[i] # "acking"
        /\ \A j \in Replicas : j # i => handling'[j] = handling[j]
        /\ UNCHANGED <<queue, held>>
    BY <1>4, <1>t, <2>1 DEF FanOut, HasNotification, TypeOK
  <2> HIDE DEF h
  <2>4. /\ ~Waits(i, 1)'
        /\ \A j \in Replicas : \A k \in 1 .. Len(held[j]) :
              j # i \/ k # 1 => (Waits(j, k)' <=> Waits(j, k))
    BY <2>2 DEF Waits
  <2>5. \A j \in Replicas : \A k \in 1 .. Len(held[j]) :
           IF Waits(j, k)' THEN via'[held[j][k]] = NoOne ELSE via'[held[j][k]] = j
    <3>1. ASSUME NEW j \in Replicas, NEW k \in 1 .. Len(held[j]), j # i \/ k # 1
          PROVE  via'[held[j][k]] = via[held[j][k]]
      BY <1>n, <2>2, <2>3, <3>1
    <3> QED
      BY <1>t, <2>1, <2>2, <2>4, <3>1 DEF OnePlace
  <2>6. \A l \in 1 .. Len(queue) : via'[queue[l]] = NoOne
    BY <1>t, <1>n, <1>i, <2>1, <2>2, <2>3 DEF OnePlace
  <2>7. OnePlace'
    BY <1>t, <2>2, <2>5, <2>6 DEF OnePlace
  <2>8. ASSUME NEW n \in Numbers
        PROVE  /\ via'[n] # NoOne => \A l \in 1 .. Len(queue) : n < queue[l]
               /\ \A j \in Replicas : via'[n] = j => \A k \in 1 .. Len(held[j]) :
                     Waits(j, k)' => n < held[j][k]
    <3>1. CASE n = h
      BY <1>n, <2>1, <2>2, <2>3, <2>4, <3>1
    <3>2. CASE n # h
      BY <1>t, <2>2, <2>4, <3>2 DEF FansOutInOrder
    <3> QED
      BY <3>1, <3>2
  <2>9. FansOutInOrder'
    BY <2>2, <2>8 DEF FansOutInOrder
  <2> QED
    BY <2>7, <2>9 DEF Queues
<1>5. ASSUME NEW i \in Replicas, Ack(i)
      PROVE  Queues'
  <2>1. /\ held[i] # <<>> /\ held[i] \in Seq(Numbers)
        /\ held'[i] = Tail(held[i]) /\ handling'[i] = "none"
        /\ \A j \in Replicas : j # i => held'[j] = held[j] /\ handling'[j] = handling[j]
        /\ UNCHANGED <<queue, via>>
    BY <1>5, <1>t DEF Ack, TypeOK
  <2>2. \A k \in 1 .. Len(held'[i]) :
           /\ k + 1 \in 1 .. Len(held[i]) /\ held'[i][k] = held[i][k + 1]
           /\ Waits(i, k)' /\ Waits(i, k + 1)
    BY <2>1, HeadAndTail DEF Waits
  <2>3. \A j \in Replicas : \A k \in 1 .. Len(held'[j]) :
           \E l \in 1 .. Len(held[j]) :
              held'[j][k] = held[j][l] /\ (Waits(j, k)' <=> Waits(j, l))
    <3>1. ASSUME NEW j \in Replicas, j # i, NEW k \in 1 .. Len(held'[j])
          PROVE  k \in 1 .. Len(held[j]) /\ held'[j][k] = held[j][k]
                 /\ (Waits(j, k)' <=> Waits(j, k))
      BY <2>1, <3>1 DEF Waits
    <3>2. ASSUME NEW j \in Replicas, NEW k \in 1 .. Len(held'[j])
          PROVE  \E l \in 1 .. Len(held[j]) :
                    held'[j][k] = held[j][l] /\ (Waits(j, k)' <=> Waits(j, l))
      <4>1. CASE j = i
        <5>1. /\ k + 1 \in 1 .. Len(held[j]) /\ held'[j][k] = held[j][k + 1]
              /\ (Waits(j, k)' <=> Waits(j, k + 1))
          BY <2>2, <4>1
        <5> QED
          BY <5>1
      <4>2. CASE j # i
        BY <3>1, <4>2
      <4> QED
        BY <4>1, <4>2
    <3> QED
      BY <3>2
  <2>4. \A j \in Replicas : Increasing(held'[j])
    BY <1>t, <2>1, IncreasingTail DEF OnePlace
  <2>5. \A j \in Replicas : \A k \in 1 .. Len(held'[j]) :
           IF Waits(j, k)' THEN via'[held'[j][k]] = NoOne ELSE via'[held'[j][k]] = j
    <3>1. ASSUME NEW j \in Replicas, NEW k \in 1 .. Len(held'[j])
          PROVE  IF Waits(j, k)' THEN via'[held'[j][k]] = NoOne ELSE via'[held'[j][k]] = j
      <4>1. PICK l \in 1 .. Len(held[j]) :
               held'[j][k] = held[j][l] /\ (Waits(j, k)' <=> Waits(j, l))
        BY <2>3
      <4> QED
        BY <1>t, <2>1, <4>1 DEF OnePlace
    <3> QED
      BY <3>1
  <2>6. \A j, m \in Replicas : \A k \in 1 .. Len(held'[j]) : \A l \in 1 .. Len(held'[m]) :
           held'[j][k] = held'[m][l] => j = m
    <3>1. ASSUME NEW j \in Replicas, NEW m \in Replicas, NEW k \in 1 .. Len(held'[j]),
                 NEW l \in 1 .. Len(held'[m]), held'[j][k] = held'[m][l]
          PROVE  j = m
      <4>1. PICK k2 \in 1 .. Len(held[j]) : held'[j][k] = held[j][k2]
        BY <2>3
      <4>2. PICK l2 \in 1 .. Len(held[m]) : held'[m][l] = held[m][l2]
        BY <2>3
      <4>3. held[j][k2] = held[m][l2] => j = m
        BY <1>t DEF OnePlace
      <4> QED
        BY <3>1, <4>1, <4>2, <4>3
    <3> QED
      BY <3>1
  <2>7. \A j \in Replicas : \A k \in 1 .. Len(held'[j]) : \A l \in 1 .. Len(queue') :
           held'[j][k] < queue'[l]
    BY <1>t, <2>1, <2>3 DEF OnePlace
  <2>8. OnePlace'
    BY <1>t, <2>1, <2>4, <2>5, <2>6, <2>7 DEF OnePlace
  <2>9. ASSUME NEW n \in Numbers, NEW j \in Replicas, via'[n] = j,
               NEW k \in 1 .. Len(held'[j]), Waits(j, k)'
        PROVE  n < held'[j][k]
    BY <1>t, <2>1, <2>3, <2>9 DEF FansOutInOrder
  <2>10. FansOutInOrder'
    BY <1>t, <2>1, <2>9 DEF FansOutInOrder, Waits
  <2> QED
    BY <2>8, <2>10 DEF Queues
<1>f. ASSUME NEW i \in Replicas, FanOutFails(i)
      PROVE  Queues'
  <2> DEFINE h == Head(held[i])
  <2>1. /\ h \in Numbers /\ held[i] \in Seq(Numbers) /\ held[i] # <<>>
        /\ \A l \in 1 .. Len(queue) : h < queue[l]
        /\ \A j \in Replicas : \A k \in 1 .. Len(held[j]) :
              held[j][k] = h => j = i /\ k = 1
        /\ \A k \in 1 .. Len(held[i]) : k # 1 => h < held[i][k]
    BY <1>f, <1>h DEF FanOutFails
  <2>2. /\ held'[i] = Tail(held[i]) /\ handling'[i] = "none" /\ handling[i] # "acking"
        /\ \A j \in Replicas : j # i => held'[j] = held[j] /\ handling'[j] = handling[j]
        /\ via'[h] = i /\ \A n \in Numbers : n # h => via'[n] = via[n]
        /\ UNCHANGED queue
    BY <1>f, <1>t, <2>1 DEF FanOutFails, HasNotification, TypeOK
  <2> HIDE DEF h
  <2>3. /\ Len(held[i]) \in Nat
        /\ \A k \in 1 .. Len(held'[i]) :
              k + 1 \in 1 .. Len(held[i]) /\ held'[i][k] = held[i][k + 1]
    BY <2>1, <2>2, HeadAndTail
  <2>4. ASSUME NEW j \in Replicas, NEW k \in 1 .. Len(held'[j])
        PROVE  \E l \in 1 .. Len(held[j]) :
                  /\ held'[j][k] = held[j][l] /\ held[j][l] # h
                  /\ Waits(j, k)' <=> Waits(j, l)
    <3>1. CASE j = i
      <4>1. k + 1 \in 1 .. Len(held[i]) /\ k + 1 # 1 /\ held'[i][k] = held[i][k + 1]
        BY <2>3, <3>1
      <4>2. held[i][k + 1] # h
        BY <2>1, <4>1
      <4>3. Waits(i, k)' /\ Waits(i, k + 1)
        BY <2>2, <3>1, <4>1 DEF Waits
      <4> QED
        BY <3>1, <4>1, <4>2, <4>3
    <3>2. CASE j # i
      <4>1. k \in 1 .. Len(held[j]) /\ held'[j][k] = held[j][k] /\ (Waits(j, k)' <=> Waits(j, k))
        BY <2>2, <3>2 DEF Waits
      <4>2. held[j][k] # h
        BY <2>1, <3>2, <4>1
      <4> QED
        BY <4>1, <4>2
    <3> QED
      BY <3>1, <3>2
  <2>5. \A j \in Replicas : Increasing(held'[j])
    BY <1>t, <2>1, <2>2, IncreasingTail DEF OnePlace
  <2>6. ASSUME NEW j \in Replicas, NEW k \in 1 .. Len(held'[j])
        PROVE  IF Waits(j, k)' THEN via'[held'[j][k]] = NoOne ELSE via'[held'[j][k]] = j
    <3>1. PICK l \in 1 .. Len(held[j]) : /\ held'[j][k] = held[j][l] /\ held[j][l] # h
                                         /\ Waits(j, k)' <=> Waits(j, l)
      BY <2>4
    <3>2. via'[held[j][l]] = via[held[j][l]]
      BY <1>n, <2>2, <3>1
    <3> QED
      BY <1>t, <3>1, <3>2 DEF OnePlace
  <2>7. \A j, m \in Replicas : \A k \in 1 .. Len(held'[j]) : \A l \in 1 .. Len(held'[m]) :
           held'[j][k] = held'[m][l] => j = m
    <3>1. ASSUME NEW j \in Replicas, NEW m \in Replicas, NEW k \in 1 .. Len(held'[j]),
                 NEW l \in 1 .. Len(held'[m]), held'[j][k] = held'[m][l]
          PROVE  j = m
      <4>1. PICK k2 \in 1 .. Len(held[j]) : held'[j][k] = held[j][k2]
        BY <2>4
      <4>2. PICK l2 \in 1 .. Len(held[m]) : held'[m][l] = held[m][l2]
        BY <2>4
      <4>3. held[j][k2] = held[m][l2] => j = m
        BY <1>t DEF OnePlace
      <4> QED
        BY <3>1, <4>1, <4>2, <4>3
    <3> QED
      BY <3>1
  <2>8. ASSUME NEW j \in Replicas, NEW k \in 1 .. Len(held'[j]), NEW l \in 1 .. Len(queue')
        PROVE  held'[j][k] < queue'[l]
    <3>1. PICK k2 \in 1 .. Len(held[j]) : held'[j][k] = held[j][k2]
      BY <2>4
    <3> QED
      BY <1>t, <2>2, <3>1 DEF OnePlace
  <2>9. \A l \in 1 .. Len(queue') : via'[queue'[l]] = NoOne
    BY <1>t, <1>n, <1>i, <2>1, <2>2 DEF OnePlace
  <2>10. OnePlace'
    BY <1>t, <2>2, <2>5, <2>6, <2>7, <2>8, <2>9 DEF OnePlace
  <2>11. ASSUME NEW n \in Numbers, NEW j \in Replicas, via'[n] = j,
                NEW k \in 1 .. Len(held'[j]), Waits(j, k)'
         PROVE  n < held'[j][k]
    <3>1. CASE n = h
      <4>1. j = i
        BY <2>2, <2>11, <3>1
      <4> QED
        BY <2>1, <2>3, <3>1, <4>1
    <3>2. CASE n # h
      <4>1. PICK l \in 1 .. Len(held[j]) : /\ held'[j][k] = held[j][l]
                                           /\ Waits(j, k)' <=> Waits(j, l)
        BY <2>4
      <4> QED
        BY <1>t, <2>2, <2>11, <3>2, <4>1 DEF FansOutInOrder
    <3> QED
      BY <3>1, <3>2
  <2>12. \A n \in Numbers : via'[n] # NoOne => \A l \in 1 .. Len(queue') : n < queue'[l]
    BY <1>t, <2>1, <2>2 DEF FansOutInOrder
  <2>13. FansOutInOrder'
    BY <2>11, <2>12 DEF FansOutInOrder, Waits
  <2> QED
    BY <2>10, <2>13 DEF Queues
<1>6. ASSUME NEW i \in Replicas,
             \/ Apply(i) \/ \E c \in Conns : Send(i, c)
             \/ GetGallery(i) \/ GalleryAnswers(i)
             \/ Start(i) \/ Crash(i) \/ Drop(i)
      PROVE  Queues'
  <2>1. ~Crash(i) /\ ~Drop(i)
    BY DEF Crash, Drop
  <2>2. UNCHANGED <<queue, held, via>>
    BY <1>6, <2>1 DEF Apply, Send, GetGallery, GalleryAnswers, Start
  <2>3. \A j \in Replicas : handling'[j] = "acking" <=> handling[j] = "acking"
    BY <1>6, <1>t, <2>1 DEF Apply, Send, GetGallery, GalleryAnswers, Start, TypeOK
  <2> QED
    BY <1>1, <2>2, <2>3
<1>7. ASSUME NEW c \in Conns,
             \/ HandlerStep(c) \/ ResolveFails(c) \/ Disconnect(c)
             \/ \E u \in Users, i \in Replicas : Open(c, u, i)
      PROVE  Queues'
  BY <1>1, <1>7
  DEF HandlerStep, Resolve, Wait, Return, SubscribeTo, ResolveFails, Disconnect, Open
<1>8. CASE UNCHANGED vars \/ \E n \in Numbers : Repeat(n)
  BY <1>1, <1>8 DEF vars, Repeat
<1> QED
  BY <1>2, <1>3, <1>4, <1>5, <1>f, <1>6, <1>7, <1>8 DEF Next, ReplicaStep

-----------------------------------------------------------------------------
(* From the fan-out to the streams, until a replica fails.                 *)

LEMMA OrderedAppend ==
    ASSUME NEW w, NEW r, NEW s \in Seq(Numbers), NEW n \in Numbers,
           Ordered(w, r, s), w[n] # NoOne, AllBefore(w, r, s, n)
    PROVE  Ordered(w, r, Append(s, n))
<1>1. \A k \in 1 .. Len(Append(s, n)) :
         \/ k \in 1 .. Len(s) /\ Append(s, n)[k] = s[k]
         \/ k = Len(s) + 1 /\ Append(s, n)[k] = n
  <2>1. \A k \in 1 .. Len(Append(s, n)) : k \in 1 .. Len(s) \/ k = Len(s) + 1
    BY Appended
  <2> QED
    BY <2>1, Appended
<1>2. ASSUME NEW k \in 1 .. Len(Append(s, n))
      PROVE  w[Append(s, n)[k]] # NoOne
  BY <1>1 DEF Ordered
<1>3. ASSUME NEW j \in 1 .. Len(Append(s, n)), NEW k \in 1 .. Len(Append(s, n)), j < k
      PROVE  Before(w, r, Append(s, n)[j], Append(s, n)[k])
  <2>1. j \in 1 .. Len(s) /\ Append(s, n)[j] = s[j]
    BY <1>1, <1>3, Appended
  <2> QED
    BY <1>1, <1>3, <2>1 DEF Ordered, AllBefore
<1> QED
  BY <1>2, <1>3 DEF Ordered

LEMMA OrderedTail ==
    ASSUME NEW w, NEW r, NEW s \in Seq(Numbers), s # <<>>, Ordered(w, r, s)
    PROVE  Ordered(w, r, Tail(s)) /\ w[Head(s)] # NoOne /\ BeforeAll(w, r, Head(s), Tail(s))
<1>1. /\ Len(s) \in Nat /\ Len(s) >= 1 /\ Head(s) = s[1] /\ Len(Tail(s)) = Len(s) - 1
      /\ \A k \in 1 .. Len(Tail(s)) : k + 1 \in 1 .. Len(s) /\ Tail(s)[k] = s[k + 1]
  BY HeadAndTail
<1>2. ASSUME NEW k \in 1 .. Len(Tail(s))
      PROVE  Before(w, r, Head(s), Tail(s)[k]) /\ w[Tail(s)[k]] # NoOne
  BY <1>1 DEF Ordered
<1>3. ASSUME NEW j \in 1 .. Len(Tail(s)), NEW k \in 1 .. Len(Tail(s)), j < k
      PROVE  Before(w, r, Tail(s)[j], Tail(s)[k])
  BY <1>1, <1>3 DEF Ordered
<1>4. w[Head(s)] # NoOne
  BY <1>1 DEF Ordered
<1> QED
  BY <1>2, <1>3, <1>4 DEF Ordered, BeforeAll

LEMMA NothingOrdered ==
    ASSUME NEW w, NEW r
    PROVE  Ordered(w, r, <<>>) /\ \A n : AllBefore(w, r, <<>>, n) /\ BeforeAll(w, r, n, <<>>)
  BY DEF Ordered, AllBefore, BeforeAll

\* What is published comes after everything that was published before.
LEMMA FannedOutLast ==
    ASSUME Inv, failures = 0, NEW i \in Replicas, FanOut(i) \/ FanOutFails(i)
    PROVE  LET h == Head(held[i])
           IN  /\ h \in Numbers /\ via'[h] # NoOne
               /\ \A m \in Numbers : via[m] # NoOne =>
                     via'[m] # NoOne /\ Before(via', repeats', m, h)
               /\ \A m, n \in Numbers : via[m] # NoOne /\ via[n] # NoOne =>
                     (Before(via, repeats, m, n) => Before(via', repeats', m, n))
<1> DEFINE h == Head(held[i])
<1>1. TypeOK /\ OnePlace /\ FansOutInOrder
  BY DEF Inv, StreamInv, OrderInv
<1>2. HasNotification(i) /\ via' = [via EXCEPT ![h] = i] /\ UNCHANGED repeats
  BY DEF FanOut, FanOutFails
<1>3. /\ h = held[i][1] /\ 1 \in 1 .. Len(held[i]) /\ h \in Numbers
      /\ Waits(i, 1)
  BY <1>1, <1>2, HeadAndTail DEF HasNotification, TypeOK, Waits
<1> HIDE DEF h
<1>4. via[h] = NoOne /\ i # NoOne
  BY <1>1, <1>3, NoOneAssumption DEF OnePlace
<1>5. via'[h] = i /\ \A n \in Numbers : n # h => via'[n] = via[n]
  BY <1>1, <1>2, <1>3 DEF TypeOK
<1>6. ASSUME NEW m \in Numbers, via[m] # NoOne
      PROVE  via'[m] # NoOne /\ Before(via', repeats', m, h)
  <2>1. m # h /\ via'[m] = via[m]
    BY <1>4, <1>5, <1>6
  <2>2. via[m] = i => m < h
    BY <1>1, <1>3 DEF FansOutInOrder
  <2> QED
    BY <1>5, <1>6, <2>1, <2>2 DEF Before
<1>7. ASSUME NEW m \in Numbers, NEW n \in Numbers, via[m] # NoOne, via[n] # NoOne,
             Before(via, repeats, m, n)
      PROVE  Before(via', repeats', m, n)
  BY <1>2, <1>4, <1>5, <1>7 DEF Before
<1> QED
  BY <1>3, <1>4, <1>5, <1>6, <1>7 DEF h

LEMMA NextPipeline == Inv /\ [Next]_vars /\ failures = 0 /\ failures' = 0 => Pipeline'
<1> SUFFICES ASSUME Inv, [Next]_vars, failures = 0, failures' = 0
             PROVE  Pipeline'
  OBVIOUS
<1>t. TypeOK /\ SendsEvents /\ Pipeline /\ NewStreams /\ Snapshots
  BY DEF Inv, StreamInv, OrderInv
<1>n. /\ \A i \in Replicas : inbox[i] \in Seq(Numbers)
      /\ \A c \in Conns : got[c] \in Seq(Numbers)
      /\ \A i \in Replicas : toSend[i] # {} => sending[i] \in Numbers
      /\ \A c \in Conns : stream[c] # Off => stream[c].replica \in Replicas
  <2>1. /\ \A i \in Replicas : inbox[i] \in Seq(Numbers)
        /\ \A c \in Conns : got[c] \in Seq(Numbers)
    BY <1>t DEF TypeOK
  <2>2. \A i \in Replicas : toSend[i] # {} => sending[i] \in Numbers
    BY <1>t, BoundsAssumption DEF TypeOK, SendsEvents, Numbers
  <2>3. \A c \in Conns : stream[c] # Off => stream[c].replica \in Replicas
    BY <1>t, Running
  <2> QED
    BY <2>1, <2>2, <2>3
<1>e. /\ \A i \in Replicas : \A k \in 1 .. Len(inbox[i]) : inbox[i][k] \in Numbers
      /\ \A c \in Conns : \A k \in 1 .. Len(got[c]) : got[c][k] \in Numbers
  BY <1>n, ElementOfSeq
<1> USE DEF queueVars, fanoutVars, streamVars, historyVars
<1>1. ASSUME UNCHANGED <<inbox, toSend, sending, stream, got, via, repeats>>
      PROVE  Pipeline'
  BY <1>1, <1>t DEF Pipeline
<1>2. ASSUME NEW i \in Replicas,
             \/ Deliver(i) \/ GetGallery(i) \/ GalleryAnswers(i) \/ Ack(i)
             \/ Start(i) \/ Crash(i) \/ Drop(i)
      PROVE  Pipeline'
  <2>1. ~Crash(i) /\ ~Drop(i)
    BY DEF Crash, Drop
  <2> QED
    BY <1>1, <1>2, <2>1 DEF Deliver, GetGallery, GalleryAnswers, Ack, Start
<1>3. ASSUME UNCHANGED <<inbox, toSend, sending, via, repeats>>,
             \A c \in Conns :
                \/ got'[c] = <<>>
                \/ /\ got'[c] = got[c] /\ stream[c] # Off
                   /\ stream'[c] # Off => stream'[c].replica = stream[c].replica
                \/ got'[c] = got[c] /\ stream'[c] = stream[c]
      PROVE  Pipeline'
  <2>1. ASSUME NEW c \in Conns
        PROVE  /\ Ordered(via, repeats, got'[c])
               /\ stream'[c] # Off =>
                     LET i == stream'[c].replica
                     IN  /\ \A k \in 1 .. Len(inbox[i]) : AllBefore(via, repeats, got'[c], inbox[i][k])
                         /\ c \in toSend[i] => AllBefore(via, repeats, got'[c], sending[i])
    BY <1>3, <1>t, NothingOrdered DEF Pipeline
  <2> QED
    BY <1>3, <1>t, <2>1 DEF Pipeline
<1>4. ASSUME NEW c \in Conns,
             \/ HandlerStep(c) \/ ResolveFails(c) \/ Disconnect(c)
             \/ \E u \in Users, i \in Replicas : Open(c, u, i)
      PROVE  Pipeline'
  <2>1. UNCHANGED <<inbox, toSend, sending, via, repeats>>
    BY <1>4
    DEF HandlerStep, Resolve, Wait, Return, SubscribeTo, ResolveFails, Disconnect, Open
  <2>2. \A d \in Conns : d # c => got'[d] = got[d] /\ stream'[d] = stream[d]
    BY <1>4, <1>t
    DEF HandlerStep, Resolve, Wait, Return, SubscribeTo, ResolveFails, Disconnect, Open, TypeOK
  <2>3. CASE \E u \in Users, i \in Replicas : Open(c, u, i)
    <3>1. got'[c] = <<>>
      BY <2>3, <1>t, OffIsNoStream DEF Open, NewStreams
    <3> QED
      BY <1>3, <2>1, <2>2, <3>1
  <2>4. CASE Return(c) \/ ResolveFails(c)
    <3>1. got'[c] = <<>>
      BY <2>4, <1>t DEF Return, ResolveFails, TypeOK
    <3> QED
      BY <1>3, <2>1, <2>2, <3>1
  <2>5. CASE Resolve(c) \/ Wait(c) \/ Disconnect(c) \/ \E g \in Galleries : SubscribeTo(c, g)
    <3>1. stream[c] \in Streams /\ stream[c] # Off /\ UNCHANGED got
      BY <2>5, <1>t, Running, OffIsNoStream DEF Resolve, Wait, SubscribeTo, Disconnect, Alive
    <3>2. stream'[c].replica = stream[c].replica
      <4>1. stream \in [Conns -> Streams \cup {Off}]
        BY <1>t DEF TypeOK
      <4>2. CASE Resolve(c)
        BY <3>1, <4>1, <4>2 DEF Resolve, Streams
      <4>3. CASE Wait(c) \/ Disconnect(c)
        BY <3>1, <4>1, <4>3 DEF Wait, Disconnect, Streams
      <4>4. CASE \E g \in Galleries : SubscribeTo(c, g)
        BY <3>1, <4>1, <4>4 DEF SubscribeTo, Streams
      <4> QED
        BY <2>5, <4>2, <4>3, <4>4
    <3> QED
      BY <1>3, <2>1, <2>2, <3>1, <3>2
  <2> QED
    BY <1>4, <2>3, <2>4, <2>5 DEF HandlerStep
\* Event h is passed to some replicas, after everything they know of.
<1>5. ASSUME NEW h \in Numbers, via'[h] # NoOne,
             \A m \in Numbers : via[m] # NoOne =>
                via'[m] # NoOne /\ Before(via', repeats', m, h),
             \A m, n \in Numbers : via[m] # NoOne /\ via[n] # NoOne =>
                (Before(via, repeats, m, n) => Before(via', repeats', m, n)),
             UNCHANGED <<toSend, sending, stream, got>>,
             \E S \in SUBSET Replicas : Pass(h, S)
      PROVE  Pipeline'
  <2>1. /\ h \in Numbers /\ via'[h] # NoOne
        /\ \A m \in Numbers : via[m] # NoOne => via'[m] # NoOne /\ Before(via', repeats', m, h)
        /\ \A m, n \in Numbers : via[m] # NoOne /\ via[n] # NoOne =>
              (Before(via, repeats, m, n) => Before(via', repeats', m, n))
    BY <1>5
  <2>2. /\ UNCHANGED <<toSend, sending, stream, got>>
        /\ \A j \in Replicas : inbox'[j] = inbox[j] \/ inbox'[j] = Append(inbox[j], h)
    BY <1>5 DEF Pass
  <2>3. \A j \in Replicas : \A k \in 1 .. Len(inbox'[j]) :
           \/ k \in 1 .. Len(inbox[j]) /\ inbox'[j][k] = inbox[j][k]
           \/ inbox'[j][k] = h
    <3>1. ASSUME NEW j \in Replicas, NEW k \in 1 .. Len(inbox'[j]),
                 inbox'[j] = Append(inbox[j], h)
          PROVE  \/ k \in 1 .. Len(inbox[j]) /\ inbox'[j][k] = inbox[j][k]
                 \/ inbox'[j][k] = h
      <4>1. k \in 1 .. Len(inbox[j]) \/ k = Len(inbox[j]) + 1
        BY <1>n, <2>1, <3>1, Appended
      <4> QED
        BY <1>n, <2>1, <3>1, <4>1, Appended
    <3> QED
      BY <2>2, <3>1
  <2>4. \A s \in Seq(Numbers) : Ordered(via, repeats, s) => Ordered(via', repeats', s) /\ AllBefore(via', repeats', s, h)
    <3>1. ASSUME NEW s \in Seq(Numbers), Ordered(via, repeats, s)
          PROVE  Ordered(via', repeats', s) /\ AllBefore(via', repeats', s, h)
      <4>1. \A k \in 1 .. Len(s) : s[k] \in Numbers /\ via[s[k]] # NoOne
        BY <3>1, ElementOfSeq DEF Ordered
      <4> QED
        BY <2>1, <3>1, <4>1 DEF Ordered, AllBefore
    <3> QED
      BY <3>1
  <2>5. ASSUME NEW j \in Replicas
        PROVE  Ordered(via', repeats', inbox'[j])
    <3>1. Ordered(via', repeats', inbox[j]) /\ AllBefore(via', repeats', inbox[j], h)
      BY <1>t, <1>n, <2>4 DEF Pipeline
    <3> QED
      BY <1>n, <2>1, <2>2, <3>1, OrderedAppend
  <2>6. ASSUME NEW j \in Replicas, toSend[j] # {}
        PROVE  via'[sending[j]] # NoOne /\ BeforeAll(via', repeats', sending[j], inbox'[j])
    <3>1. /\ sending[j] \in Numbers /\ via[sending[j]] # NoOne
          /\ BeforeAll(via, repeats, sending[j], inbox[j])
      BY <1>t, <1>n, <2>6 DEF Pipeline
    <3>2. \A k \in 1 .. Len(inbox[j]) : inbox[j][k] \in Numbers /\ via[inbox[j][k]] # NoOne
      BY <1>t, <1>e DEF Pipeline, Ordered
    <3>3. \A k \in 1 .. Len(inbox'[j]) : Before(via', repeats', sending[j], inbox'[j][k])
      BY <2>1, <2>3, <3>1, <3>2 DEF BeforeAll
    <3> QED
      BY <2>1, <3>1, <3>3 DEF BeforeAll
  <2>7. ASSUME NEW c \in Conns, stream[c] # Off
        PROVE  LET j == stream[c].replica
               IN  /\ \A k \in 1 .. Len(inbox'[j]) : AllBefore(via', repeats', got[c], inbox'[j][k])
                   /\ c \in toSend[j] => AllBefore(via', repeats', got[c], sending[j])
    <3> DEFINE j == stream[c].replica
    <3>1. /\ j \in Replicas
          /\ \A k \in 1 .. Len(inbox[j]) : AllBefore(via, repeats, got[c], inbox[j][k])
          /\ c \in toSend[j] => AllBefore(via, repeats, got[c], sending[j])
      BY <1>t, <1>n, <2>7 DEF Pipeline
    <3> HIDE DEF j
    <3>2. AllBefore(via', repeats', got[c], h)
      BY <1>t, <1>n, <2>4 DEF Pipeline
    <3>3. ASSUME NEW n \in Numbers, via[n] # NoOne, AllBefore(via, repeats, got[c], n)
          PROVE  AllBefore(via', repeats', got[c], n)
      <4>1. \A k \in 1 .. Len(got[c]) : got[c][k] \in Numbers /\ via[got[c][k]] # NoOne
        BY <1>t, <1>e DEF Pipeline, Ordered
      <4> QED
        BY <2>1, <3>3, <4>1 DEF AllBefore
    <3>4. \A k \in 1 .. Len(inbox'[j]) : AllBefore(via', repeats', got[c], inbox'[j][k])
      <4>1. \A k \in 1 .. Len(inbox[j]) : inbox[j][k] \in Numbers /\ via[inbox[j][k]] # NoOne
        BY <1>t, <1>e, <3>1 DEF Pipeline, Ordered
      <4> QED
        BY <2>3, <3>1, <3>2, <3>3, <4>1
    <3>5. c \in toSend[j] => AllBefore(via', repeats', got[c], sending[j])
      <4>1. c \in toSend[j] => sending[j] \in Numbers /\ via[sending[j]] # NoOne
        BY <1>t, <1>n, <3>1 DEF Pipeline
      <4> QED
        BY <3>1, <3>3, <4>1
    <3> QED
      BY <3>4, <3>5 DEF j
  <2>8. \A c \in Conns : Ordered(via', repeats', got[c])
    BY <1>t, <1>n, <2>4 DEF Pipeline
  <2> QED
    BY <2>2, <2>5, <2>6, <2>7, <2>8 DEF Pipeline
<1>9. ASSUME NEW i \in Replicas, FanOut(i) \/ FanOutFails(i)
      PROVE  Pipeline'
  <2>1. UNCHANGED <<toSend, sending, stream, got>>
        /\ \E S \in SUBSET Replicas : Pass(Head(held[i]), S)
    BY <1>9 DEF FanOut, FanOutFails
  <2> QED
    BY <1>5, <1>9, <2>1, FannedOutLast
<1>10. ASSUME NEW n \in Numbers, Repeat(n)
       PROVE  Pipeline'
  <2>1. /\ UNCHANGED <<toSend, sending, stream, got, via>> /\ via[n] # NoOne
        /\ \E S \in SUBSET Replicas : Pass(n, S)
    BY <1>10 DEF Repeat
  <2>2. repeats'[n] > 0 /\ \A m \in Numbers : repeats[m] > 0 => repeats'[m] > 0
    BY <1>10, <1>t, BoundsAssumption DEF Repeat, TypeOK
  <2>3. \A m \in Numbers : Before(via', repeats', m, n)
    BY <2>2 DEF Before
  <2>4. \A m, k \in Numbers : Before(via, repeats, m, k) => Before(via', repeats', m, k)
    BY <2>1, <2>2 DEF Before
  <2> QED
    BY <1>5, <2>1, <2>3, <2>4
<1>6. ASSUME NEW i \in Replicas, Apply(i)
      PROVE  Pipeline'
  <2> DEFINE h == Head(inbox[i])
  <2>1. /\ inbox[i] # <<>> /\ inbox'[i] = Tail(inbox[i])
        /\ toSend'[i] # {} => sending'[i] = h
        /\ \A j \in Replicas : j # i => /\ inbox'[j] = inbox[j] /\ toSend'[j] = toSend[j]
                                        /\ sending'[j] = sending[j]
        /\ UNCHANGED <<stream, got, via, repeats>>
    BY <1>6, <1>t DEF Apply, TypeOK
  <2>2. Ordered(via, repeats, inbox'[i]) /\ via[h] # NoOne /\ BeforeAll(via, repeats, h, inbox'[i])
    BY <1>t, <1>n, <2>1, OrderedTail DEF Pipeline
  <2>3. /\ 1 \in 1 .. Len(inbox[i]) /\ h = inbox[i][1]
        /\ \A k \in 1 .. Len(inbox'[i]) : k + 1 \in 1 .. Len(inbox[i])
                                          /\ inbox'[i][k] = inbox[i][k + 1]
    BY <1>n, <2>1, HeadAndTail
  <2> HIDE DEF h
  <2>4. ASSUME NEW j \in Replicas
        PROVE  /\ Ordered(via, repeats, inbox'[j])
               /\ toSend'[j] # {} => /\ via[sending'[j]] # NoOne
                                     /\ BeforeAll(via, repeats, sending'[j], inbox'[j])
    <3>1. CASE j = i
      BY <2>1, <2>2, <3>1
    <3>2. CASE j # i
      BY <1>t, <2>1, <3>2 DEF Pipeline
    <3> QED
      BY <3>1, <3>2
  <2>5. ASSUME NEW c \in Conns, stream[c] # Off
        PROVE  LET j == stream[c].replica
               IN  /\ \A k \in 1 .. Len(inbox'[j]) : AllBefore(via, repeats, got[c], inbox'[j][k])
                   /\ c \in toSend'[j] => AllBefore(via, repeats, got[c], sending'[j])
    <3> DEFINE j == stream[c].replica
    <3>1. /\ j \in Replicas
          /\ \A k \in 1 .. Len(inbox[j]) : AllBefore(via, repeats, got[c], inbox[j][k])
          /\ c \in toSend[j] => AllBefore(via, repeats, got[c], sending[j])
      BY <1>t, <1>n, <2>5 DEF Pipeline
    <3> HIDE DEF j
    <3>2. CASE j = i
      BY <2>1, <2>3, <3>1, <3>2 DEF j
    <3>3. CASE j # i
      BY <2>1, <3>1, <3>3 DEF j
    <3> QED
      BY <3>2, <3>3
  <2>6. \A c \in Conns : Ordered(via, repeats, got[c])
    BY <1>t DEF Pipeline
  <2> QED
    BY <2>1, <2>4, <2>5, <2>6 DEF Pipeline
<1>7. ASSUME NEW i \in Replicas, NEW c \in Conns, Send(i, c)
      PROVE  Pipeline'
  <2>1. /\ c \in toSend[i] /\ toSend'[i] = toSend[i] \ {c}
        /\ toSend'[i] # {} => sending'[i] = sending[i]
        /\ \A j \in Replicas : j # i => toSend'[j] = toSend[j] /\ sending'[j] = sending[j]
        /\ UNCHANGED <<inbox, stream, via, repeats>>
        /\ \A d \in Conns : d # c => got'[d] = got[d]
    BY <1>7, <1>t DEF Send, TypeOK
  <2>2. /\ sending[i] \in Numbers /\ via[sending[i]] # NoOne
        /\ BeforeAll(via, repeats, sending[i], inbox[i])
    BY <1>t, <1>n, <2>1 DEF Pipeline
  <2>3. ASSUME NEW j \in Replicas
        PROVE  /\ Ordered(via, repeats, inbox[j])
               /\ toSend'[j] # {} => /\ via[sending'[j]] # NoOne
                                     /\ BeforeAll(via, repeats, sending'[j], inbox[j])
    BY <1>t, <2>1 DEF Pipeline
  <2>4. ASSUME NEW d \in Conns, stream[d] # Off, got'[d] = got[d]
        PROVE  LET j == stream[d].replica
               IN  /\ \A k \in 1 .. Len(inbox[j]) : AllBefore(via, repeats, got'[d], inbox[j][k])
                   /\ d \in toSend'[j] => AllBefore(via, repeats, got'[d], sending'[j])
    <3> DEFINE j == stream[d].replica
    <3>1. /\ j \in Replicas
          /\ \A k \in 1 .. Len(inbox[j]) : AllBefore(via, repeats, got[d], inbox[j][k])
          /\ d \in toSend[j] => AllBefore(via, repeats, got[d], sending[j])
      BY <1>t, <1>n, <2>4 DEF Pipeline
    <3>2. d \in toSend'[j] => d \in toSend[j] /\ sending'[j] = sending[j]
      BY <2>1, <3>1
    <3> QED
      BY <2>4, <3>1, <3>2
  <2>5. CASE got'[c] = got[c]
    <3>1. \A d \in Conns : got'[d] = got[d]
      BY <2>1, <2>5
    <3>2. \A d \in Conns : Ordered(via, repeats, got'[d])
      BY <1>t, <3>1 DEF Pipeline
    <3> QED
      BY <2>1, <2>3, <2>4, <3>1, <3>2 DEF Pipeline
  <2>6. CASE Alive(c)
    <3>1. stream[c] # Off /\ stream[c].replica = i
      BY <1>t, <2>1, <2>6 DEF Alive, Snapshots
    <3>2. got'[c] = Append(got[c], sending[i])
      BY <1>7, <1>t, <2>6 DEF Send, TypeOK
    <3>3. Ordered(via, repeats, got[c]) /\ AllBefore(via, repeats, got[c], sending[i])
      BY <1>t, <2>1, <3>1 DEF Pipeline
    <3>4. Ordered(via, repeats, got'[c])
      BY <1>n, <2>2, <3>2, <3>3, OrderedAppend
    <3>5. \A k \in 1 .. Len(got'[c]) :
             (k \in 1 .. Len(got[c]) /\ got'[c][k] = got[c][k]) \/ got'[c][k] = sending[i]
      <4>1. \A k \in 1 .. Len(got'[c]) : k \in 1 .. Len(got[c]) \/ k = Len(got[c]) + 1
        BY <1>n, <2>2, <3>2, Appended
      <4> QED
        BY <1>n, <2>2, <3>2, <4>1, Appended
    <3>6. \A k \in 1 .. Len(inbox[i]) : AllBefore(via, repeats, got'[c], inbox[i][k])
      <4>1. \A k \in 1 .. Len(inbox[i]) : AllBefore(via, repeats, got[c], inbox[i][k])
        BY <1>t, <3>1 DEF Pipeline
      <4> QED
        BY <2>2, <3>5, <4>1 DEF AllBefore, BeforeAll
    <3>7. \A d \in Conns : Ordered(via, repeats, got'[d])
      BY <1>t, <2>1, <3>4 DEF Pipeline
    <3>8. c \notin toSend'[i]
      BY <2>1
    <3> QED
      BY <2>1, <2>3, <2>4, <3>1, <3>6, <3>7, <3>8 DEF Pipeline
  <2> QED
    BY <1>7, <2>5, <2>6 DEF Send
<1>8. CASE UNCHANGED vars \/ \E g \in Galleries : PublishEvent(g)
  BY <1>1, <1>8 DEF vars, PublishEvent
<1> QED
  BY <1>2, <1>4, <1>6, <1>7, <1>8, <1>9, <1>10 DEF Next, ReplicaStep

-----------------------------------------------------------------------------
(* The invariant and what it says.                                         *)

LEMMA InitInv == Init => Inv
<1> SUFFICES ASSUME Init
             PROVE  Inv
  OBVIOUS
<1>1. TypeOK
  BY InitTypes
<1>2. SendsEvents /\ PublishedOnly
  BY LenProperties, EmptySeq DEF Init, SendsEvents, PublishedOnly, InBounds
<1>3. Registrations
  BY OffIsNoStream
  DEF Init, Registrations, RegisteredHasHandler, SubsResolved, NewStreams, Snapshots,
      OnlyResolved
<1>4. Queues
  BY DEF Init, Queues, OnePlace, FansOutInOrder, Increasing, Waits, Numbers
<1>5. Pipeline
  BY NothingOrdered DEF Init, Pipeline
<1> QED
  BY <1>1, <1>2, <1>3, <1>4, <1>5 DEF Inv, StreamInv, OrderInv, Registrations, Queues

LEMMA FailuresStay == TypeOK /\ [Next]_vars /\ failures' = 0 => failures = 0
<1> SUFFICES ASSUME TypeOK, [Next]_vars, failures' = 0
             PROVE  failures = 0
  OBVIOUS
<1>1. \A i \in Replicas : ~Crash(i) /\ ~Drop(i)
  BY BoundsAssumption DEF Crash, Drop, TypeOK
<1> QED
  BY <1>1
  DEF Next, ReplicaStep, HandlerStep, PublishEvent, Open, Resolve, Wait, Return, SubscribeTo,
      ResolveFails, Disconnect, Deliver, GetGallery, GalleryAnswers, FanOut, FanOutFails,
      Ack, Apply, Send, Start, Repeat, vars

LEMMA NextInv == Inv /\ [Next]_vars => Inv'
<1> SUFFICES ASSUME Inv, [Next]_vars
             PROVE  Inv'
  OBVIOUS
<1>1. StreamInv'
  BY NextTypes, NextPublished, NextRegistrations DEF Inv, StreamInv, Registrations
<1>2. OrderInv'
  BY NextQueues, NextPipeline, FailuresStay DEF Inv, StreamInv, OrderInv, Queues
<1> QED
  BY <1>1, <1>2 DEF Inv

\* No step from Init on breaks the invariant, whatever fails.
THEOREM Invariant == Spec => []Inv
  BY InitInv, NextInv, PTL DEF Spec

\* Every variable has its type, for any number of replicas, streams and failures.
THEOREM TypeCorrect == Spec => []TypeOK
<1>1. Inv => TypeOK
  BY DEF Inv, StreamInv
<1> QED
  BY <1>1, Invariant, PTL

\* RegisteredHasHandler for any number of streams: whichever of the handler and a
\* failed Send removes a connection, the registry of no replica keeps it longer than
\* its RPC.
THEOREM RegisteredHaveHandlers == Spec => []RegisteredHasHandler
<1>1. Inv => RegisteredHasHandler
  BY DEF Inv, StreamInv
<1> QED
  BY <1>1, Invariant, PTL

\* OnlyResolved for any number of galleries and events: a stream receives nothing of a
\* gallery that was not resolved for it, by whatever snapshot.
THEOREM ReceivesResolvedOnly == Spec => []OnlyResolved
<1>1. Inv => OnlyResolved
  BY DEF Inv, StreamInv
<1> QED
  BY <1>1, Invariant, PTL

\* OnceAndInOrder for any number of replicas, events and streams, any prefetch and
\* any number of copies that go-redis may publish.
THEOREM ReceivesOnceInOrder == Spec => []OnceAndInOrder
<1>1. Inv => OnceAndInOrder
  BY DEF Inv, OrderInv, Pipeline, Ordered, Before, OnceAndInOrder
<1> QED
  BY <1>1, Invariant, PTL

-----------------------------------------------------------------------------
(* The registry as the service uses it: all replicas' together, with the   *)
(* user each handler has registered its connection for.                    *)

Owns == {<<c, stream[c].user>> : c \in registered}

Promised == INSTANCE Subscriptions WITH owns <- Owns, subs <- subs

\* A crash loses a replica's registry and its streams; every other step is one of
\* the operations that Subscriptions promises, or leaves the registries alone.
UsesSubscriptions == [][Promised!Next \/ \E i \in Replicas : Crash(i)]_<<Owns, subs>>

StartsEmpty == Promised!Init

LEMMA OwnsStay ==
    ASSUME UNCHANGED registered, \A c \in registered : stream'[c].user = stream[c].user
    PROVE  UNCHANGED Owns
  BY DEF Owns

\* Who is registered is a connection, whose handler serves a user.
LEMMA OwnersAreUsers ==
    ASSUME Inv, NEW c \in Conns
    PROVE  /\ stream[c] \in Streams \cup {Off}
           /\ stream[c].at # "off" => stream[c].user \in Users
           /\ c \in registered => stream[c].at \in {"registering", "live"}
<1>1. stream[c] \in Streams \cup {Off}
  BY DEF Inv, StreamInv, TypeOK
<1>2. Off.at = "off" /\ \A x \in Streams : x.user \in Users
  BY DEF Off, Streams
<1>3. c \in registered => stream[c].at \in {"registering", "live"}
  BY DEF Inv, StreamInv, RegisteredHasHandler
<1> QED
  BY <1>1, <1>2, <1>3

\* Removing a connection is Disconnect, whoever does it.
LEMMA RemovalIsPromised ==
    ASSUME Inv, NEW c \in Conns, registered' = registered \ {c}, subs' = subs \ SubsOf({c}),
           \A d \in Conns \ {c} : stream'[d].user = stream[d].user
    PROVE  Promised!Next
<1>0. registered \subseteq Conns /\ subs \subseteq Conns \X Galleries
  BY DEF Inv, StreamInv, TypeOK
<1>1. Owns' = Owns \ {<<c, u>> : u \in Users}
  <2>1. ASSUME NEW o \in Owns'
        PROVE  o \in Owns \ {<<c, u>> : u \in Users}
    <3>1. PICK d \in registered \ {c} : o = <<d, stream'[d].user>>
      BY <2>1 DEF Owns
    <3>2. o = <<d, stream[d].user>> /\ d # c /\ d \in registered
      BY <1>0, <3>1
    <3> QED
      BY <3>2 DEF Owns
  <2>2. ASSUME NEW o \in Owns, o \notin {<<c, u>> : u \in Users}
        PROVE  o \in Owns'
    <3>1. PICK d \in registered : o = <<d, stream[d].user>>
      BY DEF Owns
    <3>2. stream[d].user \in Users
      BY <1>0, OwnersAreUsers
    <3>3. d # c
      BY <2>2, <3>1, <3>2
    <3>4. d \in registered' /\ o = <<d, stream'[d].user>>
      BY <1>0, <3>1, <3>3
    <3> QED
      BY <3>4 DEF Owns
  <2> QED
    BY <2>1, <2>2
<1>2. subs' = subs \ {<<c, g>> : g \in Galleries}
  <2>1. \A p \in subs : p[1] = c <=> p \in {<<c, g>> : g \in Galleries}
    BY <1>0
  <2> QED
    BY <2>1 DEF SubsOf
<1>3. Promised!Disconnect(c)
  BY <1>1, <1>2 DEF Promised!Disconnect
<1> QED
  BY <1>3 DEF Promised!Next

LEMMA StepIsPromised ==
    ASSUME Inv, [Next]_vars
    PROVE  [Promised!Next \/ \E i \in Replicas : Crash(i)]_<<Owns, subs>>
<1> USE DEF streamVars
<1>t. stream \in [Conns -> Streams \cup {Off}] /\ registered \subseteq Conns
  BY DEF Inv, StreamInv, TypeOK
<1>1. ASSUME NEW c \in Conns, Resolve(c)
      PROVE  Promised!Next
  <2>1. c \notin registered /\ stream[c].user \in Users
    BY <1>1, OwnersAreUsers DEF Resolve
  <2>2. stream'[c].user = stream[c].user
    <3>1. stream[c] \in Streams
      BY <1>1, OwnersAreUsers DEF Resolve, Off
    <3>2. PICK mine \in SUBSET Galleries :
             stream' = [stream EXCEPT ![c].at = "registering", ![c].resolved = mine,
                                      ![c].todo = mine]
      BY <1>1 DEF Resolve, ListGalleriesByMember
    <3>3. stream'[c] = [stream[c] EXCEPT !.at = "registering", !.resolved = mine, !.todo = mine]
      BY <1>t, <3>2
    <3> QED
      BY <3>1, <3>3 DEF Streams
  <2>3. \A d \in registered : stream'[d].user = stream[d].user
    BY <1>t, <1>1, <2>1 DEF Resolve
  <2>4. registered' = registered \cup {c} /\ UNCHANGED subs
    BY <1>1 DEF Resolve
  <2>5. Owns' = Owns \cup {<<c, stream[c].user>>}
    BY <2>2, <2>3, <2>4 DEF Owns
  <2>6. \A v \in Users : <<c, v>> \notin Owns
    BY <2>1 DEF Owns
  <2>7. Promised!Connect(c, stream[c].user)
    BY <2>4, <2>5, <2>6 DEF Promised!Connect
  <2> QED
    BY <2>1, <2>7 DEF Promised!Next
<1>2. ASSUME NEW c \in Conns, NEW g \in Galleries, SubscribeTo(c, g)
      PROVE  Promised!Next \/ UNCHANGED <<Owns, subs>>
  <2>1. stream[c] \in Streams
    BY <1>2, OwnersAreUsers DEF SubscribeTo, Off
  <2>2. stream'[c].user = stream[c].user /\ \A d \in registered : d # c => stream'[d] = stream[d]
    <3>1. stream' = [stream EXCEPT ![c] = [stream[c] EXCEPT !.todo = stream[c].todo \ {g}]]
      BY <1>t, <1>2 DEF SubscribeTo
    <3>2. [stream[c] EXCEPT !.todo = stream[c].todo \ {g}].user = stream[c].user
      BY <2>1 DEF Streams
    <3> QED
      BY <1>t, <3>1, <3>2
  <2>3. UNCHANGED Owns
    BY <1>2, <2>2, OwnsStay DEF SubscribeTo
  <2>4. CASE c \in registered
    <3>1. <<c, stream[c].user>> \in Owns /\ stream[c].user \in Users
      BY <2>1, <2>4 DEF Owns, Streams
    <3>2. subs' = subs \cup {<<c, g>>}
      BY <1>2, <2>4 DEF SubscribeTo
    <3>3. Promised!Subscribe(c, g)
      BY <2>3, <3>1, <3>2 DEF Promised!Subscribe
    <3> QED
      BY <3>3 DEF Promised!Next
  <2>5. CASE c \notin registered
    BY <1>2, <2>3, <2>5 DEF SubscribeTo
  <2> QED
    BY <2>4, <2>5
<1>3. ASSUME NEW c \in Conns, Return(c)
      PROVE  Promised!Next
  <2>1. \A d \in Conns \ {c} : stream'[d].user = stream[d].user
    BY <1>t, <1>3 DEF Return
  <2> QED
    BY <1>3, <2>1, RemovalIsPromised DEF Return
<1>4. ASSUME NEW c \in Conns, Wait(c) \/ Disconnect(c) \/ ResolveFails(c)
      PROVE  UNCHANGED <<Owns, subs>>
  <2>1. UNCHANGED <<registered, subs>>
    BY <1>4 DEF Wait, Disconnect, ResolveFails
  <2>2. \A d \in registered : d # c => stream'[d] = stream[d]
    BY <1>t, <1>4 DEF Wait, Disconnect, ResolveFails
  <2>3. c \in registered => stream'[c].user = stream[c].user
    <3>1. SUFFICES ASSUME c \in registered
                   PROVE  stream'[c].user = stream[c].user
      OBVIOUS
    <3>2. stream[c] \in Streams /\ ~ResolveFails(c)
      BY <3>1, OwnersAreUsers DEF ResolveFails, Off
    <3>3. CASE Wait(c)
      <4>1. stream'[c] = [stream[c] EXCEPT !.at = "live"]
        BY <1>t, <3>3 DEF Wait
      <4> QED
        BY <3>2, <4>1 DEF Streams
    <3>4. CASE Disconnect(c)
      <4>1. stream'[c] = [stream[c] EXCEPT !.gone = TRUE]
        BY <1>t, <3>4 DEF Disconnect
      <4> QED
        BY <3>2, <4>1 DEF Streams
    <3> QED
      BY <1>4, <3>2, <3>3, <3>4
  <2> QED
    BY <2>1, <2>2, <2>3, OwnsStay
<1>5. ASSUME NEW c \in Conns, NEW u \in Users, NEW i \in Replicas, Open(c, u, i)
      PROVE  UNCHANGED <<Owns, subs>>
  <2>1. UNCHANGED <<registered, subs>> /\ stream[c] = Off
    BY <1>5 DEF Open
  <2>2. c \notin registered
    BY <2>1, OwnersAreUsers DEF Off
  <2>3. \A d \in registered : stream'[d] = stream[d]
    BY <1>t, <1>5, <2>2 DEF Open
  <2> QED
    BY <2>1, <2>3, OwnsStay
<1>6. ASSUME NEW i \in Replicas, NEW c \in Conns, Send(i, c)
      PROVE  Promised!Next \/ UNCHANGED <<Owns, subs>>
  <2>1. UNCHANGED stream
    BY <1>6 DEF Send
  <2>2. CASE Alive(c)
    BY <1>6, <2>1, <2>2, OwnsStay DEF Send
  <2>3. CASE ~Alive(c)
    BY <1>6, <2>1, <2>3, RemovalIsPromised DEF Send
  <2> QED
    BY <2>2, <2>3
<1>7. CASE UNCHANGED streamVars
  BY <1>7, OwnsStay
<1>8. \/ \E c \in Conns : \/ Resolve(c) \/ Return(c)
                          \/ \E g \in Galleries : SubscribeTo(c, g)
                          \/ Wait(c) \/ Disconnect(c) \/ ResolveFails(c)
      \/ \E c \in Conns, u \in Users, i \in Replicas : Open(c, u, i)
      \/ \E i \in Replicas, c \in Conns : Send(i, c)
      \/ \E i \in Replicas : Crash(i)
      \/ UNCHANGED streamVars
  BY DEF Next, HandlerStep, ReplicaStep, PublishEvent, Deliver, GetGallery, GalleryAnswers,
         FanOut, FanOutFails, Ack, Apply, Start, Drop, Repeat, vars
<1> QED
  BY <1>1, <1>2, <1>3, <1>4, <1>5, <1>6, <1>7, <1>8

\* What Registry is proved to implement is what the service does with its registry:
\* handlers and failing sends together never register a connection twice, never
\* subscribe one that is not registered, and remove all of a connection or nothing.
THEOREM UsedAsPromised == Spec => StartsEmpty /\ UsesSubscriptions
<1>1. Init => StartsEmpty
  BY DEF Init, StartsEmpty, Promised!Init, Owns
<1>2. Inv /\ [Next]_vars => [Promised!Next \/ \E i \in Replicas : Crash(i)]_<<Owns, subs>>
  BY StepIsPromised
<1> QED
  BY <1>1, <1>2, Invariant, PTL DEF Spec, UsesSubscriptions
=============================================================================
