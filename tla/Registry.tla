------------------------------ MODULE Registry ------------------------------
(***************************************************************************)
(* The connection registry of one replica of the Notification Service      *)
(* (internal/notification/registry.go): three indexes over one set of      *)
(* client objects, every method one critical section of r.mu, except       *)
(* Notify, which takes a snapshot under the lock and sends outside it.     *)
(*                                                                         *)
(* A Go map is a function on the keys it holds, so a key with an empty     *)
(* inner map differs from a missing key.  A *Client is its connection id.  *)
(***************************************************************************)
EXTENDS FiniteSets

CONSTANTS Users, Galleries, Conns

VARIABLES
    connections,    \* connection -> [user, galleries]
    clients,        \* user -> its connections
    galleries,      \* gallery -> its connections
    toSend          \* clients the running Notify has still to send to

vars == <<connections, clients, galleries, toSend>>

EmptyMap == [x \in {} |-> {}]

\* m with key k bound to v.
Put(m, k, v) == [x \in DOMAIN m \cup {k} |-> IF x = k THEN v ELSE m[x]]

\* The set m holds for k, empty when there is none.
Entry(m, k) == IF k \in DOMAIN m THEN m[k] ELSE {}

\* m without the keys K.
Without(m, K) == [x \in DOMAIN m \ K |-> m[x]]

\* m with the connections S taken out of the inner maps of keys K, and the inner
\* maps this leaves empty deleted.
TakeOut(m, K, S) ==
    LET left(k) == IF k \in K THEN m[k] \ S ELSE m[k]
    IN  [k \in {x \in DOMAIN m : ~(x \in K /\ m[x] \ S = {})} |-> left(k)]

Maps(K, V) == UNION {[D -> V] : D \in SUBSET K}

TypeOK ==
    /\ connections \in Maps(Conns, [user : Users, galleries : SUBSET Galleries])
    /\ clients \in Maps(Users, SUBSET Conns)
    /\ galleries \in Maps(Galleries, SUBSET Conns)
    /\ toSend \subseteq Conns

Init ==
    /\ connections = EmptyMap
    /\ clients = EmptyMap
    /\ galleries = EmptyMap
    /\ toSend = {}

-----------------------------------------------------------------------------
\* uuid.New returns an id that nobody knows.
CreateClient(c, u) ==
    /\ c \notin DOMAIN connections \cup toSend
    /\ connections' = Put(connections, c, [user |-> u, galleries |-> {}])
    /\ clients' = Put(clients, u, Entry(clients, u) \cup {c})
    /\ UNCHANGED <<galleries, toSend>>

\* Fault: the connection is not looked up first.
MutSubscribe(c, g) ==
    /\ connections' = IF c \in DOMAIN connections
                      THEN [connections EXCEPT ![c].galleries = @ \cup {g}]
                      ELSE connections
    /\ galleries' = Put(galleries, g, Entry(galleries, g) \cup {c})
    /\ UNCHANGED <<clients, toSend>>

\* Subscribing a connection that is gone, or twice, does nothing.
Subscribe(c, g) ==
    /\ c \in DOMAIN connections
    /\ g \notin connections[c].galleries
    /\ connections' = [connections EXCEPT ![c].galleries = @ \cup {g}]
    /\ galleries' = Put(galleries, g, Entry(galleries, g) \cup {c})
    /\ UNCHANGED <<clients, toSend>>

\* The client objects once those of S have been given gallery g, or have lost it.
Add(S, g) ==
    [c \in DOMAIN connections |->
        IF c \in S THEN [connections[c] EXCEPT !.galleries = @ \cup {g}]
        ELSE connections[c]]

Remove(S, g) ==
    [c \in DOMAIN connections |->
        IF c \in S THEN [connections[c] EXCEPT !.galleries = @ \ {g}]
        ELSE connections[c]]

\* Fault: only the gallery index is updated.
MutAddGalleryForClient(g, u) ==
    /\ u \in DOMAIN clients
    /\ galleries' = Put(galleries, g, Entry(galleries, g) \cup clients[u])
    /\ UNCHANGED <<connections, clients, toSend>>

AddGalleryForClient(g, u) ==
    /\ u \in DOMAIN clients
    /\ galleries' = Put(galleries, g, Entry(galleries, g) \cup clients[u])
    /\ connections' = Add(clients[u], g)
    /\ UNCHANGED <<clients, toSend>>

\* Only the connections subscribed to g are touched.
Unsubscribe(g, u) ==
    /\ u \in DOMAIN clients
    /\ LET S == {c \in clients[u] : g \in connections[c].galleries}
       IN  /\ connections' = Remove(S, g)
           /\ galleries' = IF S = {} THEN galleries ELSE TakeOut(galleries, {g}, S)
    /\ UNCHANGED <<clients, toSend>>

\* The body of RemoveClient once it has found the connection.
Forget(c) ==
    /\ connections' = Without(connections, {c})
    /\ clients' = TakeOut(clients, {connections[c].user}, {c})
    /\ galleries' = TakeOut(galleries, connections[c].galleries, {c})

\* The deferred RemoveClient of the Subscribe RPC.
RemoveClient(c) ==
    /\ c \in DOMAIN connections
    /\ Forget(c)
    /\ UNCHANGED toSend

\* Notify runs on the broadcaster's only goroutine: one at a time.
Notify(g) ==
    /\ toSend = {}
    /\ g \in DOMAIN galleries
    /\ toSend' = galleries[g]
    /\ UNCHANGED <<connections, clients, galleries>>

SendOk(c) ==
    /\ c \in toSend
    /\ toSend' = toSend \ {c}
    /\ UNCHANGED <<connections, clients, galleries>>

\* A failed Send removes the connection, which may be gone already.
SendFails(c) ==
    /\ c \in toSend
    /\ toSend' = toSend \ {c}
    /\ IF c \in DOMAIN connections THEN Forget(c)
       ELSE UNCHANGED <<connections, clients, galleries>>

Next ==
    \/ \E c \in Conns, u \in Users : CreateClient(c, u)
    \/ \E c \in Conns, g \in Galleries : Subscribe(c, g)
    \/ \E g \in Galleries, u \in Users : AddGalleryForClient(g, u) \/ Unsubscribe(g, u)
    \/ \E c \in Conns : RemoveClient(c) \/ SendOk(c) \/ SendFails(c)
    \/ \E g \in Galleries : Notify(g)

Spec == Init /\ [][Next]_vars

-----------------------------------------------------------------------------
\* The user index lists exactly the live connections of each user, and has a key
\* for every user that has one.
ClientsIndexed ==
    /\ \A u \in DOMAIN clients :
         clients[u] = {c \in DOMAIN connections : connections[c].user = u}
    /\ \A c \in DOMAIN connections : connections[c].user \in DOMAIN clients

\* The fan-out index lists exactly the connections whose client object has the
\* gallery, and has a key for every such gallery.
GalleriesIndexed ==
    /\ \A g \in DOMAIN galleries :
         galleries[g] = {c \in DOMAIN connections : g \in connections[c].galleries}
    /\ \A c \in DOMAIN connections : connections[c].galleries \subseteq DOMAIN galleries

\* The three indexes agree after every method, whatever order connects,
\* subscriptions, departures and failed sends come in.
IndexesAgree == ClientsIndexed /\ GalleriesIndexed

\* Disconnected users and deserted galleries leave no key behind: the maps do
\* not grow with the connections there once were.
NoEmptyEntry ==
    /\ \A u \in DOMAIN clients : clients[u] # {}
    /\ \A g \in DOMAIN galleries : galleries[g] # {}

\* Three maps kept in step by hand by seven methods hold the same connections and
\* subscriptions and nothing else.
IndexesExact == IndexesAgree /\ NoEmptyEntry

\* Read off the indexes that Notify and the per-user methods use, the registry
\* is the pair of relations that Subscriptions specifies.
Owners == {p \in Conns \X Users : p[1] \in Entry(clients, p[2])}

Subscribed == {p \in Conns \X Galleries : p[1] \in Entry(galleries, p[2])}

Abstract == INSTANCE Subscriptions WITH owns <- Owners, subs <- Subscribed

\* Every method has the effect Subscriptions gives it, and Notify none.
ImplementsSubscriptions == Abstract!Spec
=============================================================================
