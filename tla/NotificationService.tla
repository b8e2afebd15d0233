------------------------- MODULE NotificationService -------------------------
(***************************************************************************)
(* From the exchange to the browser: the replicas of the Notification      *)
(* Service compete for one durable RabbitMQ queue (cmd/notification,       *)
(* consumer.go), fan every notification out to all replicas over Redis     *)
(* Pub/Sub (broadcast.go), and each replica sends it to the streams its    *)
(* own registry lists for the gallery (registry.go, grpc.go).              *)
(*                                                                         *)
(* The registry is taken as Subscriptions specifies it (Registry refines   *)
(* it): registered is the set of connections, subs the pairs of connection *)
(* and gallery.  RabbitMQ, Redis and the Gallery Service, which says what  *)
(* galleries are whose, are external; an event is its number, sent[n] its  *)
(* gallery.                                                                *)
(***************************************************************************)
EXTENDS FiniteSets, Integers, Sequences

CONSTANTS Users, Galleries, Conns, Replicas,
          Prefetch,     \* unacknowledged deliveries per replica (Qos)
          MaxEvents,    \* bound on the events published
          Faults,       \* the faults that may happen
          MaxFailures,  \* bound on crashes, dropped channels and events that
                        \* Redis loses or gets again
          MaxRetries,   \* further copies of a PUBLISH (go-redis: 3 retries)
          NoOne         \* no user, no replica

ASSUME BoundsAssumption ==
    Prefetch \in Nat \ {0} /\ MaxEvents \in Nat /\ MaxFailures \in Nat
    /\ MaxRetries \in Nat

ASSUME ChoicesAssumption ==
    Faults \subseteq {"crash", "drop", "redis"}

ASSUME NoOneAssumption == NoOne \notin Users \cup Replicas

VARIABLES
    sent,         \* sent[n]: the gallery of the n-th event published
    queue,        \* events ready in the RabbitMQ queue
    held,         \* held[i]: events delivered to i and not acknowledged
    handling,     \* handling[i]: how far handle is with the first of them
    consuming,    \* consuming[i]: i's AMQP channel is open
    up,           \* up[i]: replica i runs
    inbox,        \* inbox[i]: events received from Redis, not yet applied
    sending,      \* sending[i]: the event the running Notify of i sends
    toSend,       \* toSend[i]: the connections it has still to send to
    stream,       \* stream[c]: the Subscribe handler of connection c
    registered,   \* connections in their replica's registry
    subs,         \* pairs <<connection, gallery>> in it
    got,          \* got[c]: what connection c has received, in order
    due,          \* history: events published while c was subscribed
    via,          \* history: the replica that has published an event last
    repeats,      \* history: the further copies Redis has got of an event
    lost,         \* history: events that Redis has lost for some replica
    failures      \* crashes and dropped channels so far

queueVars == <<queue, held, handling, consuming>>
fanoutVars == <<inbox, sending, toSend>>
streamVars == <<stream, registered, subs>>
historyVars == <<via, repeats, lost>>
vars == <<sent, queueVars, up, fanoutVars, streamVars, got, due,
          historyVars, failures>>

Off == [at |-> "off", user |-> NoOne, replica |-> NoOne,
        resolved |-> {}, todo |-> {}, gone |-> FALSE]

Streams == [at : {"resolving", "registering", "live"}, user : Users,
            replica : Replicas, resolved : SUBSET Galleries,
            todo : SUBSET Galleries, gone : BOOLEAN]

Numbers == 1 .. MaxEvents

TypeOK ==
    /\ sent \in Seq(Galleries) /\ Len(sent) <= MaxEvents
    /\ queue \in Seq(Numbers)
    /\ held \in [Replicas -> Seq(Numbers)]
    /\ \A i \in Replicas : Len(held[i]) <= Prefetch
    /\ handling \in [Replicas -> {"none", "asking", "named", "acking"}]
    /\ \A i \in Replicas : handling[i] # "none" => held[i] # <<>>
    /\ consuming \in [Replicas -> BOOLEAN]
    /\ up \in [Replicas -> BOOLEAN]
    /\ inbox \in [Replicas -> Seq(Numbers)]
    /\ sending \in [Replicas -> 0 .. MaxEvents]
    /\ toSend \in [Replicas -> SUBSET Conns]
    /\ stream \in [Conns -> Streams \cup {Off}]
    /\ registered \subseteq Conns
    /\ subs \subseteq Conns \X Galleries
    /\ got \in [Conns -> Seq(Numbers)]
    /\ due \in [Conns -> SUBSET Numbers]
    /\ via \in [Numbers -> Replicas \cup {NoOne}]
    /\ repeats \in [Numbers -> 0 .. MaxRetries]
    /\ lost \subseteq Numbers
    /\ failures \in 0 .. MaxFailures

\* Every replica has started once, so that the durable queue exists and is bound:
\* what was published before that has gone nowhere.
Init ==
    /\ sent = <<>>
    /\ queue = <<>>
    /\ held = [i \in Replicas |-> <<>>]
    /\ handling = [i \in Replicas |-> "none"]
    /\ consuming = [i \in Replicas |-> TRUE]
    /\ up = [i \in Replicas |-> TRUE]
    /\ inbox = [i \in Replicas |-> <<>>]
    /\ sending = [i \in Replicas |-> 0]
    /\ toSend = [i \in Replicas |-> {}]
    /\ stream = [c \in Conns |-> Off]
    /\ registered = {}
    /\ subs = {}
    /\ got = [c \in Conns |-> <<>>]
    /\ due = [c \in Conns |-> {}]
    /\ via = [n \in Numbers |-> NoOne]
    /\ repeats = [n \in Numbers |-> 0]
    /\ failures = 0
    /\ lost = {}

Alive(c) == stream[c] # Off /\ ~stream[c].gone

SubsOf(C) == {p \in subs : p[1] \in C}

-----------------------------------------------------------------------------
(* RabbitMQ's side of publishing.                                          *)

\* An event of gallery g reaches the exchange and so the bound queue.
PublishEvent(g) ==
    /\ Len(sent) < MaxEvents
    /\ sent' = Append(sent, g)
    /\ queue' = Append(queue, Len(sent) + 1)
    /\ due' = [c \in Conns |-> IF <<c, g>> \in subs THEN due[c] \cup {Len(sent) + 1}
                               ELSE due[c]]
    /\ UNCHANGED <<held, handling, consuming, up, fanoutVars, streamVars, got,
                   historyVars, failures>>

-----------------------------------------------------------------------------
(* The Subscribe RPC (grpc.go).                                            *)

\* A client opens stream c on replica i; ids are fresh.
Open(c, u, i) ==
    /\ stream[c] = Off
    /\ up[i]
    /\ \A j \in Replicas : c \notin toSend[j]
    /\ stream' = [stream EXCEPT ![c] = [Off EXCEPT !.at = "resolving", !.user = u,
                                                   !.replica = i]]
    /\ UNCHANGED <<sent, queueVars, up, fanoutVars, registered, subs, got, due,
                   historyVars, failures>>

\* What the Gallery Service answers, page by page: users join and leave meanwhile,
\* so it may be any galleries.
ListGalleriesByMember == SUBSET Galleries

\* resolveMemberships, before the connection is registered; then CreateClient.
\* What the user joins or leaves later reaches no replica.
Resolve(c) ==
    /\ stream[c].at = "resolving"
    /\ \E mine \in ListGalleriesByMember :
          stream' = [stream EXCEPT ![c].at = "registering", ![c].resolved = mine,
                                   ![c].todo = mine]
    /\ registered' = registered \cup {c}
    /\ UNCHANGED <<sent, queueVars, up, fanoutVars, subs, got, due, historyVars, failures>>

\* The Gallery Service does not answer, or the client is gone: the RPC ends.
ResolveFails(c) ==
    /\ stream[c].at = "resolving"
    /\ stream' = [stream EXCEPT ![c] = Off]
    /\ got' = [got EXCEPT ![c] = <<>>]
    /\ due' = [due EXCEPT ![c] = {}]
    /\ UNCHANGED <<sent, queueVars, up, fanoutVars, registered, subs, historyVars, failures>>

\* One registry.Subscribe of the loop; none for a connection a failed Send has
\* removed.
SubscribeTo(c, g) ==
    /\ stream[c].at = "registering"
    /\ g \in stream[c].todo
    /\ subs' = IF c \in registered THEN subs \cup {<<c, g>>} ELSE subs
    /\ stream' = [stream EXCEPT ![c].todo = @ \ {g}]
    /\ UNCHANGED <<sent, queueVars, up, fanoutVars, registered, got, due, historyVars, failures>>

\* The loop is over: the handler waits for ctx.Done.
Wait(c) ==
    /\ stream[c].at = "registering"
    /\ stream[c].todo = {}
    /\ stream' = [stream EXCEPT ![c].at = "live"]
    /\ UNCHANGED <<sent, queueVars, up, fanoutVars, registered, subs, got, due,
                   historyVars, failures>>

\* The client goes away; the handler notices when it waits.
Disconnect(c) ==
    /\ Alive(c)
    /\ stream' = [stream EXCEPT ![c].gone = TRUE]
    /\ UNCHANGED <<sent, queueVars, up, fanoutVars, registered, subs, got, due,
                   historyVars, failures>>

\* Fault: the handler returns without its deferred RemoveClient.
MutReturn(c) ==
    /\ stream[c].at = "live"
    /\ stream[c].gone
    /\ stream' = [stream EXCEPT ![c] = Off]
    /\ got' = [got EXCEPT ![c] = <<>>]
    /\ due' = [due EXCEPT ![c] = {}]
    /\ UNCHANGED <<sent, queueVars, up, fanoutVars, registered, subs, historyVars, failures>>

\* ctx.Done: the deferred RemoveClient runs.
Return(c) ==
    /\ stream[c].at = "live"
    /\ stream[c].gone
    /\ stream' = [stream EXCEPT ![c] = Off]
    /\ registered' = registered \ {c}
    /\ subs' = subs \ SubsOf({c})
    /\ got' = [got EXCEPT ![c] = <<>>]
    /\ due' = [due EXCEPT ![c] = {}]
    /\ UNCHANGED <<sent, queueVars, up, fanoutVars, historyVars, failures>>

-----------------------------------------------------------------------------
(* The consumer (consumer.go) and RabbitMQ.                                *)

\* RabbitMQ delivers the next event to one of the consumers.
Deliver(i) ==
    /\ up[i] /\ consuming[i]
    /\ queue # <<>>
    /\ Len(held[i]) < Prefetch
    /\ held' = [held EXCEPT ![i] = Append(@, Head(queue))]
    /\ queue' = Tail(queue)
    /\ UNCHANGED <<sent, handling, consuming, up, fanoutVars, streamVars, got,
                   due, historyVars, failures>>

\* handle and buildNotification up to galleryName's call: neither the event nor the
\* cache has the gallery's name.
GetGallery(i) ==
    /\ up[i]
    /\ held[i] # <<>>
    /\ handling[i] = "none"
    /\ handling' = [handling EXCEPT ![i] = "asking"]
    /\ UNCHANGED <<sent, queue, held, consuming, up, fanoutVars, streamVars, got,
                   due, historyVars, failures>>

\* The Gallery Service answers, or the call fails and the name stays empty.  The
\* call has no deadline.
GalleryAnswers(i) ==
    /\ up[i]
    /\ handling[i] = "asking"
    /\ handling' = [handling EXCEPT ![i] = "named"]
    /\ UNCHANGED <<sent, queue, held, consuming, up, fanoutVars, streamVars, got,
                   due, historyVars, failures>>

Up == {i \in Replicas : up[i]}

Repeated == {n \in Numbers : repeats[n] > 0}

FaultsLeft == failures + Cardinality(lost \cup Repeated) < MaxFailures

\* The connection to Redis breaks while n is published.
RedisFails(n) == "redis" \in Faults /\ (FaultsLeft \/ n \in lost \cup Repeated)

LostInRedis(n) == RedisFails(n) /\ lost' = lost \cup {n}

\* The consumer of i has a notification to publish.
HasNotification(i) ==
    /\ up[i]
    /\ held[i] # <<>>
    /\ handling[i] \in {"none", "named"}

\* Redis passes n to the replicas of S.
Pass(n, S) ==
    /\ S \subseteq Up
    /\ inbox' = [j \in Replicas |-> IF j \in S THEN Append(inbox[j], n) ELSE inbox[j]]

\* Redis passes the notification to every subscribed replica, i included.  A broken
\* connection to Redis loses it for some.
FanOut(i) ==
    /\ HasNotification(i)
    /\ \E S \in SUBSET Replicas :
         /\ Pass(Head(held[i]), S)
         /\ \/ S = Up /\ UNCHANGED lost
            \/ S # Up /\ LostInRedis(Head(held[i]))
    /\ via' = [via EXCEPT ![Head(held[i])] = i]
    /\ handling' = [handling EXCEPT ![i] = "acking"]
    /\ UNCHANGED <<sent, queue, held, consuming, up, sending, toSend,
                   streamVars, got, due, repeats, failures>>

\* go-redis gives PUBLISH up: Nack without requeue.  Redis may have got it all the
\* same.
FanOutFails(i) ==
    /\ HasNotification(i)
    /\ LostInRedis(Head(held[i]))
    /\ \E S \in SUBSET Replicas : Pass(Head(held[i]), S)
    /\ via' = [via EXCEPT ![Head(held[i])] = i]
    /\ held' = [held EXCEPT ![i] = Tail(@)]
    /\ handling' = [handling EXCEPT ![i] = "none"]
    /\ UNCHANGED <<sent, queue, consuming, up, sending, toSend, streamVars, got,
                   due, repeats, failures>>

\* The answer to PUBLISH is lost and go-redis sends it again, over another
\* connection: any copy may be the last to reach Redis.
Repeat(n) ==
    /\ RedisFails(n)
    /\ via[n] # NoOne
    /\ repeats[n] < MaxRetries
    /\ repeats' = [repeats EXCEPT ![n] = @ + 1]
    /\ \E S \in SUBSET Replicas : Pass(n, S)
    /\ UNCHANGED <<sent, queueVars, up, sending, toSend, streamVars, got,
                   due, via, lost, failures>>

\* Fault: Nack with requeue where Ack is meant.
MutAck(i) ==
    /\ up[i]
    /\ handling[i] = "acking"
    /\ handling' = [handling EXCEPT ![i] = "none"]
    /\ queue' = Append(queue, Head(held[i]))
    /\ held' = [held EXCEPT ![i] = Tail(@)]
    /\ UNCHANGED <<sent, consuming, up, fanoutVars, streamVars, got, due,
                   historyVars, failures>>

\* RabbitMQ takes note of it if the channel is still open.
Ack(i) ==
    /\ up[i]
    /\ handling[i] = "acking"
    /\ held' = [held EXCEPT ![i] = Tail(@)]
    /\ handling' = [handling EXCEPT ![i] = "none"]
    /\ UNCHANGED <<sent, queue, consuming, up, fanoutVars, streamVars, got, due,
                   historyVars, failures>>

-----------------------------------------------------------------------------
(* The broadcaster (broadcast.go) and Notify (registry.go).                *)

\* Fault: the whole replica is notified.
MutApply(i) ==
    /\ up[i]
    /\ inbox[i] # <<>>
    /\ toSend[i] = {}
    /\ sending' = [sending EXCEPT ![i] = Head(inbox[i])]
    /\ toSend' = [toSend EXCEPT ![i] = {c \in registered : stream[c].replica = i}]
    /\ inbox' = [inbox EXCEPT ![i] = Tail(@)]
    /\ UNCHANGED <<sent, queueVars, up, streamVars, got, due, historyVars, failures>>

\* The next envelope: Notify takes the snapshot of the gallery's connections.
Apply(i) ==
    /\ up[i]
    /\ inbox[i] # <<>>
    /\ toSend[i] = {}
    /\ LET n == Head(inbox[i])
       IN  /\ toSend' = [toSend EXCEPT ![i] =
                 {c \in Conns : <<c, sent[n]>> \in subs /\ stream[c].replica = i}]
           /\ sending' = [sending EXCEPT ![i] = IF toSend'[i] = {} THEN 0 ELSE n]
    /\ inbox' = [inbox EXCEPT ![i] = Tail(@)]
    /\ UNCHANGED <<sent, queueVars, up, streamVars, got, due, historyVars, failures>>

\* Send outside the lock: it reaches the client, or fails on a stream that is
\* over or whose client is gone, and the connection is removed.
Send(i, c) ==
    /\ up[i]
    /\ c \in toSend[i]
    /\ toSend' = [toSend EXCEPT ![i] = @ \ {c}]
    /\ sending' = [sending EXCEPT ![i] = IF toSend'[i] = {} THEN 0 ELSE @]
    /\ IF Alive(c)
       THEN got' = [got EXCEPT ![c] = Append(@, sending[i])]
            /\ UNCHANGED <<registered, subs>>
       ELSE registered' = registered \ {c} /\ subs' = subs \ SubsOf({c})
            /\ UNCHANGED got
    /\ UNCHANGED <<sent, queueVars, up, inbox, stream, due, historyVars, failures>>

-----------------------------------------------------------------------------
(* Faults.                                                                 *)

\* Fault: the broker counts a delivery as acknowledged (autoAck).
MutGiveBack(i) == queue' = queue

\* The broker takes back what i has not acknowledged, unless the channel is closed
\* and it has done so.
GiveBack(i) == queue' = IF consuming[i] THEN held[i] \o queue ELSE queue

On(i) == {c \in Conns : stream[c].replica = i}

\* Replica i dies: its streams end, its registry and inbox are lost.
Crash(i) ==
    /\ "crash" \in Faults
    /\ FaultsLeft
    /\ failures' = failures + 1
    /\ up[i]
    /\ up' = [up EXCEPT ![i] = FALSE]
    /\ GiveBack(i)
    /\ held' = [held EXCEPT ![i] = <<>>]
    /\ handling' = [handling EXCEPT ![i] = "none"]
    /\ consuming' = [consuming EXCEPT ![i] = FALSE]
    /\ inbox' = [inbox EXCEPT ![i] = <<>>]
    /\ got' = [c \in Conns |-> IF c \in On(i) THEN <<>> ELSE got[c]]
    /\ due' = [c \in Conns |-> IF c \in On(i) THEN {} ELSE due[c]]
    /\ sending' = [sending EXCEPT ![i] = 0]
    /\ toSend' = [toSend EXCEPT ![i] = {}]
    /\ stream' = [c \in Conns |-> IF c \in On(i) THEN Off ELSE stream[c]]
    /\ registered' = registered \ On(i)
    /\ subs' = subs \ SubsOf(On(i))
    /\ UNCHANGED <<sent, historyVars>>

\* main of replica i.  A setting that is missing, or RabbitMQ out of reach, ends it
\* before it serves; Redis and the Gallery Service it need not reach.
Start(i) ==
    /\ ~up[i]
    /\ up' = [up EXCEPT ![i] = TRUE]
    /\ consuming' = [consuming EXCEPT ![i] = TRUE]
    /\ UNCHANGED <<sent, queue, held, handling, fanoutVars, streamVars, got, due,
                   historyVars, failures>>

\* i's connection to RabbitMQ closes: Consume returns, for good, once it is through
\* with the event it is handling, while the replica goes on serving streams.
Drop(i) ==
    /\ "drop" \in Faults
    /\ FaultsLeft
    /\ failures' = failures + 1
    /\ up[i] /\ consuming[i]
    /\ consuming' = [consuming EXCEPT ![i] = FALSE]
    /\ GiveBack(i)
    /\ held' = [held EXCEPT ![i] = IF handling[i] = "none" THEN <<>> ELSE <<Head(@)>>]
    /\ UNCHANGED <<sent, handling, up, fanoutVars, streamVars, got, due, historyVars>>

HandlerStep(c) ==
    Resolve(c) \/ Wait(c) \/ Return(c) \/ \E g \in Galleries : SubscribeTo(c, g)

ReplicaStep(i) ==
    \/ GetGallery(i) \/ GalleryAnswers(i) \/ FanOut(i) \/ FanOutFails(i) \/ Ack(i)
    \/ Apply(i) \/ \E c \in Conns : Send(i, c)

Next ==
    \/ \E g \in Galleries : PublishEvent(g)
    \/ \E c \in Conns, u \in Users, i \in Replicas : Open(c, u, i)
    \/ \E c \in Conns : HandlerStep(c) \/ ResolveFails(c) \/ Disconnect(c)
    \/ \E i \in Replicas :
         ReplicaStep(i) \/ Deliver(i) \/ Start(i) \/ Crash(i) \/ Drop(i)
    \/ \E n \in Numbers : Repeat(n)

Spec == Init /\ [][Next]_vars

\* Goroutines that can run do, the consumer and the broadcaster of a replica each
\* on their own, and RabbitMQ delivers to a consumer that has room.  Nothing is said
\* of calls without a deadline: GetGallery, and Send to a client that does not read.
Fairness ==
    \A i \in Replicas :
        /\ WF_vars(Deliver(i))
        /\ WF_vars(FanOut(i) \/ Ack(i))
        /\ WF_vars(Apply(i))

FairSpec == Spec /\ Fairness

-----------------------------------------------------------------------------
InRange(s) == {s[k] : k \in 1 .. Len(s)}

\* No registry entry outlives its RPC, whichever of the handler and a failed Send
\* removes it (grpc.go 71, registry.go 245).
RegisteredHasHandler ==
    /\ \A c \in registered : stream[c].at \in {"registering", "live"}
    /\ \A p \in subs : p[1] \in registered

\* A connection receives events of the galleries resolved for it only, although
\* snapshots outlive the registry entries they were taken from.
OnlyResolved ==
    \A c \in Conns : stream[c] # Off =>
        \A n \in InRange(got[c]) : sent[n] \in stream[c].resolved

\* Unless a replica fails, a connection receives no event twice, although every
\* replica gets every notification (broadcast.go 28-29) and replicas compete for
\* events; and those that went through the same replica come in the order of their
\* publication.  The exception is an event go-redis has published again: a further
\* copy of it may come at any later time.
OnceAndInOrder ==
    failures = 0 =>
        \A c \in Conns : \A j, k \in 1 .. Len(got[c]) :
            j < k /\ repeats[got[c][k]] = 0 =>
                /\ got[c][j] # got[c][k]
                /\ via[got[c][j]] = via[got[c][k]] => got[c][j] < got[c][k]

\* The calls of consumers and broadcasters end: GetGallery is answered or fails, and
\* Notify gets through with its sends.
CallsEnd ==
    \A i \in Replicas : []<>(handling[i] # "asking") /\ []<>(toSend[i] = {})

\* What is published for a gallery while a stream is subscribed to it reaches
\* that stream unless it ends first or Redis loses the event, although replicas
\* die: an event in the hands of one that dies is delivered again.  A consumer whose
\* GetGallery hangs, or a client that does not read, stops everything behind it.
DueDelivered ==
    CallsEnd =>
        \A c \in Conns : \A n \in Numbers :
            (n \in due[c]) ~> (n \in InRange(got[c]) \/ ~Alive(c) \/ n \in lost)
=============================================================================
