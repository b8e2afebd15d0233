------------------------------ MODULE Publisher ------------------------------
(***************************************************************************)
(* The Upload Service's RabbitMQ publisher (internal/upload/events/        *)
(* publisher.go): PublishPhoto runs publish inside the circuit breaker;    *)
(* publish holds the mutex p.mu from its first attempt to its return, and  *)
(* calls connect, which takes p.mu itself, when the attempt fails.  Go's   *)
(* sync.Mutex is not reentrant.                                            *)
(*                                                                         *)
(* The breaker is CircuitBreaker, its callers the uploads.  A position     *)
(* at[t] is where goroutine t stands; Boot is the main goroutine, which    *)
(* calls connect from NewPublisher before any upload is served.            *)
(***************************************************************************)
CONSTANTS Uploads,          \* goroutines serving an UploadPhoto call
          Boot,             \* the goroutine that runs NewPublisher
          NoOne,            \* the holder of a free mutex
          MaxFailures       \* of the breaker

ASSUME ThreadsAssumption ==
    Boot \notin Uploads /\ NoOne \notin Uploads \cup {Boot}

VARIABLES
    current, consecutiveFailures, cooled, probing, call, late,  \* the breaker
    mu,         \* the goroutine that holds p.mu
    channel,    \* p.channel: "none" before the first connect
    dialled,    \* the connection connect has dialled and not stored yet
    broker,     \* RabbitMQ accepts connections
    at          \* at[t]: where goroutine t stands

breakerVars == <<current, consecutiveFailures, cooled, probing, call, late>>
vars == <<breakerVars, mu, channel, dialled, broker, at>>

\* Calls wait for p.mu and for dials of their own, so they may outlive
\* resetTimeout.
Breaker == INSTANCE CircuitBreaker WITH Callers <- Uploads

Threads == Uploads \cup {Boot}

\* Positions inside publish that hold p.mu.
Critical == {"try", "dial", "swap", "retry"}

Places == {"idle", "lock", "ok", "failed"} \cup Critical

TypeOK ==
    /\ Breaker!TypeOK
    /\ mu \in Uploads \cup {NoOne}
    /\ channel \in {"none", "open", "closed"}
    /\ dialled \in {"none", "open", "closed"}
    /\ broker \in BOOLEAN
    /\ at \in [Threads -> Places]

Init ==
    /\ Breaker!Init
    /\ mu = NoOne
    /\ channel = "none"
    /\ dialled = "none"
    /\ broker \in BOOLEAN
    /\ at = [t \in Threads |-> IF t = Boot THEN "dial" ELSE "idle"]

Go(t, place) == at' = [at EXCEPT ![t] = place]

-----------------------------------------------------------------------------
(* PublishPhoto: the breaker around publish.                               *)

Begin(t) ==
    /\ at[Boot] = "idle"
    /\ at[t] = "idle"
    /\ Breaker!AdmitClosed(t) \/ Breaker!AdmitProbe(t)
    /\ Go(t, "lock")
    /\ UNCHANGED <<mu, channel, dialled, broker>>

\* The breaker is open: the event is dropped.
Refuse(t) ==
    /\ at[Boot] = "idle"
    /\ at[t] = "idle"
    /\ Breaker!Reject(t)
    /\ UNCHANGED <<mu, channel, dialled, broker, at>>

\* publish has returned: the breaker records its result.
Finish(t) ==
    /\ \/ at[t] = "ok" /\ Breaker!Succeed(t)
       \/ at[t] = "failed" /\ Breaker!Fail(t)
    /\ Go(t, "idle")
    /\ UNCHANGED <<mu, channel, dialled, broker>>

\* resetTimeout passes for the breaker.
Elapse == Breaker!Elapse /\ UNCHANGED <<mu, channel, dialled, broker, at>>

-----------------------------------------------------------------------------
(* publish and connect.                                                    *)

\* Fault: a read lock, which others may hold at the same time.
MutLock(t) ==
    /\ at[t] = "lock"
    /\ mu' = t
    /\ Go(t, "try")
    /\ UNCHANGED <<breakerVars, channel, dialled, broker>>

Lock(t) ==
    /\ at[t] = "lock"
    /\ mu = NoOne
    /\ mu' = t
    /\ Go(t, "try")
    /\ UNCHANGED <<breakerVars, channel, dialled, broker>>

\* publish returns and its deferred Unlock runs.
Leave(t, result) == mu' = NoOne /\ Go(t, result)

\* Fault: a failed attempt returns without unlocking.
MutTry(t) ==
    /\ at[t] \in {"try", "retry"}
    /\ IF channel = "open" THEN Leave(t, "ok")
       ELSE UNCHANGED mu /\ Go(t, "failed")
    /\ UNCHANGED <<breakerVars, channel, dialled, broker>>

\* tryPublish.  The first failed attempt is followed by connect, the second is
\* the result of publish.
Try(t) ==
    /\ at[t] \in {"try", "retry"}
    /\ IF channel = "open" THEN Leave(t, "ok")
       ELSE IF at[t] = "try" THEN Go(t, "dial") /\ UNCHANGED mu
       ELSE Leave(t, "failed")
    /\ UNCHANGED <<breakerVars, channel, dialled, broker>>

\* connect up to line 80: dial, open a channel, declare the exchange.
Dial(t) ==
    /\ at[t] = "dial"
    /\ dialled' = IF broker THEN "open" ELSE dialled
    /\ IF broker THEN Go(t, "swap") /\ UNCHANGED mu
       ELSE IF t = Boot THEN Go(t, "idle") /\ UNCHANGED mu
       ELSE Leave(t, "failed")
    /\ UNCHANGED <<breakerVars, channel, broker>>

\* connect from line 82: lock p.mu, store the new connection, unlock.
Swap(t) ==
    /\ at[t] = "swap"
    /\ mu = NoOne
    /\ channel' = dialled
    /\ dialled' = "none"
    /\ Go(t, IF t = Boot THEN "idle" ELSE "retry")
    /\ UNCHANGED <<breakerVars, mu, broker>>

-----------------------------------------------------------------------------
(* RabbitMQ.                                                               *)

\* RabbitMQ stops; a connection open at that moment is closed for good.
Broken(conn) == IF conn = "open" THEN "closed" ELSE conn

BrokerDown ==
    /\ broker
    /\ broker' = FALSE
    /\ channel' = Broken(channel)
    /\ dialled' = Broken(dialled)
    /\ UNCHANGED <<breakerVars, mu, at>>

BrokerUp ==
    /\ ~broker
    /\ broker' = TRUE
    /\ UNCHANGED <<breakerVars, mu, channel, dialled, at>>

Step(t) == Try(t) \/ Dial(t) \/ Swap(t)

Next ==
    \/ \E t \in Uploads : Begin(t) \/ Refuse(t) \/ Finish(t) \/ Lock(t)
    \/ \E t \in Threads : Step(t)
    \/ Elapse
    \/ BrokerDown
    \/ BrokerUp

Spec == Init /\ [][Next]_vars

\* Goroutines that can run do; sync.Mutex hands over to a waiter in the end
\* (its starvation mode), hence strong fairness for Lock.
Fairness ==
    /\ \A t \in Threads : WF_vars(Step(t))
    /\ \A t \in Uploads : WF_vars(Finish(t)) /\ SF_vars(Lock(t))

FairSpec == Spec /\ Fairness

-----------------------------------------------------------------------------
\* A publish that has dialled again and waits for the mutex it holds.
Stuck(t) == t \in Uploads /\ at[t] = "swap"

\* p.mu is held exactly by the upload that is inside publish, and every way out
\* of publish releases it; uploads start only after NewPublisher.
LockDiscipline ==
    /\ \A t \in Uploads : at[t] \in Critical <=> mu = t
    /\ at[Boot] # "idle" => \A t \in Uploads : at[t] = "idle"

\* A publish whose reconnection reached the broker never returns: it waits for
\* p.mu, which it holds itself (lines 82, 143, 149).  From then on no event is
\* published at all, by anybody.
StuckStopsAll ==
    [][\A s \in Uploads : Stuck(s) =>
         /\ Stuck(s)'
         /\ \A t \in Uploads : at[t] # "ok" => at'[t] # "ok"]_vars

\* That is the only way to be blocked: every other PublishPhoto returns, whatever
\* the broker does.
ReturnsOrStuck ==
    \A t \in Uploads : (at[t] # "idle") ~> (at[t] = "idle" \/ \E s \in Uploads : Stuck(s))

\* What the comment on publish says (lines 140-141): it attempts one reconnect.
\* Having attempted it, it returns.
ReconnectReturns == \A t \in Uploads : (at[t] = "dial") ~> (at[t] = "idle")
=============================================================================
