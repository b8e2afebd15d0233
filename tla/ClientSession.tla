---------------------------- MODULE ClientSession ----------------------------
(***************************************************************************)
(* Who is logged in, in one tab of the web client: AuthStore.ts,           *)
(* authActions.ts, api.ts, the pages that log in and out, and the          *)
(* notification stream that lives as long as the pages behind the login    *)
(* (NotificationFeed.tsx, notificationActions.ts, notificationStream.ts).  *)
(* Behind them the User Service, the check of tokens (internal/auth) and   *)
(* the gateway's event stream (internal/handlers/notification.go).         *)
(*                                                                         *)
(* Requests overlap and are answered in any order; a request keeps the     *)
(* token it was sent with, and so does a stream.  A token is its number:   *)
(* all live equally long, so they expire in the order of their issue.  The *)
(* tab and the services read the same clock.  0 is no token.               *)
(*                                                                         *)
(* The galleries page and the details page are one page here, as the feed  *)
(* stays mounted between them.                                             *)
(***************************************************************************)
EXTENDS Integers

CONSTANTS Users,
          MaxTokens,  \* bound on the tokens issued
          Calls,      \* bound on the requests of the tab at a time
          Streams     \* reconnection loops: as many as could run side by side

ASSUME BoundsAssumption == MaxTokens \in Nat /\ 0 \notin Streams

VARIABLES
    accounts,    \* the table users, by e-mail
    issued,      \* tokens issued so far
    expired,     \* tokens expired so far
    session,     \* the token in sessionStorage and AuthStore
    loading,     \* AuthStore's flag
    page,        \* where the tab is
    loggingOut,  \* api.ts: the session has expired, the page is being left
    call,        \* the requests under way
    stream,      \* the reconnection loops
    subscribed,  \* the loop that unsubscribe would stop, 0 for null
    status,      \* NotificationStore.status
    gateway,     \* the gateway serves
    reachable,   \* it can reach the Notification Service
    overtaken    \* history: the session has changed on a page that shows the feed

server == <<accounts, issued, expired>>
auth == <<session, loading, loggingOut>>
feed == <<stream, subscribed, status>>
network == <<gateway, reachable>>
vars == <<server, auth, page, call, feed, network, overtaken>>

Tokens == 1 .. MaxTokens

Pages == {"login", "register", "galleries"}

Free == [kind |-> "none"]

Forms == {"login", "register"}

\* What a request carries and what it has been answered.
Requests == [kind : Forms \cup {"work"}, user : Users, token : Tokens \cup {0},
             answer : {"none", "ok", "refused", "unauthorized"},
             new : Tokens \cup {0}]

Off == [at |-> "off", token |-> 0]

Loops == [at : {"asking", "listening", "open", "sleeping"}, token : Tokens]

TypeOK ==
    /\ accounts \subseteq Users
    /\ issued \in 0 .. MaxTokens /\ expired \in 0 .. issued
    /\ session \in 0 .. issued
    /\ loading \in BOOLEAN /\ loggingOut \in BOOLEAN
    /\ gateway \in BOOLEAN /\ reachable \in BOOLEAN
    /\ page \in Pages
    /\ call \in [Calls -> Requests \cup {Free}]
    /\ \A c \in Calls : call[c] # Free => call[c].new <= issued
    /\ stream \in [Streams -> Loops \cup {Off}]
    /\ subscribed \in Streams \cup {0}
    /\ status \in {"idle", "connecting", "open", "closed"}
    /\ overtaken \in BOOLEAN

Init ==
    /\ accounts \in SUBSET Users
    /\ issued = 0 /\ expired = 0
    /\ session = 0 /\ loading = FALSE /\ loggingOut = FALSE
    /\ page = "login"
    /\ call = [c \in Calls |-> Free]
    /\ stream = [s \in Streams |-> Off]
    /\ subscribed = 0
    /\ status = "idle"
    /\ gateway = TRUE /\ reachable = TRUE
    /\ overtaken = FALSE

Valid(token) == token > expired

Expire ==
    /\ expired < issued
    /\ expired' = expired + 1
    /\ UNCHANGED <<accounts, issued, auth, page, call, feed, network, overtaken>>

-----------------------------------------------------------------------------
(* The feed is mounted with the pages behind the login and unmounted with  *)
(* them; the token is the one the store holds at that moment.              *)

\* Fault: the loop is forgotten and not stopped.
MutUnsubscribe == subscribed' = 0 /\ UNCHANGED <<stream, status>>

\* stopNotificationStream: the loop's fetch is aborted, its timer cleared.
Unsubscribe ==
    /\ subscribed' = 0
    /\ stream' = [s \in Streams |-> IF s = subscribed THEN Off ELSE stream[s]]
    /\ UNCHANGED status

\* startNotificationStream, and the first connect of the loop.
Subscribe(token) ==
    IF subscribed # 0 THEN UNCHANGED feed
    ELSE \E s \in Streams :
            /\ stream[s] = Off
            /\ stream' = [stream EXCEPT ![s] = [at |-> "asking", token |-> token]]
            /\ subscribed' = s
            /\ status' = "connecting"

\* ProtectedLayout sends those without a valid token to the login.
Guarded(p, token) == IF p = "galleries" /\ ~Valid(token) THEN "login" ELSE p

\* History: the store has another token than the feed that stays mounted.
Overtakes(token) ==
    overtaken' = (page = "galleries" /\ page' = page
                     /\ (overtaken \/ token \notin {session, 0}))

\* The tab moves to page p, with this token in the store.
Moves(p, token) ==
    /\ page' = Guarded(p, token)
    /\ CASE page' = page -> UNCHANGED feed
         [] page' # page /\ page' = "galleries" -> Subscribe(token)
         [] page' # page /\ page = "galleries" -> Unsubscribe
         [] OTHER -> UNCHANGED feed
    /\ Overtakes(token)

\* A link or the browser's back button.
Go(p) ==
    /\ p # page
    /\ Moves(p, session)
    /\ UNCHANGED <<server, auth, call, network>>

\* Fault: what a reload finds in sessionStorage is not taken over.
MutKept(token) == 0

\* loadInitialState: an expired token is cleared.
Kept(token) == IF Valid(token) THEN token ELSE 0

\* The tab loads page p anew: an address typed, a reload.  Nothing is left of the
\* scripts that ran, while a registration under way may still be executed.
Loads(p) ==
    LET pending == {call[c].user : c \in {d \in Calls :
                        call[d].kind = "register" /\ call[d].answer = "none"}}
    IN  /\ \E done \in SUBSET pending : accounts' = accounts \cup done
        /\ session' = Kept(session)
        /\ loading' = FALSE /\ loggingOut' = FALSE
        /\ page' = Guarded(p, session')
        /\ call' = [c \in Calls |-> Free]
        /\ IF page' = "galleries"
           THEN \E s \in Streams :
                   /\ stream' = [t \in Streams |->
                         IF t = s THEN [at |-> "asking", token |-> session'] ELSE Off]
                   /\ subscribed' = s
                   /\ status' = "connecting"
           ELSE /\ stream' = [t \in Streams |-> Off]
                /\ subscribed' = 0
                /\ status' = "idle"
        /\ overtaken' = FALSE
        /\ UNCHANGED <<issued, expired, network>>

Reload == \E p \in Pages : Loads(p)

\* window.location.href = "/login" takes effect.
Leave == loggingOut /\ Loads("login")

-----------------------------------------------------------------------------
(* Requests.                                                               *)

Sends(c, kind, u) ==
    /\ call[c] = Free
    /\ call' = [call EXCEPT ![c] = [kind |-> kind, user |-> u, token |-> session,
                                    answer |-> "none", new |-> 0]]
    /\ UNCHANGED <<server, session, loggingOut, page, feed, network, overtaken>>

\* The forms' button is enabled while the store is not loading.
Submit(c, u) ==
    /\ page \in Forms /\ ~loading
    /\ Sends(c, page, u)
    /\ loading' = TRUE

\* Any request of the pages behind the login: only its token matters here.
Work(c, u) ==
    /\ page = "galleries"
    /\ Sends(c, "work", u)
    /\ UNCHANGED loading

Answers(c, answer, new) ==
    /\ call' = [call EXCEPT ![c].answer = answer, ![c].new = new]
    /\ UNCHANGED <<expired, auth, page, feed, network, overtaken>>

\* SignToken.
Issues(c) ==
    /\ issued < MaxTokens
    /\ issued' = issued + 1
    /\ Answers(c, "ok", issued')

\* An account by that name, and then its password.
Login(c) ==
    /\ call[c].kind = "login" /\ call[c].answer = "none"
    /\ IF call[c].user \in accounts
       THEN Issues(c) \/ (Answers(c, "unauthorized", 0) /\ UNCHANGED issued)
       ELSE Answers(c, "refused", 0) /\ UNCHANGED issued
    /\ UNCHANGED accounts

\* The unique index refuses the second account of an e-mail.
Register(c) ==
    /\ call[c].kind = "register" /\ call[c].answer = "none"
    /\ IF call[c].user \notin accounts
       THEN accounts' = accounts \cup {call[c].user} /\ Issues(c)
       ELSE Answers(c, "refused", 0) /\ UNCHANGED <<accounts, issued>>

\* Any error of CreateUser is answered the same way, whether or not the row has
\* been written.
RegisterFails(c) ==
    /\ call[c].kind = "register" /\ call[c].answer = "none"
    /\ accounts' \in {accounts, accounts \cup {call[c].user}}
    /\ Answers(c, "refused", 0)
    /\ UNCHANGED issued

\* AuthFunc: a token, signed by the User Service and not expired.
AuthFunc(token) == Valid(token)

\* AuthFuncOverride: public methods, as GetGallery is, need no token.
AuthFuncOverride(public, token) == public \/ AuthFunc(token)

\* Every service checks the token before any other method than Login and Register.
CheckToken(c) ==
    /\ call[c].kind = "work" /\ call[c].answer = "none"
    /\ \E public \in BOOLEAN :
         Answers(c, IF AuthFuncOverride(public, call[c].token) THEN "ok"
                    ELSE "unauthorized", 0)
    /\ UNCHANGED <<accounts, issued>>

\* When a form has its answer, the page moves on if there is a valid session.
Proceeds(c) ==
    IF call[c].kind \in Forms /\ Valid(session')
    THEN Moves("galleries", session')
    ELSE UNCHANGED <<page, feed>> /\ Overtakes(session')

Done(c) == call' = [call EXCEPT ![c] = Free] /\ UNCHANGED <<server, network>>

Succeeds(c) ==
    /\ call[c] # Free /\ call[c].answer = "ok"
    /\ IF call[c].kind \in Forms
       THEN session' = call[c].new /\ loading' = FALSE
       ELSE UNCHANGED <<session, loading>>
    /\ Proceeds(c)
    /\ Done(c)
    /\ UNCHANGED loggingOut

\* 401: a request that carried a token ends the session, whatever it is by now,
\* once per life of the page.
Unauthorized(c) ==
    /\ call[c] # Free /\ call[c].answer = "unauthorized"
    /\ IF call[c].token # 0 /\ ~loggingOut
       THEN session' = 0 /\ loading' = FALSE /\ loggingOut' = TRUE
       ELSE /\ loading' = (loading /\ call[c].kind \notin Forms)
            /\ UNCHANGED <<session, loggingOut>>
    /\ Proceeds(c)
    /\ Done(c)

\* Fault: the failure is not dispatched to the store.
MutFails(c) ==
    /\ call[c] # Free
    /\ UNCHANGED auth
    /\ Proceeds(c)
    /\ Done(c)

\* Any other failure; an answer may also be lost.
Fails(c) ==
    /\ call[c] # Free
    /\ loading' = (loading /\ call[c].kind \notin Forms)
    /\ UNCHANGED <<session, loggingOut>>
    /\ Proceeds(c)
    /\ Done(c)

\* The button of the galleries page.
LogOut ==
    /\ page = "galleries"
    /\ session' = 0 /\ loading' = FALSE
    /\ Moves("login", 0)
    /\ UNCHANGED <<server, loggingOut, call, network>>

-----------------------------------------------------------------------------
(* The reconnection loop and the gateway.                                  *)

\* A loop goes on to another state, and reports it.
Becomes(s, at, dot) ==
    /\ stream' = [stream EXCEPT ![s].at = at]
    /\ status' = dot
    /\ UNCHANGED <<server, auth, page, call, subscribed, network, overtaken>>

\* main of the gateway: it dials a service when it is first asked for it, and so
\* serves whether or not the services run.
StartGateway ==
    /\ gateway' = TRUE
    /\ UNCHANGED <<server, auth, page, call, feed, reachable, overtaken>>

\* The gateway is killed; what it was passing on breaks off.
StopGateway ==
    /\ gateway' = FALSE
    /\ UNCHANGED <<server, auth, page, call, feed, reachable, overtaken>>

Reached == gateway /\ reachable

\* The gateway opens the RPC and the service accepts the token.  Nothing reaches
\* the browser yet: the headers go out with the first event.
Accept(s) ==
    /\ stream[s].at = "asking" /\ Reached /\ AuthFunc(stream[s].token)
    /\ Becomes(s, "listening", status)

\* The service refuses the token: the RPC has been opened all the same, so that
\* the browser gets 200, an event that says so, and the end.
RefuseToken(s) ==
    /\ stream[s].at = "asking" /\ Reached /\ ~AuthFunc(stream[s].token)
    /\ Becomes(s, "sleeping", "closed")

\* 502, or no answer at all.
Unreachable(s) ==
    /\ stream[s].at = "asking" /\ ~Reached
    /\ Becomes(s, "sleeping", "closed")

\* The first notification brings the headers with it.
Notice(s) ==
    /\ stream[s].at = "listening" /\ Reached
    /\ Becomes(s, "open", "open")

\* The stream ends or breaks.
Break(s) ==
    /\ stream[s].at \in {"listening", "open"}
    /\ Becomes(s, "sleeping", "closed")

\* Fault: the loop reconnects after errors only, not after a stream that ended.
MutRetry(s) ==
    /\ stream[s].at = "sleeping" /\ status = "error"
    /\ Becomes(s, "asking", "connecting")

\* The back-off timer fires, with the token the loop was started with.
Retry(s) ==
    /\ stream[s].at = "sleeping"
    /\ Becomes(s, "asking", "connecting")

ServiceStops ==
    /\ reachable' = ~reachable
    /\ UNCHANGED <<server, auth, page, call, feed, gateway, overtaken>>

Next ==
    \/ Expire \/ Reload \/ Leave \/ LogOut
    \/ StartGateway \/ StopGateway \/ ServiceStops
    \/ \E p \in Pages : Go(p)
    \/ \E c \in Calls :
          \/ \E u \in Users : Submit(c, u) \/ Work(c, u)
          \/ Login(c) \/ Register(c) \/ RegisterFails(c) \/ CheckToken(c)
          \/ Succeeds(c) \/ Unauthorized(c) \/ Fails(c)
    \/ \E s \in Streams :
          \/ Accept(s) \/ RefuseToken(s) \/ Unreachable(s)
          \/ Notice(s) \/ Break(s) \/ Retry(s)

\* Timers fire and connection attempts come to an end.
Fairness ==
    \A s \in Streams :
        /\ WF_vars(Retry(s))
        /\ WF_vars(Accept(s) \/ RefuseToken(s) \/ Unreachable(s))

Spec == Init /\ [][Next]_vars /\ Fairness

-----------------------------------------------------------------------------
\* There is one loop, exactly while the pages behind the login are shown, it
\* speaks for the session the store holds, and the dot shows its state.  The
\* exceptions are a session about to be left after a 401 and one that a late
\* login has put in the place of another (overtaken): the feed is not mounted
\* anew, and the loop goes on with the old token.
StreamFollowsSession ==
    /\ \A s \in Streams : stream[s] # Off <=> s = subscribed
    /\ subscribed # 0 <=> page = "galleries"
    /\ \A s \in Streams \ {0} : s = subscribed =>
          /\ ~overtaken /\ ~loggingOut => stream[s].token = session
          /\ status = CASE stream[s].at \in {"asking", "listening"} -> "connecting"
                        [] stream[s].at = "open" -> "open"
                        [] stream[s].at = "sleeping" -> "closed"

\* A session whose token is valid ends only by logging out, by another login, or
\* by a 401 that answers a request of an earlier session or a wrong password:
\* never by its own requests or by a reload.
ValidSessionSurvives ==
    [][Valid(session) /\ session' # session =>
          \/ LogOut
          \/ \E c \in Calls : Succeeds(c) /\ call[c].kind \in Forms
          \/ \E c \in Calls : Unauthorized(c)
                /\ (call[c].token # session \/ call[c].kind = "login")]_vars

\* The forms are disabled only while one of their requests is under way.
SpinnerHasCall == loading => \E c \in Calls : call[c].kind \in Forms

\* While the feed is shown, its token valid and the service reachable through
\* the gateway, the loop gets through again and again, however often streams end.
StreamComesBack ==
    \A s \in Streams :
        <>[](subscribed = s /\ Reached /\ Valid(stream[s].token))
            => []<>(stream[s].at \in {"listening", "open"})
=============================================================================
