------------------------ MODULE ClientSessionProofs ------------------------
(***************************************************************************)
(* Proofs about ClientSession, for any users, any number of tokens, of     *)
(* requests at a time and of reconnection loops: the one loop of a tab     *)
(* follows its session, no request leaves the forms disabled, and a valid  *)
(* session is not lost to its own requests.                                *)
(***************************************************************************)
EXTENDS ClientSession, TLAPS

-----------------------------------------------------------------------------
(* The invariant: besides the properties, what an answer says.             *)

\* A service refuses a token only when it has expired: login alone answers 401
\* for something else.
RefusedExpired(c) ==
    call[c] # Free /\ call[c].answer = "unauthorized" =>
        call[c].kind = "login" \/ ~Valid(call[c].token)

\* The success of a form brings a token.
OkBringsToken(c) ==
    call[c] # Free /\ call[c].answer = "ok" /\ call[c].kind \in Forms => call[c].new # 0

AnswersHold == \A c \in Calls : RefusedExpired(c) /\ OkBringsToken(c)

Inv ==
    /\ TypeOK
    /\ StreamFollowsSession
    /\ SpinnerHasCall
    /\ AnswersHold

-----------------------------------------------------------------------------
(* The types, part by part.                                                *)

TabTyped ==
    /\ accounts \subseteq Users
    /\ issued \in 0 .. MaxTokens /\ expired \in 0 .. issued
    /\ session \in 0 .. issued
    /\ loading \in BOOLEAN /\ loggingOut \in BOOLEAN
    /\ gateway \in BOOLEAN /\ reachable \in BOOLEAN
    /\ page \in Pages

CallsTyped ==
    /\ call \in [Calls -> Requests \cup {Free}]
    /\ \A c \in Calls : call[c] # Free => call[c].new <= issued

FeedTyped ==
    /\ stream \in [Streams -> Loops \cup {Off}]
    /\ subscribed \in Streams \cup {0}
    /\ status \in {"idle", "connecting", "open", "closed"}
    /\ overtaken \in BOOLEAN

LEMMA InvHasParts ==
    ASSUME Inv
    PROVE  /\ TabTyped /\ CallsTyped /\ FeedTyped
           /\ StreamFollowsSession /\ SpinnerHasCall /\ AnswersHold
           /\ issued \in Nat /\ expired \in Nat /\ session \in Nat /\ MaxTokens \in Nat
           /\ issued <= MaxTokens /\ expired <= issued /\ session <= issued
  BY BoundsAssumption DEF Inv, TypeOK, TabTyped, CallsTyped, FeedTyped

LEMMA KindsOfCalls ==
    ASSUME Inv, NEW c \in Calls
    PROVE  /\ call[c] # Free => call[c] \in Requests
           /\ call[c] = Free => call[c].kind = "none"
           /\ \A r \in Requests : r # Free
<1>1. Free.kind = "none"
  BY DEF Free
<1>2. \A r \in Requests : r.kind # "none"
  BY DEF Requests, Forms
<1> QED  BY <1>1, <1>2, InvHasParts DEF CallsTyped

LEMMA KindsOfLoops ==
    /\ \A l \in Loops : l # Off
    /\ Off.at = "off"
  BY DEF Loops, Off

-----------------------------------------------------------------------------
(* The requests: sent, answered, done.                                     *)

\* Nothing is asked or answered, while tokens may be issued and expire.
LEMMA CallsStay ==
    ASSUME Inv, UNCHANGED call, issued' \in Nat, issued <= issued', expired' \in Nat,
           expired <= expired', loading' => loading
    PROVE  CallsTyped' /\ AnswersHold' /\ SpinnerHasCall'
<1>1. CallsTyped'
  <2>1. ASSUME NEW c \in Calls, call[c] # Free  PROVE call[c].new <= issued'
    <3>1. call[c].new \in Nat
      BY <2>1, KindsOfCalls, BoundsAssumption DEF Requests, Tokens
    <3> QED  BY <2>1, <3>1, InvHasParts DEF CallsTyped
  <2> QED  BY <2>1, InvHasParts DEF CallsTyped
<1>2. AnswersHold'
  <2>1. ASSUME NEW c \in Calls, call[c] # Free
        PROVE  ~Valid(call[c].token) => ~Valid(call[c].token)'
    <3>1. call[c].token \in Nat
      BY <2>1, KindsOfCalls, BoundsAssumption DEF Requests, Tokens
    <3> QED  BY <3>1, InvHasParts DEF Valid
  <2> QED  BY <2>1, InvHasParts DEF AnswersHold, RefusedExpired, OkBringsToken
<1>3. SpinnerHasCall'
  BY InvHasParts DEF SpinnerHasCall
<1> QED  BY <1>1, <1>2, <1>3

\* The state of one request is replaced.
LEMMA CallChanges ==
    ASSUME Inv, NEW c \in Calls, NEW r \in Requests \cup {Free},
           call' = [call EXCEPT ![c] = r],
           UNCHANGED expired, issued' \in Nat, issued <= issued',
           r # Free =>
              /\ r.new <= issued'
              /\ r.answer = "unauthorized" => r.kind = "login" \/ ~Valid(r.token)
              /\ r.answer = "ok" /\ r.kind \in Forms => r.new # 0,
           loading' => r.kind \in Forms \/ (loading /\ call[c].kind \notin Forms)
    PROVE  CallsTyped' /\ AnswersHold' /\ SpinnerHasCall'
<1>1. call' \in [Calls -> Requests \cup {Free}]
  BY InvHasParts DEF CallsTyped
<1>2. call'[c] = r /\ \A d \in Calls : d # c => call'[d] = call[d]
  BY InvHasParts DEF CallsTyped
<1>3. CallsTyped'
  <2>1. ASSUME NEW d \in Calls, d # c, call[d] # Free  PROVE call[d].new <= issued'
    <3>1. call[d].new \in Nat
      BY <2>1, KindsOfCalls, BoundsAssumption DEF Requests, Tokens
    <3> QED  BY <2>1, <3>1, InvHasParts DEF CallsTyped
  <2> QED  BY <1>1, <1>2, <2>1 DEF CallsTyped
<1>4. AnswersHold'
  <2> SUFFICES ASSUME NEW d \in Calls  PROVE (RefusedExpired(d) /\ OkBringsToken(d))'
    BY DEF AnswersHold
  <2>1. CASE d = c
    BY <1>2, <2>1 DEF RefusedExpired, OkBringsToken, Valid
  <2>2. CASE d # c
    BY <1>2, <2>2, InvHasParts DEF AnswersHold, RefusedExpired, OkBringsToken, Valid
  <2> QED  BY <2>1, <2>2
<1>5. SpinnerHasCall'
  <2> SUFFICES ASSUME loading'  PROVE \E d \in Calls : call'[d].kind \in Forms
    BY DEF SpinnerHasCall
  <2>1. CASE r.kind \in Forms
    BY <1>2, <2>1
  <2>2. CASE loading /\ call[c].kind \notin Forms
    <3>1. PICK d \in Calls : call[d].kind \in Forms
      BY <2>2, InvHasParts DEF SpinnerHasCall
    <3>2. d # c
      BY <2>2, <3>1
    <3> QED  BY <1>2, <3>1, <3>2
  <2> QED  BY <2>1, <2>2
<1> QED  BY <1>3, <1>4, <1>5

LEMMA CallSent ==
    ASSUME Inv, NEW c \in Calls, NEW u \in Users, NEW kind \in Forms \cup {"work"},
           Sends(c, kind, u), loading' => kind \in Forms \/ loading
    PROVE  CallsTyped' /\ AnswersHold' /\ SpinnerHasCall'
<1> DEFINE r == [kind |-> kind, user |-> u, token |-> session, answer |-> "none", new |-> 0]
<1>1. /\ call[c] = Free /\ call' = [call EXCEPT ![c] = r]
      /\ UNCHANGED <<expired, issued>>
  BY DEF Sends, server
<1>2. session \in Tokens \cup {0}
  BY InvHasParts DEF Tokens
<1>3. r \in Requests
  BY <1>2 DEF Requests
<1>4. r.kind = kind /\ r.new = 0 /\ r.answer = "none"
  OBVIOUS
<1>5. call[c].kind \notin Forms
  BY <1>1, KindsOfCalls DEF Forms
<1> HIDE DEF r
<1>6. issued' \in Nat /\ issued <= issued' /\ 0 <= issued'
  BY <1>1, InvHasParts
<1>7. loading' => r.kind \in Forms \/ (loading /\ call[c].kind \notin Forms)
  BY <1>4, <1>5
<1> QED  BY <1>1, <1>3, <1>4, <1>6, <1>7, CallChanges

LEMMA CallAnswered ==
    ASSUME Inv, NEW c \in Calls, call[c] # Free,
           NEW answer \in {"ok", "refused", "unauthorized"}, NEW new \in Tokens \cup {0},
           Answers(c, answer, new), issued' \in Nat, issued <= issued', new <= issued',
           answer = "unauthorized" => call[c].kind = "login" \/ ~Valid(call[c].token),
           answer = "ok" /\ call[c].kind \in Forms => new # 0
    PROVE  CallsTyped' /\ AnswersHold' /\ SpinnerHasCall'
<1> DEFINE r == [call[c] EXCEPT !.answer = answer, !.new = new]
<1>1. call[c] \in Requests
  BY KindsOfCalls
<1>2. r \in Requests
  BY <1>1 DEF Requests
<1>3. /\ r.kind = call[c].kind /\ r.token = call[c].token
      /\ r.answer = answer /\ r.new = new
  BY <1>1 DEF Requests
<1>4. call' = [call EXCEPT ![c] = r] /\ UNCHANGED <<expired, loading>>
  BY InvHasParts DEF Answers, auth, CallsTyped
<1> HIDE DEF r
<1>5. loading' => r.kind \in Forms \/ (loading /\ call[c].kind \notin Forms)
  BY <1>3, <1>4
<1> QED  BY <1>2, <1>3, <1>4, <1>5, CallChanges

LEMMA CallDone ==
    ASSUME Inv, NEW c \in Calls, Done(c), loading' => loading /\ call[c].kind \notin Forms
    PROVE  CallsTyped' /\ AnswersHold' /\ SpinnerHasCall'
<1>1. call' = [call EXCEPT ![c] = Free] /\ UNCHANGED <<expired, issued>>
  BY DEF Done, server
<1>2. issued' \in Nat /\ issued <= issued'
  BY <1>1, InvHasParts
<1> QED  BY <1>1, <1>2, CallChanges

-----------------------------------------------------------------------------
(* The loops: left alone, moved with the page, begun anew.                 *)

\* What the dot shows of a loop in this state.
Dot(at) == CASE at \in {"asking", "listening"} -> "connecting"
             [] at = "open" -> "open"
             [] at = "sleeping" -> "closed"

\* The one loop, part by part.
OneLoop ==
    /\ \A s \in Streams : stream[s] # Off <=> s = subscribed
    /\ subscribed # 0 <=> page = "galleries"

LoopSpeaks ==
    \A s \in Streams \ {0} : s = subscribed =>
        /\ ~overtaken /\ ~loggingOut => stream[s].token = session
        /\ status = Dot(stream[s].at)

LEMMA LoopParts == StreamFollowsSession <=> OneLoop /\ LoopSpeaks
  BY DEF StreamFollowsSession, OneLoop, LoopSpeaks, Dot

LEMMA FeedStays ==
    ASSUME Inv, UNCHANGED feed, page' = "galleries" <=> page = "galleries",
           overtaken' \in BOOLEAN,
           \/ session' = session /\ (overtaken => overtaken') /\ (loggingOut => loggingOut')
           \/ overtaken' /\ page' = "galleries"
           \/ loggingOut'
           \/ page' # "galleries"
    PROVE  FeedTyped' /\ StreamFollowsSession'
<1>1. OneLoop /\ LoopSpeaks /\ FeedTyped
  BY InvHasParts, LoopParts
<1>2. FeedTyped'
  BY <1>1 DEF FeedTyped, feed
<1>3. OneLoop'
  BY <1>1 DEF OneLoop, feed
<1>4. LoopSpeaks'
  BY <1>1 DEF LoopSpeaks, OneLoop, feed
<1> QED  BY <1>2, <1>3, <1>4 DEF StreamFollowsSession, OneLoop, LoopSpeaks, Dot

\* A loop begins, with this token, where there was none.
LEMMA FeedBegins ==
    ASSUME FeedTyped, NEW s \in Streams, NEW token \in Tokens, NEW old \in [Streams -> {Off}],
           stream' = [old EXCEPT ![s] = [at |-> "asking", token |-> token]],
           subscribed' = s, status' = "connecting",
           page' = "galleries", session' = token, overtaken' \in BOOLEAN
    PROVE  FeedTyped' /\ StreamFollowsSession'
<1> DEFINE l == [at |-> "asking", token |-> token]
<1>1. l \in Loops /\ l.at = "asking" /\ l.token = token
  BY DEF Loops
<1>2. stream' = [old EXCEPT ![s] = l]
  OBVIOUS
<1> HIDE DEF l
<1>3. stream' \in [Streams -> Loops \cup {Off}]
  BY <1>1, <1>2
<1>4. stream'[s] = l /\ \A t \in Streams : t # s => stream'[t] = Off
  BY <1>2
<1>5. FeedTyped'
  BY <1>3 DEF FeedTyped
<1>6. OneLoop'
  <2>1. s # 0 /\ l # Off
    BY <1>1, KindsOfLoops, BoundsAssumption
  <2> QED  BY <1>4, <2>1 DEF OneLoop
<1>7. LoopSpeaks'
  <2>1. Dot(l.at) = "connecting"
    BY <1>1 DEF Dot
  <2> QED  BY <1>1, <1>4, <2>1 DEF LoopSpeaks
<1> QED  BY <1>5, <1>6, <1>7 DEF StreamFollowsSession, OneLoop, LoopSpeaks, Dot

\* Every loop is off, on another page.
LEMMA FeedEnds ==
    ASSUME FeedTyped, stream' = [t \in Streams |-> Off], subscribed' = 0,
           status' \in {"idle", "connecting", "open", "closed"},
           page' # "galleries", overtaken' \in BOOLEAN
    PROVE  FeedTyped' /\ StreamFollowsSession'
<1>1. FeedTyped'
  BY DEF FeedTyped
<1>2. OneLoop'
  BY BoundsAssumption DEF OneLoop
<1>3. LoopSpeaks'
  BY DEF LoopSpeaks
<1> QED  BY <1>1, <1>2, <1>3 DEF StreamFollowsSession, OneLoop, LoopSpeaks, Dot

\* The page behind the login is only shown with a valid token.
LEMMA GuardHolds ==
    ASSUME Inv, NEW p \in Pages, NEW token \in 0 .. MaxTokens
    PROVE  /\ Guarded(p, token) \in Pages
           /\ Guarded(p, token) = "galleries" => p = "galleries" /\ token \in Tokens
<1>1. Valid(token) => token \in Tokens
  BY InvHasParts DEF Valid, Tokens
<1> QED  BY <1>1 DEF Guarded, Pages

\* The feed goes with the page, whoever moves it.
LEMMA FeedMoves ==
    ASSUME Inv, NEW p \in Pages, NEW token \in 0 .. MaxTokens, Moves(p, token),
           session' = token, UNCHANGED loggingOut
    PROVE  page' \in Pages /\ FeedTyped' /\ StreamFollowsSession'
<1>1. /\ page' = Guarded(p, token) /\ Overtakes(token)
      /\ page' = page => UNCHANGED feed
      /\ page' # page /\ page' = "galleries" => Subscribe(token)
      /\ page' # page /\ page = "galleries" => Unsubscribe
      /\ page' # page /\ page' # "galleries" /\ page # "galleries" => UNCHANGED feed
  BY DEF Moves
<1>2. page' \in Pages /\ (page' = "galleries" => p = "galleries" /\ token \in Tokens)
  BY <1>1, GuardHolds
<1>3. overtaken' \in BOOLEAN
  BY <1>1 DEF Overtakes
<1>4. FeedTyped /\ OneLoop
  BY InvHasParts, LoopParts
<1>5. CASE page' = page
  <2>1. token \notin {session, 0} /\ page' = "galleries" => overtaken'
    BY <1>1, <1>5 DEF Overtakes
  <2>2. page' = "galleries" /\ overtaken => overtaken'
    BY <1>1, <1>5 DEF Overtakes
  <2>3. page' = "galleries" /\ token = 0 => FALSE
    BY <1>2, InvHasParts DEF Tokens
  <2> QED  BY <1>1, <1>2, <1>3, <1>5, <2>1, <2>2, <2>3, FeedStays
<1>6. CASE page' # page /\ page' = "galleries"
  <2>1. subscribed = 0 /\ \A s \in Streams : stream[s] = Off
    BY <1>4, <1>6, BoundsAssumption DEF OneLoop
  <2>2. PICK s \in Streams :
            /\ stream' = [stream EXCEPT ![s] = [at |-> "asking", token |-> token]]
            /\ subscribed' = s /\ status' = "connecting"
    BY <1>1, <1>6, <2>1 DEF Subscribe
  <2>3. stream \in [Streams -> {Off}]
    BY <1>4, <2>1 DEF FeedTyped
  <2> QED  BY <1>2, <1>3, <1>4, <1>6, <2>2, <2>3, FeedBegins
<1>7. CASE page' # page /\ page = "galleries"
  <2>1. Unsubscribe /\ page' # "galleries"
    BY <1>1, <1>7
  <2>2. stream' = [s \in Streams |-> Off]
    BY <1>4, <2>1 DEF Unsubscribe, OneLoop
  <2>3. subscribed' = 0 /\ status' \in {"idle", "connecting", "open", "closed"}
    BY <1>4, <2>1 DEF Unsubscribe, FeedTyped
  <2> QED  BY <1>2, <1>3, <1>4, <2>1, <2>2, <2>3, FeedEnds
<1>8. CASE page' # page /\ page' # "galleries" /\ page # "galleries"
  BY <1>1, <1>2, <1>3, <1>8, FeedStays
<1> QED  BY <1>5, <1>6, <1>7, <1>8

\* The loop goes on to another state, and the dot with it.
LEMMA LoopGoesOn ==
    ASSUME Inv, NEW s \in Streams, stream[s].at # "off",
           NEW at \in {"asking", "listening", "open", "sleeping"}, NEW dot,
           Becomes(s, at, dot), dot = Dot(at)
    PROVE  Inv'
<1>1. /\ FeedTyped /\ OneLoop /\ LoopSpeaks /\ CallsTyped /\ TabTyped
      /\ issued \in Nat /\ expired \in Nat
  BY InvHasParts, LoopParts
<1>2. /\ stream' = [stream EXCEPT ![s].at = at] /\ status' = dot
      /\ UNCHANGED <<accounts, issued, expired, session, loading, loggingOut>>
      /\ UNCHANGED <<page, call, subscribed, gateway, reachable, overtaken>>
  BY DEF Becomes, server, auth, network
<1> DEFINE l == [stream[s] EXCEPT !.at = at]
<1>3. stream[s] \in Loops
  BY <1>1, KindsOfLoops DEF FeedTyped
<1>4. l \in Loops /\ l.at = at /\ l.token = stream[s].token
  BY <1>3 DEF Loops
<1>5. stream' = [stream EXCEPT ![s] = l]
  BY <1>1, <1>2 DEF FeedTyped
<1> HIDE DEF l
<1>6. stream'[s] = l /\ \A t \in Streams : t # s => stream'[t] = stream[t]
  BY <1>1, <1>5 DEF FeedTyped
<1>7. s = subscribed /\ l # Off /\ s # 0
  BY <1>1, <1>3, <1>4, KindsOfLoops, BoundsAssumption DEF OneLoop
<1>8. FeedTyped'
  <2>1. stream' \in [Streams -> Loops \cup {Off}]
    BY <1>1, <1>4, <1>5 DEF FeedTyped
  <2>2. dot \in {"idle", "connecting", "open", "closed"}
    BY DEF Dot
  <2> QED  BY <1>1, <1>2, <2>1, <2>2 DEF FeedTyped
<1>9. OneLoop'
  BY <1>1, <1>2, <1>6, <1>7 DEF OneLoop
<1>10. LoopSpeaks'
  BY <1>1, <1>2, <1>4, <1>6, <1>7 DEF LoopSpeaks
<1>11. CallsTyped' /\ AnswersHold' /\ SpinnerHasCall'
  BY <1>1, <1>2, CallsStay
<1>12. TabTyped'
  BY <1>1, <1>2 DEF TabTyped
<1> QED  BY <1>8, <1>9, <1>10, <1>11, <1>12
         DEF Inv, TypeOK, TabTyped, CallsTyped, FeedTyped, StreamFollowsSession, OneLoop,
             LoopSpeaks, Dot

-----------------------------------------------------------------------------
(* The actions.                                                            *)

LEMMA ExpireKeeps ==
    ASSUME Inv, Expire
    PROVE  Inv'
<1>1. /\ expired' = expired + 1 /\ expired < issued
      /\ UNCHANGED <<accounts, issued, session, loading, loggingOut, page, call>>
      /\ UNCHANGED <<stream, subscribed, status, gateway, reachable, overtaken>>
  BY DEF Expire, auth, feed, network
<1>2. CallsTyped' /\ AnswersHold' /\ SpinnerHasCall'
  BY <1>1, InvHasParts, CallsStay
<1>3. FeedTyped' /\ StreamFollowsSession'
  BY <1>1, InvHasParts, FeedStays DEF FeedTyped, feed
<1>4. TabTyped'
  BY <1>1, InvHasParts DEF TabTyped
<1> QED  BY <1>2, <1>3, <1>4 DEF Inv, TypeOK, TabTyped, CallsTyped, FeedTyped

LEMMA GoKeeps ==
    ASSUME Inv, NEW p \in Pages, Go(p)
    PROVE  Inv'
<1>1. /\ Moves(p, session)
      /\ UNCHANGED <<accounts, issued, expired, session, loading, loggingOut, call>>
      /\ UNCHANGED <<gateway, reachable>>
  BY DEF Go, server, auth, network
<1>2. session \in 0 .. MaxTokens
  BY InvHasParts
<1>3. page' \in Pages /\ FeedTyped' /\ StreamFollowsSession'
  BY <1>1, <1>2, FeedMoves
<1>4. CallsTyped' /\ AnswersHold' /\ SpinnerHasCall'
  BY <1>1, InvHasParts, CallsStay
<1>5. TabTyped'
  BY <1>1, <1>3, InvHasParts DEF TabTyped
<1> QED  BY <1>3, <1>4, <1>5 DEF Inv, TypeOK, TabTyped, CallsTyped, FeedTyped

LEMMA LogOutKeeps ==
    ASSUME Inv, LogOut
    PROVE  Inv'
<1>1. /\ Moves("login", 0) /\ session' = 0 /\ loading' = FALSE
      /\ UNCHANGED <<accounts, issued, expired, loggingOut, call, gateway, reachable>>
  BY DEF LogOut, server, network
<1>2. 0 \in 0 .. MaxTokens /\ "login" \in Pages
  BY InvHasParts DEF Pages
<1>3. page' \in Pages /\ FeedTyped' /\ StreamFollowsSession'
  BY <1>1, <1>2, FeedMoves
<1>4. CallsTyped' /\ AnswersHold' /\ SpinnerHasCall'
  BY <1>1, InvHasParts, CallsStay
<1>5. TabTyped'
  <2>1. session' \in 0 .. issued' /\ expired' \in 0 .. issued'
    BY <1>1, InvHasParts
  <2>2. loading' \in BOOLEAN /\ loggingOut' \in BOOLEAN
    BY <1>1, InvHasParts DEF TabTyped
  <2> QED  BY <1>1, <1>3, <2>1, <2>2, InvHasParts DEF TabTyped
<1> QED  BY <1>3, <1>4, <1>5 DEF Inv, TypeOK, TabTyped, CallsTyped, FeedTyped

LEMMA LoadsKeeps ==
    ASSUME Inv, NEW p \in Pages, Loads(p)
    PROVE  Inv'
<1> DEFINE pending == {call[c].user : c \in {d \in Calls :
                        call[d].kind = "register" /\ call[d].answer = "none"}}
<1>1. /\ \E done \in SUBSET pending : accounts' = accounts \cup done
      /\ session' = Kept(session)
      /\ loading' = FALSE /\ loggingOut' = FALSE
      /\ page' = Guarded(p, session')
      /\ call' = [c \in Calls |-> Free]
      /\ overtaken' = FALSE
      /\ UNCHANGED <<issued, expired, gateway, reachable>>
  BY DEF Loads, network
<1>2. /\ page' = "galleries" =>
            \E s \in Streams :
               /\ stream' = [t \in Streams |->
                     IF t = s THEN [at |-> "asking", token |-> session'] ELSE Off]
               /\ subscribed' = s
               /\ status' = "connecting"
      /\ page' # "galleries" =>
            /\ stream' = [t \in Streams |-> Off]
            /\ subscribed' = 0
            /\ status' = "idle"
  BY DEF Loads
<1>3. accounts' \subseteq Users
  <2>1. pending \subseteq Users
    <3>1. ASSUME NEW c \in Calls, call[c].kind = "register"  PROVE call[c].user \in Users
      <4>1. call[c] # Free
        BY <3>1, KindsOfCalls
      <4> QED  BY <4>1, KindsOfCalls DEF Requests
    <3> QED  BY <3>1
  <2> HIDE DEF pending
  <2> QED  BY <1>1, <2>1, InvHasParts DEF TabTyped
<1>4. session' \in 0 .. issued /\ session' \in 0 .. MaxTokens
  BY <1>1, InvHasParts DEF Kept
<1>5. page' \in Pages /\ (page' = "galleries" => session' \in Tokens)
  BY <1>1, <1>4, GuardHolds
<1>6. TabTyped'
  BY <1>1, <1>3, <1>4, <1>5, InvHasParts DEF TabTyped
<1>7. CallsTyped' /\ AnswersHold' /\ SpinnerHasCall'
  BY <1>1 DEF CallsTyped, AnswersHold, RefusedExpired, OkBringsToken, SpinnerHasCall
<1>8. FeedTyped' /\ StreamFollowsSession'
  <2>1. CASE page' = "galleries"
    <3>1. PICK s \in Streams :
             /\ stream' = [t \in Streams |->
                   IF t = s THEN [at |-> "asking", token |-> session'] ELSE Off]
             /\ subscribed' = s /\ status' = "connecting"
      BY <1>2, <2>1
    <3> DEFINE old == [t \in Streams |-> Off]
    <3>2. old \in [Streams -> {Off}]
      OBVIOUS
    <3>3. stream' = [old EXCEPT ![s] = [at |-> "asking", token |-> session']]
      BY <3>1
    <3>4. PICK token \in Tokens : token = session'
      BY <1>5, <2>1
    <3> HIDE DEF old
    <3>5. stream' = [old EXCEPT ![s] = [at |-> "asking", token |-> token]]
      BY <3>3, <3>4
    <3> QED  BY <1>1, <2>1, <3>1, <3>2, <3>4, <3>5, InvHasParts, FeedBegins
  <2>2. CASE page' # "galleries"
    BY <1>1, <1>2, <2>2, InvHasParts, FeedEnds
  <2> QED  BY <2>1, <2>2
<1> QED  BY <1>6, <1>7, <1>8 DEF Inv, TypeOK, TabTyped, CallsTyped, FeedTyped

\* A request is sent: the tab stays where it is.
LEMMA SendsKeeps ==
    ASSUME Inv, NEW c \in Calls, NEW u \in Users, Submit(c, u) \/ Work(c, u)
    PROVE  Inv'
<1>1. PICK kind \in Forms \cup {"work"} :
         /\ Sends(c, kind, u) /\ loading' \in BOOLEAN
         /\ loading' => kind \in Forms \/ loading
  <2>1. CASE Submit(c, u)
    BY <2>1 DEF Submit
  <2>2. CASE Work(c, u)
    BY <2>2, InvHasParts DEF Work, TabTyped
  <2> QED  BY <2>1, <2>2
<1>2. /\ UNCHANGED <<accounts, issued, expired, session, loggingOut, page>>
      /\ UNCHANGED <<stream, subscribed, status, gateway, reachable, overtaken>>
  BY <1>1 DEF Sends, server, feed, network
<1>3. CallsTyped' /\ AnswersHold' /\ SpinnerHasCall'
  BY <1>1, CallSent
<1>4. FeedTyped' /\ StreamFollowsSession'
  BY <1>2, InvHasParts, FeedStays DEF FeedTyped, feed
<1>5. TabTyped'
  BY <1>1, <1>2, InvHasParts DEF TabTyped
<1> QED  BY <1>3, <1>4, <1>5 DEF Inv, TypeOK, TabTyped, CallsTyped, FeedTyped

\* A service answers: the tab does not know yet.
LEMMA AnswersKeeps ==
    ASSUME Inv, NEW c \in Calls,
           Login(c) \/ Register(c) \/ RegisterFails(c) \/ CheckToken(c)
    PROVE  Inv'
<1>1. call[c] # Free /\ call[c] \in Requests
  <2>1. call[c].kind # "none"
    BY DEF Login, Register, RegisterFails, CheckToken
  <2> QED  BY <2>1, KindsOfCalls
<1>2. PICK answer \in {"ok", "refused", "unauthorized"}, new \in Tokens \cup {0} :
         /\ Answers(c, answer, new)
         /\ issued' \in 0 .. MaxTokens /\ issued <= issued' /\ new <= issued'
         /\ answer = "unauthorized" => call[c].kind = "login" \/ ~Valid(call[c].token)
         /\ answer = "ok" /\ call[c].kind \in Forms => new # 0
  <2>1. CASE Issues(c)
    <3>1. issued' = issued + 1 /\ issued < MaxTokens /\ Answers(c, "ok", issued')
      BY <2>1 DEF Issues
    <3>2. issued' \in Tokens /\ issued' # 0
      BY <3>1, InvHasParts DEF Tokens
    <3> QED  BY <3>1, <3>2, InvHasParts DEF Tokens
  <2>2. CASE Answers(c, "refused", 0) /\ UNCHANGED issued
    BY <2>2, InvHasParts
  <2>3. CASE Login(c) /\ Answers(c, "unauthorized", 0) /\ UNCHANGED issued
    BY <2>3, InvHasParts DEF Login
  <2>4. CASE CheckToken(c)
    <3>1. PICK public \in BOOLEAN :
             Answers(c, IF AuthFuncOverride(public, call[c].token) THEN "ok"
                        ELSE "unauthorized", 0)
      BY <2>4 DEF CheckToken
    <3>2. call[c].kind \notin Forms /\ UNCHANGED issued
      BY <2>4 DEF CheckToken, Forms
    <3>3. CASE AuthFuncOverride(public, call[c].token)
      BY <3>1, <3>2, <3>3, InvHasParts
    <3>4. CASE ~AuthFuncOverride(public, call[c].token)
      <4>1. Answers(c, "unauthorized", 0) /\ ~Valid(call[c].token)
        BY <3>1, <3>4 DEF AuthFuncOverride, AuthFunc
      <4> QED  BY <3>2, <4>1, InvHasParts
    <3> QED  BY <3>3, <3>4
  <2> QED  BY <2>1, <2>2, <2>3, <2>4 DEF Login, Register, RegisterFails
<1>3. CallsTyped' /\ AnswersHold' /\ SpinnerHasCall'
  <2>1. issued' \in Nat
    BY <1>2, InvHasParts
  <2> QED  BY <1>1, <1>2, <2>1, CallAnswered
<1>4. /\ UNCHANGED <<expired, session, loading, loggingOut, page>>
      /\ UNCHANGED <<stream, subscribed, status, gateway, reachable, overtaken>>
  BY <1>2 DEF Answers, auth, feed, network
<1>5. accounts' \subseteq Users
  <2>1. call[c].user \in Users
    BY <1>1 DEF Requests
  <2> QED  BY <2>1, InvHasParts DEF Login, Register, RegisterFails, CheckToken, TabTyped
<1>6. FeedTyped' /\ StreamFollowsSession'
  BY <1>4, InvHasParts, FeedStays DEF FeedTyped, feed
<1>7. TabTyped'
  <2>1. expired' \in 0 .. issued' /\ session' \in 0 .. issued'
    BY <1>2, <1>4, InvHasParts
  <2> QED  BY <1>2, <1>4, <1>5, <2>1, InvHasParts DEF TabTyped
<1> QED  BY <1>3, <1>6, <1>7 DEF Inv, TypeOK, TabTyped, CallsTyped, FeedTyped

\* The tab takes an answer: the page moves on, or the session ends before it is left.
LEMMA DoneKeeps ==
    ASSUME Inv, NEW c \in Calls, Succeeds(c) \/ Unauthorized(c) \/ Fails(c)
    PROVE  Inv'
<1>1. /\ call[c] # Free /\ call[c] \in Requests /\ Done(c) /\ Proceeds(c)
      /\ UNCHANGED <<accounts, issued, expired, gateway, reachable>>
  BY KindsOfCalls DEF Succeeds, Unauthorized, Fails, Done, server, network
<1>2. call[c].new \in 0 .. issued
  BY <1>1, InvHasParts, BoundsAssumption DEF CallsTyped, Requests, Tokens
<1>3. loading' \in BOOLEAN /\ (loading' => loading /\ call[c].kind \notin Forms)
  BY InvHasParts DEF Succeeds, Unauthorized, Fails, TabTyped
<1>4. /\ session' \in 0 .. issued /\ loggingOut' \in BOOLEAN
      /\ \/ UNCHANGED loggingOut
         \/ loggingOut' = TRUE /\ session' = 0
      /\ \/ session' = session
         \/ session' # 0 /\ UNCHANGED loggingOut
         \/ loggingOut' = TRUE
  <2>1. CASE Succeeds(c)
    <3>1. CASE call[c].kind \in Forms
      <4>1. call[c].new # 0
        BY <1>1, <2>1, <3>1, InvHasParts DEF Succeeds, AnswersHold, OkBringsToken
      <4> QED  BY <1>2, <2>1, <3>1, <4>1, InvHasParts DEF Succeeds, TabTyped
    <3>2. CASE call[c].kind \notin Forms
      BY <2>1, <3>2, InvHasParts DEF Succeeds, TabTyped
    <3> QED  BY <3>1, <3>2
  <2>2. CASE Unauthorized(c)
    <3>1. session \in 0 .. issued /\ 0 \in 0 .. issued /\ loggingOut \in BOOLEAN
      BY InvHasParts DEF TabTyped
    <3>2. \/ session' = 0 /\ loggingOut' = TRUE
          \/ UNCHANGED <<session, loggingOut>>
      BY <2>2 DEF Unauthorized
    <3> QED  BY <3>1, <3>2
  <2>3. CASE Fails(c)
    BY <2>3, InvHasParts DEF Fails, TabTyped
  <2> QED  BY <2>1, <2>2, <2>3
<1>5. CallsTyped' /\ AnswersHold' /\ SpinnerHasCall'
  BY <1>1, <1>3, CallDone
<1>6. page' \in Pages /\ FeedTyped' /\ StreamFollowsSession'
  <2>1. CASE call[c].kind \in Forms /\ Valid(session')
    <3>1. Moves("galleries", session')
      BY <1>1, <2>1 DEF Proceeds
    <3>2. session' # 0
      BY <1>1, <2>1, InvHasParts DEF Valid
    <3>3. UNCHANGED loggingOut
      BY <1>4, <3>2
    <3>4. session' \in 0 .. MaxTokens /\ "galleries" \in Pages
      BY <1>4, InvHasParts DEF Pages
    <3>5. PICK token \in 0 .. MaxTokens : token = session' /\ Moves("galleries", token)
      BY <3>1, <3>4
    <3> QED  BY <3>3, <3>4, <3>5, FeedMoves
  <2>2. CASE ~(call[c].kind \in Forms /\ Valid(session'))
    <3>1. UNCHANGED <<page, stream, subscribed, status>> /\ Overtakes(session')
      BY <1>1, <2>2 DEF Proceeds, feed
    <3>2. overtaken' \in BOOLEAN /\ page' \in Pages
      BY <3>1, InvHasParts DEF Overtakes, TabTyped
    <3>3. CASE page = "galleries"
      <4>1. overtaken => overtaken'
        BY <3>1, <3>3 DEF Overtakes
      <4>2. session' # session /\ session' # 0 => overtaken'
        BY <3>1, <3>3 DEF Overtakes
      <4>3. loggingOut => loggingOut'
        BY <1>4
      <4> QED  BY <1>4, <3>1, <3>2, <3>3, <4>1, <4>2, <4>3, FeedStays DEF feed
    <3>4. CASE page # "galleries"
      BY <3>1, <3>2, <3>4, FeedStays DEF feed
    <3> QED  BY <3>3, <3>4
  <2> QED  BY <2>1, <2>2
<1>7. TabTyped'
  BY <1>1, <1>3, <1>4, <1>6, InvHasParts DEF TabTyped
<1> QED  BY <1>5, <1>6, <1>7 DEF Inv, TypeOK, TabTyped, CallsTyped, FeedTyped

LEMMA LoopsKeep ==
    ASSUME Inv, NEW s \in Streams,
           \/ Accept(s) \/ RefuseToken(s) \/ Unreachable(s)
           \/ Notice(s) \/ Break(s) \/ Retry(s)
    PROVE  Inv'
<1>1. stream[s].at \in {"asking", "listening", "open", "sleeping"}
  BY DEF Accept, RefuseToken, Unreachable, Notice, Break, Retry
<1>2. stream[s].at # "off" /\ stream[s] # Off /\ s # 0
  BY <1>1, KindsOfLoops, BoundsAssumption
<1>3. status = Dot(stream[s].at)
  BY <1>2, InvHasParts, LoopParts DEF OneLoop, LoopSpeaks
<1>4. CASE Accept(s)
  <2>1. stream[s].at = "asking" /\ Becomes(s, "listening", status)
    BY <1>4 DEF Accept
  <2>2. status = Dot("listening")
    BY <1>3, <2>1 DEF Dot
  <2> QED  BY <1>2, <2>1, <2>2, LoopGoesOn
<1>5. CASE Notice(s)
  BY <1>2, <1>5, LoopGoesOn DEF Notice, Dot
<1>6. CASE Retry(s)
  BY <1>2, <1>6, LoopGoesOn DEF Retry, Dot
<1>7. CASE RefuseToken(s) \/ Unreachable(s) \/ Break(s)
  BY <1>2, <1>7, LoopGoesOn DEF RefuseToken, Unreachable, Break, Dot
<1> QED  BY <1>4, <1>5, <1>6, <1>7

\* The gateway and the service come and go, or nothing happens.
LEMMA NetworkKeeps ==
    ASSUME Inv, StartGateway \/ StopGateway \/ ServiceStops \/ UNCHANGED vars
    PROVE  Inv'
<1>1. /\ UNCHANGED <<accounts, issued, expired, session, loading, loggingOut, page, call>>
      /\ UNCHANGED <<stream, subscribed, status, overtaken>>
      /\ gateway' \in BOOLEAN /\ reachable' \in BOOLEAN
  BY InvHasParts DEF StartGateway, StopGateway, ServiceStops, vars, server, auth, feed,
                     network, TabTyped
<1>2. CallsTyped' /\ AnswersHold' /\ SpinnerHasCall'
  BY <1>1, InvHasParts, CallsStay
<1>3. FeedTyped' /\ StreamFollowsSession'
  BY <1>1, InvHasParts, FeedStays DEF FeedTyped, feed
<1>4. TabTyped'
  BY <1>1, InvHasParts DEF TabTyped
<1> QED  BY <1>2, <1>3, <1>4 DEF Inv, TypeOK, TabTyped, CallsTyped, FeedTyped

-----------------------------------------------------------------------------
(* The theorems.                                                           *)

LEMMA Step == Inv /\ [Next]_vars => Inv'
<1> SUFFICES ASSUME Inv, [Next]_vars  PROVE Inv'
  OBVIOUS
<1>1. CASE Expire
  BY <1>1, ExpireKeeps
<1>2. CASE Reload \/ Leave
  <2>1. "login" \in Pages
    BY DEF Pages
  <2> QED  BY <1>2, <2>1, LoadsKeeps DEF Reload, Leave
<1>3. CASE LogOut
  BY <1>3, LogOutKeeps
<1>4. CASE \E p \in Pages : Go(p)
  BY <1>4, GoKeeps
<1>5. CASE \E c \in Calls : \E u \in Users : Submit(c, u) \/ Work(c, u)
  BY <1>5, SendsKeeps
<1>6. CASE \E c \in Calls : Login(c) \/ Register(c) \/ RegisterFails(c) \/ CheckToken(c)
  BY <1>6, AnswersKeeps
<1>7. CASE \E c \in Calls : Succeeds(c) \/ Unauthorized(c) \/ Fails(c)
  BY <1>7, DoneKeeps
<1>8. CASE \E s \in Streams :
              \/ Accept(s) \/ RefuseToken(s) \/ Unreachable(s)
              \/ Notice(s) \/ Break(s) \/ Retry(s)
  BY <1>8, LoopsKeep
<1>9. CASE StartGateway \/ StopGateway \/ ServiceStops \/ UNCHANGED vars
  BY <1>9, NetworkKeeps
<1> QED  BY <1>1, <1>2, <1>3, <1>4, <1>5, <1>6, <1>7, <1>8, <1>9 DEF Next

\* The tab starts without a session, and every step, of the user, of the tab, of the
\* services and of the clock, keeps the invariant.
THEOREM Invariant == Spec => []Inv
<1>1. Init => Inv
  <2> SUFFICES ASSUME Init  PROVE Inv
    OBVIOUS
  <2>1. TypeOK
    <3>1. /\ issued \in 0 .. MaxTokens /\ expired \in 0 .. issued /\ session \in 0 .. issued
          /\ accounts \subseteq Users
      BY BoundsAssumption DEF Init
    <3>2. /\ call \in [Calls -> Requests \cup {Free}] /\ \A c \in Calls : call[c] = Free
          /\ stream \in [Streams -> Loops \cup {Off}]
      BY DEF Init
    <3>3. /\ loading \in BOOLEAN /\ loggingOut \in BOOLEAN /\ overtaken \in BOOLEAN
          /\ gateway \in BOOLEAN /\ reachable \in BOOLEAN /\ page \in Pages
          /\ subscribed \in Streams \cup {0}
          /\ status \in {"idle", "connecting", "open", "closed"}
      BY DEF Init, Pages
    <3> QED  BY <3>1, <3>2, <3>3 DEF TypeOK
  <2>2. StreamFollowsSession
    BY BoundsAssumption DEF Init, StreamFollowsSession
  <2>3. SpinnerHasCall /\ AnswersHold
    BY DEF Init, SpinnerHasCall, AnswersHold, RefusedExpired, OkBringsToken
  <2> QED  BY <2>1, <2>2, <2>3 DEF Inv
<1> QED  BY <1>1, Step, PTL DEF Spec

\* The tab, the requests and the loops are always of their types; no answer brings a
\* token that has not been issued.
THEOREM TypeCorrect == Spec => []TypeOK
<1>1. Inv => TypeOK
  BY DEF Inv
<1> QED  BY <1>1, Invariant, PTL

\* One reconnection loop at most, exactly behind the login, for the session of the
\* store, and the dot says what it does.
THEOREM OneLoopForSession == Spec => []StreamFollowsSession
<1>1. Inv => StreamFollowsSession
  BY DEF Inv
<1> QED  BY <1>1, Invariant, PTL

\* The forms are not left disabled by a request that has ended.
THEOREM FormsComeBack == Spec => []SpinnerHasCall
<1>1. Inv => SpinnerHasCall
  BY DEF Inv
<1> QED  BY <1>1, Invariant, PTL

\* A valid session ends by the user's hand, or by a 401 that was not about it.
THEOREM OwnRequestsKeepSession == Spec => ValidSessionSurvives
<1>1. ASSUME Inv, [Next]_vars, Valid(session), session' # session
      PROVE  \/ LogOut
             \/ \E c \in Calls : Succeeds(c) /\ call[c].kind \in Forms
             \/ \E c \in Calls : Unauthorized(c)
                   /\ (call[c].token # session \/ call[c].kind = "login")
  <2>1. CASE Reload \/ Leave
    <3>1. session' = Kept(session)
      BY <2>1 DEF Reload, Leave, Loads
    <3> QED  BY <1>1, <3>1 DEF Kept
  <2>2. CASE LogOut
    BY <2>2
  <2>3. CASE \E c \in Calls : Succeeds(c)
    BY <1>1, <2>3 DEF Succeeds
  <2>4. CASE \E c \in Calls : Unauthorized(c)
    <3>1. PICK c \in Calls : Unauthorized(c)
      BY <2>4
    <3>2. call[c].kind = "login" \/ ~Valid(call[c].token)
      BY <1>1, <3>1, InvHasParts DEF Unauthorized, AnswersHold, RefusedExpired
    <3> QED  BY <1>1, <3>1, <3>2
  <2>5. CASE \E c \in Calls : \/ \E u \in Users : Submit(c, u) \/ Work(c, u)
                              \/ Login(c) \/ Register(c) \/ RegisterFails(c) \/ CheckToken(c)
                              \/ Fails(c)
    BY <1>1, <2>5 DEF Submit, Work, Sends, Login, Register, RegisterFails, CheckToken, Issues,
                      Answers, Fails, auth
  <2>6. CASE \/ Expire \/ StartGateway \/ StopGateway \/ ServiceStops
             \/ \E p \in Pages : Go(p)
             \/ UNCHANGED vars
    BY <1>1, <2>6 DEF Expire, StartGateway, StopGateway, ServiceStops, Go, vars, auth
  <2>7. CASE \E s \in Streams :
                \/ Accept(s) \/ RefuseToken(s) \/ Unreachable(s)
                \/ Notice(s) \/ Break(s) \/ Retry(s)
    BY <1>1, <2>7 DEF Accept, RefuseToken, Unreachable, Notice, Break, Retry, Becomes, auth
  <2> QED  BY <1>1, <2>1, <2>2, <2>3, <2>4, <2>5, <2>6, <2>7 DEF Next
<1>2. Inv /\ [Next]_vars =>
        [Valid(session) /\ session' # session =>
          \/ LogOut
          \/ \E c \in Calls : Succeeds(c) /\ call[c].kind \in Forms
          \/ \E c \in Calls : Unauthorized(c)
                /\ (call[c].token # session \/ call[c].kind = "login")]_vars
  BY <1>1
<1> QED  BY <1>2, Invariant, PTL DEF Spec, ValidSessionSurvives
=============================================================================
