--------------------------- MODULE CircuitBreaker ---------------------------
(***************************************************************************)
(* The three-state circuit breaker that the Upload Service puts in front   *)
(* of the Gallery Service and of RabbitMQ (internal/upload/                *)
(* circuitbreaker.go).                                                     *)
(*                                                                         *)
(* Call(fn) runs in three parts: an admission section under cb.mu, fn      *)
(* outside the lock, a completion section under cb.mu.  Each section is    *)
(* one action; between the two of one caller any other caller may run.     *)
(*                                                                         *)
(* Time is kept to what the code reads of it: cooled says whether          *)
(* time.Since(lastFailure) >= resetTimeout.  A failure sets it to FALSE,   *)
(* Elapse to TRUE.  consecutiveFailures is only compared with maxFailures, *)
(* so it saturates there.                                                  *)
(***************************************************************************)
EXTENDS Integers

CONSTANTS Callers,              \* the goroutines that use the breaker
          MaxFailures           \* maxFailures

ASSUME MaxFailuresAssumption == MaxFailures \in Nat \ {0}

VARIABLES current,              \* the breaker's state
          consecutiveFailures,  \* failures since the last success
          cooled,               \* time.Since(lastFailure) >= resetTimeout
          probing,              \* a half-open probe is marked in flight
          call,                 \* call[c]: where c is, or how its last Call ended
          late                  \* history: a call has outlived resetTimeout of a
                                \* breaker that opened meanwhile (isMember ends
                                \* after 2s of 10s; a publish may wait for longer)

vars == <<current, consecutiveFailures, cooled, probing, call, late>>

States == {"CLOSED", "OPEN", "HALF-OPEN"}

InFlight == {"calling", "probing"}      \* fn runs, outside the lock

Results == {"none", "ok", "failed", "rejected"}

Init ==
    /\ current = "CLOSED"
    /\ consecutiveFailures = 0
    /\ cooled = TRUE
    /\ probing = FALSE
    /\ call = [c \in Callers |-> "none"]
    /\ late = FALSE

Running(c) == call[c] \in InFlight

-----------------------------------------------------------------------------
(* Admission, under cb.mu.                                                 *)

\* Fault: the half-open branch does not look at probing.
MutProbeAnyTime == current = "HALF-OPEN" \/ (current = "OPEN" /\ cooled)

MayProbe ==
    \/ current = "OPEN" /\ cooled
    \/ current = "HALF-OPEN" /\ ~probing

AdmitClosed(c) ==
    /\ ~Running(c)
    /\ current = "CLOSED"
    /\ call' = [call EXCEPT ![c] = "calling"]
    /\ UNCHANGED <<current, consecutiveFailures, cooled, probing, late>>

AdmitProbe(c) ==
    /\ ~Running(c)
    /\ MayProbe
    /\ current' = "HALF-OPEN"
    /\ probing' = TRUE
    /\ call' = [call EXCEPT ![c] = "probing"]
    /\ UNCHANGED <<consecutiveFailures, cooled, late>>

Reject(c) ==
    /\ ~Running(c)
    /\ current # "CLOSED"
    /\ ~MayProbe
    /\ call' = [call EXCEPT ![c] = "rejected"]
    /\ UNCHANGED <<current, consecutiveFailures, cooled, probing, late>>

-----------------------------------------------------------------------------
(* Completion, under cb.mu, for whichever call returns: the code does not  *)
(* ask how the call was admitted.                                          *)

\* Failures counted once one more is added, saturated at the threshold.
CountFailure(n) == IF n < MaxFailures THEN n + 1 ELSE MaxFailures

\* Fault: a successful probe does not close the breaker.
MutSucceedStays(c) ==
    /\ Running(c)
    /\ call' = [call EXCEPT ![c] = "ok"]
    /\ probing' = FALSE
    /\ consecutiveFailures' = 0
    /\ UNCHANGED <<current, cooled, late>>

Succeed(c) ==
    /\ Running(c)
    /\ call' = [call EXCEPT ![c] = "ok"]
    /\ probing' = FALSE
    /\ current' = "CLOSED"
    /\ consecutiveFailures' = 0
    /\ UNCHANGED <<cooled, late>>

\* Fault: probing is cleared on success only.
MutFailKeepsProbing(c) ==
    /\ Running(c)
    /\ call' = [call EXCEPT ![c] = "failed"]
    /\ consecutiveFailures' = CountFailure(consecutiveFailures)
    /\ cooled' = FALSE
    /\ current' = IF current = "HALF-OPEN" \/ consecutiveFailures' >= MaxFailures
                  THEN "OPEN" ELSE current
    /\ UNCHANGED <<probing, late>>

\* Fault: lastFailure is not updated.
MutFailKeepsClock(c) ==
    /\ Running(c)
    /\ call' = [call EXCEPT ![c] = "failed"]
    /\ probing' = FALSE
    /\ consecutiveFailures' = CountFailure(consecutiveFailures)
    /\ current' = IF current = "HALF-OPEN" \/ consecutiveFailures' >= MaxFailures
                  THEN "OPEN" ELSE current
    /\ UNCHANGED <<cooled, late>>

Fail(c) ==
    /\ Running(c)
    /\ call' = [call EXCEPT ![c] = "failed"]
    /\ probing' = FALSE
    /\ consecutiveFailures' = CountFailure(consecutiveFailures)
    /\ cooled' = FALSE
    /\ current' = IF current = "HALF-OPEN" \/ consecutiveFailures' >= MaxFailures
                  THEN "OPEN" ELSE current
    /\ UNCHANGED late

\* resetTimeout passes.  The elapsed time is read in state OPEN only, and the
\* failure that opens the breaker restarts it, so it may pass only there.  Calls
\* in flight at that moment were admitted before it opened: they are late.
Elapse ==
    /\ current = "OPEN"
    /\ ~cooled
    /\ cooled' = TRUE
    /\ late' = (late \/ \E c \in Callers : Running(c))
    /\ UNCHANGED <<current, consecutiveFailures, probing, call>>

Next ==
    \/ \E c \in Callers : AdmitClosed(c) \/ AdmitProbe(c) \/ Reject(c)
                          \/ Succeed(c) \/ Fail(c)
    \/ Elapse

Spec == Init /\ [][Next]_vars

\* fn returns, the clock advances, and requests keep coming.
Fairness ==
    /\ \A c \in Callers : WF_vars(Succeed(c) \/ Fail(c))
    /\ WF_vars(Elapse)
    /\ WF_vars(\E c \in Callers : AdmitProbe(c))

FairSpec == Spec /\ Fairness

-----------------------------------------------------------------------------
TypeOK ==
    /\ current \in States
    /\ consecutiveFailures \in 0 .. MaxFailures
    /\ cooled \in BOOLEAN
    /\ probing \in BOOLEAN
    /\ call \in [Callers -> InFlight \cup Results]
    /\ late \in BOOLEAN

\* The breaker is closed exactly while fewer than maxFailures calls have failed
\* since the last success, whatever order calls complete in (Call, 98-115).
ClosedBelowThreshold ==
    current = "CLOSED" <=> consecutiveFailures < MaxFailures

\* The half-open state and its flag are set and left together: there is no
\* half-open breaker without a probe marked in flight, so the branch of Call
\* that admits one (lines 82-87) is never taken.
HalfOpenIsProbing == current = "HALF-OPEN" <=> probing

\* The three fields are written under different conditions by calls that complete
\* in any order, and still the state is what the count and the flag say.
StateMatchesFields == ClosedBelowThreshold /\ HalfOpenIsProbing

\* One call at a time tests a dependency that is recovering (line 20), as long as
\* no call outlives resetTimeout: one that does clears the flag of the probe in
\* flight (line 98) and lets another in beside it.
AtMostOneProbe ==
    ~late => \A c, d \in Callers : call[c] = "probing" /\ call[d] = "probing" => c = d

\* And until then a half-open breaker changes state only on the answer of its own
\* probe, never on that of a call admitted earlier.
HalfOpenLeftByProbe ==
    [][~late /\ current = "HALF-OPEN" /\ current' # "HALF-OPEN"
         => \E c \in Callers : call[c] = "probing" /\ call'[c] \in {"ok", "failed"}]_vars

\* Once calls stop failing the breaker closes and stays closed: it is never
\* left open or half-open for a dependency that is healthy again.
RecoversWhenHealthy ==
    <>[][\A c \in Callers : ~Fail(c)]_vars => <>[](current = "CLOSED")

=============================================================================
