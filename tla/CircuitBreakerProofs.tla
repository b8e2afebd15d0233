------------------------ MODULE CircuitBreakerProofs ------------------------
(***************************************************************************)
(* Proofs about CircuitBreaker for any set of callers and any threshold,   *)
(* whether or not calls outlive resetTimeout.                              *)
(***************************************************************************)
EXTENDS CircuitBreaker, TLAPS

\* What holds whether or not calls may outlive resetTimeout.
AnyInv == TypeOK /\ ClosedBelowThreshold /\ HalfOpenIsProbing

\* Counting a failure stays within the threshold.
LEMMA CountFailureRange ==
    ASSUME NEW n \in 0 .. MaxFailures
    PROVE  CountFailure(n) \in 1 .. MaxFailures
  BY MaxFailuresAssumption DEF CountFailure

\* The initial breaker satisfies the invariant.
LEMMA InitAnyInv == Init => AnyInv
<1> SUFFICES ASSUME Init
             PROVE  AnyInv
  OBVIOUS
<1>1. current \in States /\ consecutiveFailures \in 0 .. MaxFailures
  BY MaxFailuresAssumption DEF Init, States
<1>2. cooled \in BOOLEAN /\ probing \in BOOLEAN /\ late \in BOOLEAN
  BY DEF Init
<1>3. call \in [Callers -> InFlight \cup Results]
  BY DEF Init, Results
<1>4. ClosedBelowThreshold
  BY MaxFailuresAssumption DEF Init, ClosedBelowThreshold
<1>5. HalfOpenIsProbing
  BY DEF Init, HalfOpenIsProbing
<1> QED
  BY <1>1, <1>2, <1>3, <1>4, <1>5 DEF TypeOK, AnyInv

\* Every step preserves the types.
LEMMA NextTypeOK == TypeOK /\ [Next]_vars => TypeOK'
<1> SUFFICES ASSUME TypeOK, [Next]_vars
             PROVE  TypeOK'
  OBVIOUS
<1> USE DEF TypeOK, Next, vars, AdmitClosed, AdmitProbe, Reject, Succeed, Fail,
            Elapse
<1>1. current' \in States
  BY DEF States
<1>2. consecutiveFailures' \in 0 .. MaxFailures
  BY MaxFailuresAssumption, CountFailureRange
<1>3. cooled' \in BOOLEAN
  OBVIOUS
<1>4. probing' \in BOOLEAN
  OBVIOUS
<1>5. call' \in [Callers -> InFlight \cup Results]
  BY DEF InFlight, Results
<1>6. late' \in BOOLEAN
  OBVIOUS
<1> QED
  BY <1>1, <1>2, <1>3, <1>4, <1>5, <1>6

\* Only completions move the count: a success resets it and closes, a failure
\* opens when it reaches the threshold.
LEMMA NextClosedBelowThreshold == AnyInv /\ [Next]_vars => ClosedBelowThreshold'
<1> SUFFICES ASSUME TypeOK, ClosedBelowThreshold, HalfOpenIsProbing, [Next]_vars
             PROVE  ClosedBelowThreshold'
  BY DEF AnyInv
<1> USE MaxFailuresAssumption DEF TypeOK, States, ClosedBelowThreshold
<1>1. ASSUME NEW c \in Callers, Fail(c)
      PROVE  ClosedBelowThreshold'
  BY <1>1 DEF Fail, CountFailure
<1>2. ASSUME NEW c \in Callers, Succeed(c)
      PROVE  ClosedBelowThreshold'
  BY <1>2 DEF Succeed
<1>3. ASSUME NEW c \in Callers, AdmitProbe(c)
      PROVE  ClosedBelowThreshold'
  BY <1>3 DEF AdmitProbe, MayProbe
<1>4. CASE UNCHANGED <<current, consecutiveFailures>>
  BY <1>4
<1> QED
  BY <1>1, <1>2, <1>3, <1>4 DEF Next, vars, AdmitClosed, Reject, Elapse

\* HALF-OPEN is entered with probing and left by the first completion, which
\* clears it.
LEMMA NextHalfOpenIsProbing == AnyInv /\ [Next]_vars => HalfOpenIsProbing'
<1> SUFFICES ASSUME TypeOK, HalfOpenIsProbing, [Next]_vars
             PROVE  HalfOpenIsProbing'
  BY DEF AnyInv
<1> QED
  BY DEF Next, vars, AdmitClosed, AdmitProbe, Reject, Succeed, Fail, Elapse,
         TypeOK, States, HalfOpenIsProbing

\* Every step preserves the invariant.
LEMMA NextAnyInv == AnyInv /\ [Next]_vars => AnyInv'
  BY NextTypeOK, NextClosedBelowThreshold, NextHalfOpenIsProbing DEF AnyInv

\* Type correctness of the breaker.
THEOREM TypeCorrect == Spec => []TypeOK
<1>1. AnyInv => TypeOK
  BY DEF AnyInv
<1> QED
  BY InitAnyInv, NextAnyInv, <1>1, PTL DEF Spec

\* However calls overlap, the state is what the count and the flag say.
THEOREM StateAlwaysMatches == Spec => []StateMatchesFields
<1>1. AnyInv => StateMatchesFields
  BY DEF AnyInv, StateMatchesFields
<1> QED
  BY InitAnyInv, NextAnyInv, <1>1, PTL DEF Spec

-----------------------------------------------------------------------------
(* While no call has outlived resetTimeout.                                 *)

\* A half-open breaker has nobody in flight but its probe, one ready to probe
\* nobody at all.
Timely ==
    /\ \A c, d \in Callers : call[c] = "probing" /\ call[d] = "probing" => c = d
    /\ (\E c \in Callers : call[c] = "probing") <=> current = "HALF-OPEN"
    /\ current = "HALF-OPEN" => \A c \in Callers : call[c] # "calling"
    /\ current = "OPEN" /\ cooled => \A c \in Callers : ~Running(c)

TimelyInv == AnyInv /\ (~late => Timely)

\* The initial breaker satisfies it.
LEMMA InitTimely == Init => TimelyInv
<1> SUFFICES ASSUME Init
             PROVE  TimelyInv
  OBVIOUS
<1>1. AnyInv
  BY InitAnyInv
<1>2. current = "CLOSED" /\ \A c \in Callers : call[c] = "none"
  BY DEF Init
<1> QED
  BY <1>1, <1>2 DEF TimelyInv, Timely

\* A call once late stays recorded.
LEMMA LateStays == TypeOK /\ [Next]_vars => (~late' => ~late)
  BY DEF TypeOK, Next, vars, AdmitClosed, AdmitProbe, Reject, Succeed, Fail, Elapse

\* Every step that makes no call late preserves Timely.
LEMMA NextTimely ==
    ASSUME AnyInv, Timely, [Next]_vars, ~late'
    PROVE  Timely'
<1> USE DEF Running, InFlight
<1>1. current # "HALF-OPEN" => \A c \in Callers : call[c] # "probing"
  BY DEF Timely
<1>2. TypeOK
  BY DEF AnyInv
<1>3. ASSUME NEW c \in Callers, AdmitClosed(c)
      PROVE  Timely'
  BY <1>1, <1>2, <1>3 DEF AdmitClosed, Timely, TypeOK
<1>4. ASSUME NEW c \in Callers, AdmitProbe(c)
      PROVE  Timely'
  <2>1. current = "OPEN" /\ cooled
    BY <1>4 DEF AdmitProbe, MayProbe, AnyInv, HalfOpenIsProbing
  <2>2. \A d \in Callers : ~Running(d)
    BY <2>1 DEF Timely
  <2>3. /\ current' = "HALF-OPEN"
        /\ call'[c] = "probing"
        /\ \A d \in Callers \ {c} : call'[d] \notin {"calling", "probing"}
    BY <1>2, <1>4, <2>2 DEF AdmitProbe, TypeOK
  <2> QED
    BY <2>3 DEF Timely
<1>5. ASSUME NEW c \in Callers, Reject(c)
      PROVE  Timely'
  BY <1>1, <1>2, <1>5 DEF Reject, Timely, TypeOK
<1>6. ASSUME NEW c \in Callers, Succeed(c) \/ Fail(c)
      PROVE  Timely'
  <2>1. /\ call' = [call EXCEPT ![c] = call'[c]]
        /\ call'[c] \in {"ok", "failed"}
        /\ Running(c)
    BY <1>2, <1>6 DEF Succeed, Fail, TypeOK
  <2>2. current' # "HALF-OPEN"
    BY <1>2, <1>6 DEF Succeed, Fail, TypeOK, States
  <2>3. \A d \in Callers : call'[d] # "probing"
    <3>1. CASE current = "HALF-OPEN"
      BY <1>2, <2>1, <3>1 DEF Timely, TypeOK
    <3>2. CASE current # "HALF-OPEN"
      BY <1>1, <1>2, <2>1, <3>2 DEF TypeOK
    <3> QED
      BY <3>1, <3>2
  <2>4. ~(current' = "OPEN" /\ cooled')
    <3>1. CASE Succeed(c)
      BY <3>1 DEF Succeed
    <3>2. CASE Fail(c)
      BY <3>2 DEF Fail
    <3> QED
      BY <1>6, <3>1, <3>2
  <2> QED
    BY <2>2, <2>3, <2>4 DEF Timely
<1>7. CASE Elapse
  BY <1>1, <1>2, <1>7, ~late' DEF Elapse, Timely, TypeOK
<1>8. CASE UNCHANGED vars
  BY <1>1, <1>8 DEF vars, Timely
<1> QED
  BY <1>3, <1>4, <1>5, <1>6, <1>7, <1>8 DEF Next

\* Every step preserves the invariant.
LEMMA NextTimelyInv == TimelyInv /\ [Next]_vars => TimelyInv'
  BY NextAnyInv, LateStays, NextTimely DEF TimelyInv, AnyInv

\* While no call has outlived resetTimeout at most one probe is in flight.
THEOREM OneProbe == Spec => []AtMostOneProbe
<1>1. TimelyInv => AtMostOneProbe
  BY DEF TimelyInv, Timely, AtMostOneProbe
<1> QED
  BY InitTimely, NextTimelyInv, <1>1, PTL DEF Spec

\* And only the probe's own answer ends the half-open state.
THEOREM ProbeDecides == Spec => HalfOpenLeftByProbe
<1> DEFINE Left == ~late /\ current = "HALF-OPEN" /\ current' # "HALF-OPEN"
           Decided == \E c \in Callers :
                        call[c] = "probing" /\ call'[c] \in {"ok", "failed"}
<1>1. TimelyInv /\ [Next]_vars => [Left => Decided]_vars
  <2> SUFFICES ASSUME TimelyInv, Next, Left
               PROVE  Decided
    BY DEF vars
  <2>1. PICK c \in Callers : Succeed(c) \/ Fail(c)
    BY DEF Next, AdmitClosed, AdmitProbe, Reject, Elapse
  <2>2. call[c] = "probing"
    BY <2>1 DEF TimelyInv, Timely, Succeed, Fail, Running, InFlight
  <2>3. call'[c] \in {"ok", "failed"}
    BY <2>1 DEF TimelyInv, AnyInv, TypeOK, Succeed, Fail
  <2> QED
    BY <2>2, <2>3
<1> QED
  BY InitTimely, NextTimelyInv, <1>1, PTL DEF Spec, HalfOpenLeftByProbe
=============================================================================
