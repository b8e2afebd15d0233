---------------------------- MODULE LoadTestProofs ----------------------------
(***************************************************************************)
(* Proofs about LoadTest: for any accounts, number of permits and set of   *)
(* latencies, the report is complete and its percentiles are those of the  *)
(* requests, whatever the order in which the workers end, hand over their  *)
(* results and are waited for, and whatever ssh does.                      *)
(*                                                                         *)
(* The inductive invariant counts: the permits are the goroutines that     *)
(* hold one, the wait group is the workers to come, totalRequests is the   *)
(* number of places in the lists of results.                               *)
(***************************************************************************)
EXTENDS LoadTest, TLAPS, FiniteSetTheorems

-----------------------------------------------------------------------------
(* What is true between two steps.                                         *)

\* Before the load phase, and the places of a goroutine in either.
Before == {"moderators", "members", "fatal"}
SetUpPlaces == {"todo", "registering", "provisioning", "ready"}
LoadPlaces == {"looping", "asking", "returned", "sent", "done"}

\* Nothing has been measured before the load phase.
NothingYet ==
    main \in Before =>
        /\ \A a \in Accounts : results[a] = <<>>
        /\ total = 0 /\ sent = {}

\* Each goroutine is in a place of its phase, and the set-up is over when the load
\* phase begins: a moderator who takes no part stays where it was.
Phases ==
    /\ main \in Before => \A a \in Accounts : at[a] \in SetUpPlaces
    /\ main \notin Before =>
          /\ \A w \in Workers : at[w] \in LoadPlaces
          /\ \A a \in Accounts \ Workers : at[a] \in {"todo", "ready"}
    /\ \A m \in Moderators \ Creators : at[m] = "todo"
    /\ main = "members" => \A c \in Creators : at[c] = "ready"

\* The permits are those of the goroutines of the set-up that run.
Holding == {a \in Accounts : at[a] \in {"registering", "provisioning"}}
PermitsHeld == sem = Cardinality(Holding)

\* A creator is ready only once its gallery is in the pool.
Seeded ==
    /\ pool <= created
    /\ (\E c \in Creators : at[c] = "ready") => pool > 0
    /\ main \notin {"moderators", "fatal"} => pool > 0

\* The worker that waits is the one with a request.
Asked == \A a \in Accounts : IF at[a] = "asking" THEN op[a] \in Ops ELSE op[a] = "none"

\* The wait group counts the goroutines to come, and their results are in the channel.
Running == {w \in Workers : at[w] # "done"}
Handover ==
    main \notin Before =>
        /\ wg = Cardinality(Running)
        /\ sent = {w \in Workers : at[w] \in {"sent", "done"}}

\* The channel is closed when all is done.
Closing ==
    /\ closed <=> main \in {"closing", "ended"}
    /\ closed => \A w \in Workers : at[w] = "done"

\* totalRequests counts the results of the workers.
Counted ==
    /\ IsFiniteSet(ResultsOf(Workers))
    /\ total = Cardinality(ResultsOf(Workers))

\* The report is the one of these results.
Reported ==
    IF main = "ended"
    THEN /\ DOMAIN report = {o \in Ops : Of(o) # {}}
         /\ \A o \in DOMAIN report :
               /\ report[o].count = Cardinality(Of(o))
               /\ report[o].errors
                     = Cardinality({r \in Of(o) : ~results[r[1]][r[2]].ok})
    ELSE report = <<>>

\* A service that is down is about to be started, unless ssh failed; main waits.
Restoring ==
    /\ ~sshFailed => up \/ crash \in {"stopped", "starting"}
    /\ main = "ended" => crash \in {"off", "over"}

Inv ==
    /\ TypeOK /\ NothingYet /\ Phases /\ PermitsHeld /\ Seeded /\ Asked
    /\ Handover /\ Closing /\ Counted /\ Reported /\ PercentilesHold /\ Restoring

-----------------------------------------------------------------------------
(* The steps, as far as the proofs tell them apart.                        *)

\* A worker gets the answer it waited for; a gallery it created may be picked.
Answered(w) ==
    /\ at[w] = "asking"
    /\ \E l \in Latencies \cup {0}, ok \in BOOLEAN : Measured(w, l, ok)
    /\ \/ pool' = pool /\ created' = created
       \/ pool' = pool /\ created' = created + 1
       \/ pool' = pool + 1 /\ created' = created + 1

Ssh == Wake \/ StopService \/ StartService

LEMMA Steps ==
    ASSUME [Next]_vars
    PROVE  \/ \E a \in Accounts : Spawn(a) \/ Register(a) \/ CreateSeed(a)
                                    \/ JoinShared(a) \/ Fatal(a)
           \/ \E w \in Accounts : Asks(w) \/ Answered(w) \/ Return(w) \/ Send(w) \/ Done(w)
           \/ StartMembers \/ StartLoad \/ TimeUp \/ Close \/ Report
           \/ Ssh \/ UNCHANGED vars
<1>1. ASSUME NEW w \in Accounts, Ends(w)
      PROVE  Answered(w)
  <2>1. CASE PoolOpEnds(w)
    <3>1. at[w] = "asking" /\ pool' = pool /\ created' = created
      BY <2>1 DEF PoolOpEnds
    <3>2. \E l \in Latencies \cup {0}, ok \in BOOLEAN : Measured(w, l, ok)
      BY <2>1, Zenon DEF PoolOpEnds
    <3> QED
      BY <3>1, <3>2 DEF Answered
  <2>2. CASE ListEnds(w)
    BY <2>2, Zenon DEF ListEnds, Answered
  <2>3. CASE UploadEnds(w)
    BY <2>3, Zenon DEF UploadEnds, Answered
  <2>4. CASE CreateEnds(w)
    <3>1. PICK l \in Latencies, ok \in BOOLEAN, effect \in BOOLEAN :
             /\ ok => effect
             /\ Measured(w, l, ok)
             /\ created' = IF effect THEN created + 1 ELSE created
             /\ pool' = IF ok THEN pool + 1 ELSE pool
      BY <2>4, Zenon DEF CreateEnds
    <3>2. at[w] = "asking"
      BY <2>4 DEF CreateEnds
    <3>3. \E m \in Latencies \cup {0}, k \in BOOLEAN : Measured(w, m, k)
      BY <3>1, Zenon
    <3>4. CASE ok
      BY <3>1, <3>2, <3>3, <3>4, Zenon DEF Answered
    <3>5. CASE ~ok
      BY <3>1, <3>2, <3>3, <3>5, Zenon DEF Answered
    <3> QED
      BY <3>4, <3>5
  <2> QED
    BY <1>1, <2>1, <2>2, <2>3, <2>4 DEF Ends
<1>2. ASSUME NEW w \in Accounts, WorkerStep(w)
      PROVE  Asks(w) \/ Answered(w) \/ Return(w) \/ Send(w) \/ Done(w)
  BY <1>1, <1>2, Zenon DEF WorkerStep, MemberAsks, ModeratorAsks, UserAsks
<1> QED
  BY <1>2, Zenon DEF Next, SetUpStep, MainStep, Ssh

-----------------------------------------------------------------------------
(* Types.                                                                  *)

LEMMA FiniteAccounts ==
    /\ IsFiniteSet(Accounts) /\ Cardinality(Accounts) \in Nat
    /\ \A S \in SUBSET Accounts : /\ IsFiniteSet(S)
                                  /\ Cardinality(S) \in 0 .. Cardinality(Accounts)
<1>1. IsFiniteSet(Accounts)
  BY ConfigAssumption, FS_Union DEF Accounts
<1>2. Cardinality(Accounts) \in Nat
  BY <1>1, FS_CardinalityType
<1>3. ASSUME NEW S \in SUBSET Accounts
      PROVE  IsFiniteSet(S) /\ Cardinality(S) \in 0 .. Cardinality(Accounts)
  <2>1. IsFiniteSet(S) /\ Cardinality(S) <= Cardinality(Accounts)
    BY <1>1, FS_Subset
  <2>2. Cardinality(S) \in Nat
    BY <2>1, FS_CardinalityType
  <2> QED
    BY <1>2, <2>1, <2>2
<1> QED
  BY <1>1, <1>2, <1>3

\* Who takes part: one creator of galleries at least, and accounts throughout.
LEMMA Parts ==
    /\ Creators \subseteq Moderators /\ Creators # {}
    /\ Creators \subseteq Accounts /\ Members \subseteq Accounts /\ Moderators \subseteq Accounts
    /\ Workers \subseteq Accounts
    /\ Moderators \cap Members = {}
    /\ Members \subseteq Workers
  BY ConfigAssumption, Zenon DEF Creators, Workers, Accounts

\* Neither changes, as the tool does not.
LEMMA PartsStay ==
    ASSUME [Next]_vars
    PROVE  tool' = tool /\ Creators' = Creators /\ Workers' = Workers
<1>1. tool' = tool
  <2> USE DEF Spawn, Register, Ready, CreateSeed, JoinShared, Fatal, Asks, Answered, Measured,
              Return, Send, Done, StartMembers, StartLoad, TimeUp, Close, Report, Ssh, Wake,
              StopService, StartService, Crashes, vars
  <2> QED
    BY Steps
<1> QED
  BY <1>1 DEF Creators, Workers

LEMMA PickTypes ==
    \A w \in Accounts : Picks(w) \subseteq Ops
  BY DEF Picks, Ops

\* A goroutine that holds a permit is counted.
LEMMA HolderCounts ==
    ASSUME TypeOK, PermitsHeld, NEW a \in Holding
    PROVE  sem \in 1 .. Permits /\ sem - 1 = Cardinality(Holding \ {a})
<1>1. IsFiniteSet(Holding)
  BY FiniteAccounts DEF Holding
<1>2. Cardinality(Holding \ {a}) = Cardinality(Holding) - 1
  BY <1>1, FS_RemoveElement
<1>3. Cardinality(Holding \ {a}) \in Nat
  BY <1>1, FS_RemoveElement, FS_CardinalityType
<1> QED
  BY <1>2, <1>3, ConfigAssumption DEF TypeOK, PermitsHeld

\* So is a worker that is not done.
LEMMA RunnerCounts ==
    ASSUME TypeOK, Handover, main \notin Before, NEW w \in Running
    PROVE  /\ wg \in 1 .. Cardinality(Accounts)
           /\ wg - 1 = Cardinality(Running \ {w})
<1>1. IsFiniteSet(Running)
  BY FiniteAccounts, Parts DEF Running
<1>2. Cardinality(Running \ {w}) = Cardinality(Running) - 1
  BY <1>1, FS_RemoveElement
<1>3. Cardinality(Running \ {w}) \in Nat
  BY <1>1, FS_RemoveElement, FS_CardinalityType
<1> QED
  BY <1>2, <1>3 DEF TypeOK, Handover

\* Only a worker of the load phase is in a place of the load phase.
LEMMA AtLoad ==
    ASSUME Inv, NEW a \in Accounts, at[a] \in LoadPlaces
    PROVE  main \notin Before /\ a \in Workers
  BY DEF Inv, Phases, Before, SetUpPlaces, LoadPlaces

\* And only in the set-up does one register.
LEMMA AtSetUp ==
    ASSUME Inv, NEW a \in Accounts, at[a] \in {"registering", "provisioning"}
    PROVE  main \in Before
  BY Parts DEF Inv, Phases, Before, SetUpPlaces, LoadPlaces

LEMMA TypeStep ==
    ASSUME Inv, [Next]_vars
    PROVE  TypeOK'
<1>0. TypeOK /\ PermitsHeld /\ Handover
  BY DEF TypeOK, Inv
<1>t. tool' = tool /\ Workers' = Workers
  BY PartsStay
<1>1. ASSUME NEW a \in Accounts, Spawn(a)
      PROVE  TypeOK'
  BY <1>0, <1>t, <1>1, ConfigAssumption DEF TypeOK, Spawn, load, ssh
<1>2. ASSUME NEW a \in Accounts, Ready(a), UNCHANGED created, pool' \in Nat,
             at[a] \in {"registering", "provisioning"}
      PROVE  TypeOK'
  <2>1. a \in Holding
    BY <1>2 DEF Holding
  <2>2. sem \in 1 .. Permits /\ sem' = sem - 1
    BY <1>0, <1>2, <2>1, HolderCounts DEF Ready
  <2>3. sem' \in 0 .. Permits
    BY <2>2, ConfigAssumption
  <2> QED
    BY <1>0, <1>t, <1>2, <2>3 DEF TypeOK, Ready, load, ssh
<1>3. ASSUME NEW a \in Accounts, Register(a)
      PROVE  TypeOK'
  <2>1. CASE a \in Members /\ tool = "testgallery"
    BY <1>0, <1>2, <1>3, <2>1 DEF TypeOK, Register
  <2>2. CASE ~(a \in Members /\ tool = "testgallery")
    BY <1>0, <1>t, <1>3, <2>2 DEF TypeOK, Register, load, ssh
  <2> QED
    BY <2>1, <2>2
<1>4. ASSUME NEW a \in Accounts, CreateSeed(a)
      PROVE  TypeOK'
  <2>1. a \in Holding
    BY <1>4 DEF CreateSeed, Holding
  <2>2. sem \in 1 .. Permits /\ sem' = sem - 1
    BY <1>0, <1>4, <2>1, HolderCounts DEF CreateSeed, Ready
  <2>3. sem' \in 0 .. Permits
    BY <2>2, ConfigAssumption
  <2> QED
    BY <1>0, <1>t, <1>4, <2>3 DEF TypeOK, CreateSeed, Ready, load, ssh
<1>5. ASSUME NEW a \in Accounts, JoinShared(a)
      PROVE  TypeOK'
  <2>1. Ready(a) /\ at[a] = "provisioning" /\ UNCHANGED created /\ pool' = pool
    BY <1>5 DEF JoinShared
  <2> QED
    BY <1>0, <1>2, <2>1 DEF TypeOK
<1>6. ASSUME NEW a \in Accounts, Fatal(a)
      PROVE  TypeOK'
  BY <1>0, <1>t, <1>6 DEF TypeOK, Fatal, setup, load, ssh
<1>7. ASSUME NEW w \in Accounts, Asks(w)
      PROVE  TypeOK'
  <2>1. PICK o \in Picks(w) : op' = [op EXCEPT ![w] = o]
    BY <1>7 DEF Asks
  <2>2. o \in Ops
    BY <2>1, PickTypes
  <2>3. op' \in [Accounts -> Ops \cup {"none"}]
    BY <1>0, <2>1, <2>2 DEF TypeOK
  <2>4. at' \in [Accounts -> {"todo", "registering", "provisioning", "ready", "looping",
                             "asking", "returned", "sent", "done"}]
    BY <1>0, <1>7 DEF TypeOK, Asks
  <2>5. UNCHANGED <<tool, main, sem, pool, created, over, results, total, wg, sent, closed,
                    crash, up, sshFailed>>
    BY <1>7 DEF Asks, setup, ssh
  <2> QED
    BY <1>0, <1>t, <2>3, <2>4, <2>5 DEF TypeOK
<1>8. ASSUME NEW w \in Accounts, Answered(w)
      PROVE  TypeOK'
  <2>1. PICK l \in Latencies \cup {0}, ok \in BOOLEAN : Measured(w, l, ok)
    BY <1>8 DEF Answered
  <2>2. op[w] \in Ops
    BY <1>8 DEF Answered, Inv, Asked
  <2>3. [op |-> op[w], latency |-> l, ok |-> ok] \in Result
    BY <2>2 DEF Result
  <2>4. Append(results[w], [op |-> op[w], latency |-> l, ok |-> ok]) \in Seq(Result)
    BY <1>0, <2>3 DEF TypeOK
  <2>5. results' \in [Accounts -> Seq(Result)]
    BY <1>0, <2>1, <2>4 DEF TypeOK, Measured
  <2>6. pool' \in Nat /\ created' \in Nat
    BY <1>0, <1>8 DEF TypeOK, Answered
  <2> QED
    BY <1>0, <1>t, <2>1, <2>5, <2>6 DEF TypeOK, Measured, ssh
<1>9. ASSUME NEW w \in Accounts, Return(w)
      PROVE  TypeOK'
  BY <1>0, <1>t, <1>9 DEF TypeOK, Return, setup, load, ssh
<1>10. ASSUME NEW w \in Accounts, Send(w)
       PROVE  TypeOK'
  <2>1. w \in Workers
    BY <1>10, AtLoad DEF Send, LoadPlaces
  <2> QED
    BY <1>0, <1>t, <1>10, <2>1 DEF TypeOK, Send, setup, ssh
<1>11. ASSUME NEW w \in Accounts, Done(w)
       PROVE  TypeOK'
  <2>1. main \notin Before /\ w \in Running
    BY <1>11, AtLoad DEF Done, LoadPlaces, Running
  <2>2. wg \in 1 .. Cardinality(Accounts) /\ wg' = wg - 1
    BY <1>0, <1>11, <2>1, RunnerCounts DEF Done
  <2>3. wg' \in 0 .. Cardinality(Accounts)
    BY <2>2, FiniteAccounts
  <2> QED
    BY <1>0, <1>t, <1>11, <2>3 DEF TypeOK, Done, setup, ssh
<1>12. CASE StartMembers
  BY <1>0, <1>t, <1>12 DEF TypeOK, StartMembers, setup, load, ssh
<1>13. CASE StartLoad
  BY <1>0, <1>t, <1>13, FiniteAccounts, Parts DEF TypeOK, StartLoad, setup, ssh
<1>14. CASE TimeUp
  BY <1>0, <1>t, <1>14 DEF TypeOK, TimeUp, setup, ssh
<1>15. CASE Close
  BY <1>0, <1>t, <1>15 DEF TypeOK, Close, setup, ssh
<1>16. CASE Report
  BY <1>0, <1>t, <1>16 DEF TypeOK, Report, setup, load, ssh
<1>17. CASE Ssh
  <2>1. UNCHANGED <<main, at, setup, load>>
    BY <1>17 DEF Ssh, Wake, StopService, StartService, Crashes
  <2>2. crash' \in {"off", "waiting", "stopping", "stopped", "starting", "over"}
    BY <1>0, <1>17 DEF TypeOK, Ssh, Wake, StopService, StartService, Crashes
  <2>3. up' \in BOOLEAN
    BY <1>0, <1>17, Zenon DEF TypeOK, Ssh, Wake, StopService, StartService, Compose
  <2>4. sshFailed' \in BOOLEAN
    <3>1. CASE Wake
      BY <1>0, <3>1 DEF TypeOK, Wake
    <3>2. ASSUME NEW fails \in BOOLEAN, sshFailed' = (sshFailed \/ fails)
          PROVE  sshFailed' \in BOOLEAN
      BY <3>2
    <3> QED
      BY <1>17, <3>1, <3>2, Zenon DEF Ssh, StopService, StartService, Compose
  <2> QED
    BY <1>0, <1>t, <2>1, <2>2, <2>3, <2>4 DEF TypeOK, setup, load
<1>18. CASE UNCHANGED vars
  BY <1>0, <1>t, <1>18 DEF TypeOK, vars, setup, load, ssh
<1> QED
  BY <1>1, <1>3, <1>4, <1>5, <1>6, <1>7, <1>8, <1>9, <1>10, <1>11, <1>12, <1>13, <1>14,
     <1>15, <1>16, <1>17, <1>18, Steps

-----------------------------------------------------------------------------
(* Phases.                                                                 *)

\* What a step of the set-up does to the goroutine of an account.
LEMMA SetUpMoves ==
    ASSUME Inv, NEW a \in Accounts,
           Spawn(a) \/ Register(a) \/ CreateSeed(a) \/ JoinShared(a) \/ Fatal(a)
    PROVE  /\ main \in Before
           /\ UNCHANGED <<load, ssh, report>>
           /\ \/ main' = "fatal" /\ at' = at /\ UNCHANGED setup
              \/ /\ main' = main /\ Spawn(a)
                 /\ at[a] = "todo" /\ at' = [at EXCEPT ![a] = "registering"]
              \/ /\ main' = main /\ UNCHANGED setup
                 /\ at[a] = "registering" /\ at' = [at EXCEPT ![a] = "provisioning"]
              \/ /\ main' = main /\ Ready(a) /\ a \in Members
                 /\ UNCHANGED <<pool, created>>
                 /\ at[a] \in {"registering", "provisioning"}
              \/ /\ main' = main /\ Ready(a) /\ CreateSeed(a)
                 /\ at[a] \in {"registering", "provisioning"}
<1>1. CASE Spawn(a)
  BY <1>1 DEF Spawn, Before
<1>2. CASE Register(a)
  <2>1. main \in Before
    BY <1>2, AtSetUp DEF Register
  <2>2. CASE a \in Members /\ tool = "testgallery"
    BY <1>2, <2>1, <2>2 DEF Register, Ready
  <2>3. CASE ~(a \in Members /\ tool = "testgallery")
    BY <1>2, <2>1, <2>3 DEF Register, setup
  <2> QED
    BY <2>2, <2>3
<1>3. CASE CreateSeed(a)
  BY <1>3, AtSetUp DEF CreateSeed, Ready
<1>4. CASE JoinShared(a)
  BY <1>4, AtSetUp DEF JoinShared, Ready
<1>5. CASE Fatal(a)
  BY <1>5, AtSetUp DEF Fatal
<1> QED
  BY <1>1, <1>2, <1>3, <1>4, <1>5

\* What a step of a worker does to it.
LEMMA WorkMoves ==
    ASSUME Inv, NEW w \in Accounts,
           Asks(w) \/ Answered(w) \/ Return(w) \/ Send(w) \/ Done(w)
    PROVE  /\ main \notin Before /\ w \in Workers /\ main' = main
           /\ UNCHANGED <<sem, over, closed, ssh, report>>
           /\ \E p \in LoadPlaces : at' = [at EXCEPT ![w] = p]
<1>1. at[w] \in LoadPlaces
  BY DEF Asks, Answered, Return, Send, Done, LoadPlaces
<1>2. main \notin Before /\ w \in Workers
  BY <1>1, AtLoad
<1>3. main' = main /\ UNCHANGED <<sem, over, closed, ssh, report>>
  BY DEF Asks, Answered, Measured, Return, Send, Done, setup, load
<1>4. \E p \in LoadPlaces : at' = [at EXCEPT ![w] = p]
  BY DEF Asks, Answered, Measured, Return, Send, Done, LoadPlaces
<1> QED
  BY <1>2, <1>3, <1>4

LEMMA PhaseStep ==
    ASSUME Inv, [Next]_vars
    PROVE  Phases'
<1> USE DEF Phases, Before, SetUpPlaces
<1>0. TypeOK /\ Phases
  BY DEF Inv
<1>t. Creators' = Creators /\ Workers' = Workers
  BY PartsStay
<1>a. at \in [Accounts -> SetUpPlaces \cup LoadPlaces]
  BY <1>0 DEF TypeOK, LoadPlaces
<1>1. ASSUME NEW a \in Accounts,
             Spawn(a) \/ Register(a) \/ CreateSeed(a) \/ JoinShared(a) \/ Fatal(a)
      PROVE  Phases'
  <2>1. main \in Before /\ main' \in Before
    BY <1>1, SetUpMoves
  <2>2. \A b \in Accounts : at'[b] \in SetUpPlaces
    BY <1>0, <1>1, <1>a, <2>1, SetUpMoves DEF Ready
  <2>3. ASSUME NEW m \in Moderators \ Creators
        PROVE  at'[m] = "todo"
    <3>1. at[m] = "todo" /\ m \in Accounts /\ m \notin Members
      BY <1>0, Parts
    <3>2. ~Spawn(m)
      BY <3>1 DEF Spawn, SettingUp
    <3> QED
      BY <1>1, <1>a, <3>1, <3>2, SetUpMoves DEF Ready
  <2>4. ASSUME main' = "members", NEW c \in Creators
        PROVE  at'[c] = "ready"
    <3>1. main = "members" /\ main' = main
      BY <1>1, <2>4, SetUpMoves
    <3>2. at[c] = "ready" /\ c \in Accounts
      BY <1>0, <2>4, <3>1, Parts
    <3> QED
      BY <1>1, <1>a, <2>4, <3>1, <3>2, SetUpMoves DEF Ready
  <2> QED
    BY <1>t, <2>1, <2>2, <2>3, <2>4
<1>2. ASSUME NEW w \in Accounts,
             Asks(w) \/ Answered(w) \/ Return(w) \/ Send(w) \/ Done(w)
      PROVE  Phases'
  <2>1. main \notin Before /\ w \in Workers /\ main' = main
    BY <1>2, WorkMoves
  <2>2. PICK p \in LoadPlaces : at' = [at EXCEPT ![w] = p]
    BY <1>2, WorkMoves
  <2>3. at[w] \in LoadPlaces
    BY <1>0, <2>1
  <2>4. w \notin Moderators \ Creators
    BY <1>0, <2>3 DEF LoadPlaces
  <2> QED
    BY <1>0, <1>a, <1>t, <2>1, <2>2, <2>4, Parts
<1>3. CASE StartMembers
  BY <1>0, <1>t, <1>3 DEF StartMembers
<1>4. CASE StartLoad
  <2>1. \A w \in Workers : at'[w] \in LoadPlaces
    BY <1>4, Parts DEF StartLoad, LoadPlaces
  <2>2. ASSUME NEW a \in Accounts \ Workers
        PROVE  at'[a] \in {"todo", "ready"}
    <3>1. at'[a] = at[a]
      BY <1>4 DEF StartLoad
    <3>2. a \in Moderators
      BY Parts DEF Accounts
    <3> QED
      BY <1>0, <1>4, <3>1, <3>2 DEF StartLoad
  <2>3. ASSUME NEW m \in Moderators \ Creators
        PROVE  at'[m] = "todo"
    <3>1. m \notin Workers
      BY Parts, <2>3 DEF Workers, Creators
    <3> QED
      BY <1>0, <1>4, <3>1, Parts DEF StartLoad
  <2> QED
    BY <1>4, <1>t, <2>1, <2>2, <2>3 DEF StartLoad
<1>5. CASE TimeUp \/ Close \/ Report \/ Ssh \/ UNCHANGED vars
  <2>1. at' = at
    BY <1>5 DEF TimeUp, Close, Report, Ssh, Wake, StopService, StartService, Crashes, vars
  <2>2. (main \in Before <=> main' \in Before) /\ (main' = "members" => main = "members")
    BY <1>5 DEF TimeUp, Close, Report, Ssh, Wake, StopService, StartService, Crashes, vars
  <2> QED
    BY <1>0, <1>t, <2>1, <2>2
<1> QED
  BY <1>1, <1>2, <1>3, <1>4, <1>5, Steps

LEMMA NothingYetStep ==
    ASSUME Inv, [Next]_vars
    PROVE  NothingYet'
<1> SUFFICES ASSUME main' \in Before
             PROVE  /\ \A a \in Accounts : results'[a] = <<>>
                    /\ total' = 0 /\ sent' = {}
  BY DEF NothingYet
<1>1. main \in Before /\ UNCHANGED <<results, total, sent>>
  <2>1. CASE \E a \in Accounts : Spawn(a) \/ Register(a) \/ CreateSeed(a)
                                   \/ JoinShared(a) \/ Fatal(a)
    BY <2>1, SetUpMoves DEF load
  <2>2. CASE \E w \in Accounts : Asks(w) \/ Answered(w) \/ Return(w) \/ Send(w) \/ Done(w)
    BY <2>2, WorkMoves
  <2>3. CASE StartMembers \/ StartLoad \/ TimeUp \/ Close \/ Report \/ Ssh \/ UNCHANGED vars
    BY <2>3 DEF StartMembers, StartLoad, TimeUp, Close, Report, Ssh, Wake, StopService,
                StartService, Crashes, vars, load, Before
  <2> QED
    BY <2>1, <2>2, <2>3, Steps
<1> QED
  BY <1>1 DEF Inv, NothingYet

-----------------------------------------------------------------------------
(* The set-up: permits and seeds.                                          *)

LEMMA PermitStep ==
    ASSUME Inv, [Next]_vars
    PROVE  PermitsHeld'
<1>0. TypeOK /\ PermitsHeld /\ Phases
  BY DEF Inv
<1>a. at \in [Accounts -> SetUpPlaces \cup LoadPlaces]
  BY <1>0 DEF TypeOK, SetUpPlaces, LoadPlaces
<1>f. IsFiniteSet(Holding)
  BY FiniteAccounts DEF Holding
<1>1. ASSUME NEW a \in Accounts,
             Spawn(a) \/ Register(a) \/ CreateSeed(a) \/ JoinShared(a) \/ Fatal(a)
      PROVE  PermitsHeld'
  <2>1. CASE at' = at /\ UNCHANGED setup
    BY <1>0, <2>1 DEF PermitsHeld, Holding, setup
  <2>2. CASE Spawn(a)
    <3>1. a \notin Holding
      BY <2>2 DEF Spawn, Holding
    <3>2. Holding' = Holding \cup {a}
      BY <1>a, <2>2 DEF Spawn, Holding
    <3>3. Cardinality(Holding \cup {a}) = Cardinality(Holding) + 1
      BY <1>f, <3>1, FS_AddElement
    <3> QED
      BY <1>0, <2>2, <3>2, <3>3 DEF Spawn, PermitsHeld
  <2>3. CASE UNCHANGED setup /\ at[a] = "registering"
               /\ at' = [at EXCEPT ![a] = "provisioning"]
    <3>1. Holding' = Holding
      BY <1>a, <2>3 DEF Holding
    <3> QED
      BY <1>0, <2>3, <3>1 DEF PermitsHeld, setup
  <2>4. CASE Ready(a) /\ at[a] \in {"registering", "provisioning"}
    <3>1. a \in Holding
      BY <2>4 DEF Holding
    <3>2. Holding' = Holding \ {a}
      BY <1>a, <2>4 DEF Ready, Holding
    <3>3. sem - 1 = Cardinality(Holding \ {a})
      BY <1>0, <3>1, HolderCounts
    <3> QED
      BY <2>4, <3>2, <3>3 DEF Ready, PermitsHeld
  <2> QED
    BY <1>1, <2>1, <2>2, <2>3, <2>4, SetUpMoves
<1>2. ASSUME NEW w \in Accounts,
             Asks(w) \/ Answered(w) \/ Return(w) \/ Send(w) \/ Done(w)
      PROVE  PermitsHeld'
  <2>1. w \in Workers /\ main \notin Before /\ sem' = sem
    BY <1>2, WorkMoves
  <2>2. PICK p \in LoadPlaces : at' = [at EXCEPT ![w] = p]
    BY <1>2, WorkMoves
  <2>3. at[w] \in LoadPlaces
    BY <1>0, <2>1 DEF Phases
  <2>4. Holding' = Holding
    BY <1>a, <2>2, <2>3 DEF Holding, LoadPlaces
  <2> QED
    BY <1>0, <2>1, <2>4 DEF PermitsHeld
<1>3. CASE StartLoad
  <2>1. ASSUME NEW a \in Accounts
        PROVE  /\ at[a] \notin {"registering", "provisioning"}
               /\ at'[a] \notin {"registering", "provisioning"}
    <3>1. at[a] \in {"ready", "todo"}
      BY <1>0, <1>3 DEF StartLoad, Phases, Accounts
    <3>2. at'[a] \in {at[a], "looping"}
      BY <1>3 DEF StartLoad
    <3> QED
      BY <3>1, <3>2
  <2>2. Holding' = Holding
    BY <2>1 DEF Holding
  <2> QED
    BY <1>0, <1>3, <2>2 DEF StartLoad, PermitsHeld, setup
<1>4. CASE StartMembers \/ TimeUp \/ Close \/ Report \/ Ssh \/ UNCHANGED vars
  <2>1. UNCHANGED <<at, sem>>
    BY <1>4 DEF StartMembers, TimeUp, Close, Report, Ssh, Wake, StopService, StartService,
                Crashes, vars, setup
  <2> QED
    BY <1>0, <2>1 DEF PermitsHeld, Holding
<1> QED
  BY <1>1, <1>2, <1>3, <1>4, Steps

LEMMA SeedStep ==
    ASSUME Inv, [Next]_vars
    PROVE  Seeded'
<1>0. TypeOK /\ Seeded /\ Phases
  BY DEF Inv
<1>t. Creators' = Creators
  BY PartsStay
<1>a. at \in [Accounts -> SetUpPlaces \cup LoadPlaces]
  BY <1>0 DEF TypeOK, SetUpPlaces, LoadPlaces
<1>n. pool \in Nat /\ created \in Nat
  BY <1>0 DEF TypeOK
<1>1. ASSUME NEW a \in Accounts,
             Spawn(a) \/ Register(a) \/ CreateSeed(a) \/ JoinShared(a) \/ Fatal(a)
      PROVE  Seeded'
  <2>1. CASE CreateSeed(a)
    <3>1. pool' = pool + 1 /\ created' = created + 1
      BY <2>1 DEF CreateSeed
    <3> QED
      BY <1>0, <1>n, <3>1 DEF Seeded
  <2>2. CASE ~CreateSeed(a)
    <3>1. pool' = pool /\ created' = created
      BY <1>1, <2>2, SetUpMoves DEF Spawn, setup
    <3>2. main' \in {main, "fatal"}
      BY <1>1, SetUpMoves
    <3>3. ASSUME NEW c \in Creators, at'[c] = "ready"
          PROVE  at[c] = "ready"
      <4>1. c \in Accounts /\ c \notin Members
        BY Parts
      <4> QED
        BY <1>1, <1>a, <2>2, <3>3, <4>1, SetUpMoves DEF Ready
    <3> QED
      BY <1>0, <1>t, <3>1, <3>2, <3>3 DEF Seeded
  <2> QED
    BY <2>1, <2>2
<1>2. ASSUME NEW w \in Accounts,
             Asks(w) \/ Answered(w) \/ Return(w) \/ Send(w) \/ Done(w)
      PROVE  Seeded'
  <2>1. main \notin Before /\ main' = main
    BY <1>2, WorkMoves
  <2>2. pool > 0
    BY <1>0, <2>1 DEF Seeded, Before
  <2>3. pool' <= created' /\ pool' > 0
    BY <1>0, <1>2, <1>n, <2>2
    DEF Seeded, Asks, Answered, Return, Send, Done, setup
  <2> QED
    BY <2>3 DEF Seeded
<1>3. CASE StartMembers
  <2>1. PICK c \in Creators : at[c] = "ready"
    BY <1>3, Parts DEF StartMembers
  <2>2. pool > 0 /\ pool' = pool /\ created' = created
    BY <1>0, <1>3, <2>1 DEF StartMembers, Seeded, setup
  <2> QED
    BY <1>0, <2>2 DEF Seeded
<1>4. CASE StartLoad
  <2>1. pool > 0 /\ pool' = pool /\ created' = created
    BY <1>0, <1>4 DEF StartLoad, Seeded, setup
  <2> QED
    BY <1>0, <2>1 DEF Seeded
<1>5. CASE TimeUp \/ Close \/ Report \/ Ssh \/ UNCHANGED vars
  <2>1. UNCHANGED <<at, pool, created>>
    BY <1>5 DEF TimeUp, Close, Report, Ssh, Wake, StopService, StartService, Crashes, vars,
                setup
  <2>2. main' \in {"moderators", "fatal"} => main = main'
    BY <1>5 DEF TimeUp, Close, Report, Ssh, Wake, StopService, StartService, Crashes, vars
  <2>3. main \in {"moderators", "fatal"} => main = main'
    BY <1>5 DEF TimeUp, Close, Report, Ssh, Wake, StopService, StartService, Crashes, vars
  <2> QED
    BY <1>0, <1>t, <2>1, <2>2, <2>3 DEF Seeded
<1> QED
  BY <1>1, <1>2, <1>3, <1>4, <1>5, Steps

-----------------------------------------------------------------------------
(* The load phase.                                                         *)

LEMMA AskStep ==
    ASSUME Inv, [Next]_vars
    PROVE  Asked'
<1> USE DEF Asked
<1>0. Asked /\ Phases
  BY DEF Inv
<1>a. at \in [Accounts -> SetUpPlaces \cup LoadPlaces] /\ op \in [Accounts -> Ops \cup {"none"}]
  BY DEF Inv, TypeOK, SetUpPlaces, LoadPlaces
<1>1. ASSUME NEW a \in Accounts,
             Spawn(a) \/ Register(a) \/ CreateSeed(a) \/ JoinShared(a) \/ Fatal(a)
      PROVE  Asked'
  <2>1. op' = op
    BY <1>1, SetUpMoves DEF load
  <2>2. at[a] # "asking" \/ at' = at
    BY <1>1 DEF Spawn, Register, CreateSeed, JoinShared, Fatal
  <2>3. at' = at \/ \E p \in SetUpPlaces : at' = [at EXCEPT ![a] = p]
    BY <1>1, SetUpMoves DEF Ready, SetUpPlaces
  <2> QED
    BY <1>0, <1>a, <2>1, <2>2, <2>3 DEF SetUpPlaces
<1>2. ASSUME NEW w \in Accounts, Asks(w)
      PROVE  Asked'
  <2>1. PICK o \in Picks(w) : op' = [op EXCEPT ![w] = o]
    BY <1>2 DEF Asks
  <2>2. o \in Ops
    BY <2>1, PickTypes
  <2>3. at' = [at EXCEPT ![w] = "asking"]
    BY <1>2 DEF Asks
  <2> QED
    BY <1>0, <1>a, <2>1, <2>2, <2>3
<1>3. ASSUME NEW w \in Accounts, Answered(w)
      PROVE  Asked'
  <2>1. at' = [at EXCEPT ![w] = "looping"] /\ op' = [op EXCEPT ![w] = "none"]
    BY <1>3 DEF Answered, Measured
  <2> QED
    BY <1>0, <1>a, <2>1
<1>4. ASSUME NEW w \in Accounts, Return(w) \/ Send(w) \/ Done(w)
      PROVE  Asked'
  <2>1. op' = op /\ at[w] # "asking"
    BY <1>4 DEF Return, Send, Done, load
  <2>2. \E p \in {"returned", "sent", "done"} : at' = [at EXCEPT ![w] = p]
    BY <1>4 DEF Return, Send, Done
  <2> QED
    BY <1>0, <1>a, <2>1, <2>2
<1>5. CASE StartLoad
  <2>1. op' = op /\ \A a \in Accounts : at[a] # "asking"
    BY <1>0, <1>5 DEF StartLoad, Phases, Before, SetUpPlaces
  <2>2. \A a \in Accounts : at'[a] # "asking"
    BY <1>5, <2>1 DEF StartLoad
  <2> QED
    BY <1>0, <2>1, <2>2
<1>6. CASE StartMembers \/ TimeUp \/ Close \/ Report \/ Ssh \/ UNCHANGED vars
  <2>1. UNCHANGED <<at, op>>
    BY <1>6 DEF StartMembers, TimeUp, Close, Report, Ssh, Wake, StopService, StartService,
                Crashes, vars, load
  <2> QED
    BY <1>0, <2>1
<1> QED
  BY <1>1, <1>2, <1>3, <1>4, <1>5, <1>6, Steps

LEMMA HandoverStep ==
    ASSUME Inv, [Next]_vars
    PROVE  Handover'
<1> SUFFICES ASSUME main' \notin Before
             PROVE  /\ wg' = Cardinality(Running')
                    /\ sent' = {w \in Workers : at'[w] \in {"sent", "done"}}
  BY PartsStay DEF Handover
<1>0. TypeOK /\ Handover /\ Phases /\ NothingYet
  BY DEF Inv
<1>t. Workers' = Workers
  BY PartsStay
<1>a. at \in [Accounts -> SetUpPlaces \cup LoadPlaces]
  BY <1>0 DEF TypeOK, SetUpPlaces, LoadPlaces
<1>1. CASE \E a \in Accounts : Spawn(a) \/ Register(a) \/ CreateSeed(a)
                                 \/ JoinShared(a) \/ Fatal(a)
  BY <1>1, SetUpMoves DEF Before
<1>2. ASSUME NEW w \in Accounts, Asks(w) \/ Answered(w) \/ Return(w)
      PROVE  /\ wg' = Cardinality(Running')
             /\ sent' = {v \in Workers : at'[v] \in {"sent", "done"}}
  <2>1. main \notin Before /\ w \in Workers /\ UNCHANGED <<wg, sent>>
    BY <1>2, WorkMoves DEF Asks, Answered, Measured, Return, load
  <2>2. at[w] \notin {"sent", "done"}
    BY <1>2 DEF Asks, Answered, Return
  <2>3. \E p \in {"asking", "looping", "returned"} : at' = [at EXCEPT ![w] = p]
    BY <1>2 DEF Asks, Answered, Measured, Return
  <2>4. Running' = Running
    BY <1>a, <1>t, <2>1, <2>2, <2>3, Parts DEF Running
  <2>5. {v \in Workers : at'[v] \in {"sent", "done"}} = {v \in Workers : at[v] \in {"sent", "done"}}
    BY <1>a, <2>1, <2>2, <2>3, Parts
  <2> QED
    BY <1>0, <2>1, <2>4, <2>5 DEF Handover
<1>3. ASSUME NEW w \in Accounts, Send(w)
      PROVE  /\ wg' = Cardinality(Running')
             /\ sent' = {v \in Workers : at'[v] \in {"sent", "done"}}
  <2>1. main \notin Before /\ w \in Workers
    BY <1>3, WorkMoves
  <2>2. /\ at[w] = "returned" /\ at' = [at EXCEPT ![w] = "sent"]
        /\ sent' = sent \cup {w} /\ wg' = wg
    BY <1>3 DEF Send
  <2>3. Running' = Running
    BY <1>a, <1>t, <2>1, <2>2, Parts DEF Running
  <2>4. {v \in Workers : at'[v] \in {"sent", "done"}}
          = {v \in Workers : at[v] \in {"sent", "done"}} \cup {w}
    BY <1>a, <2>1, <2>2, Parts
  <2> QED
    BY <1>0, <2>1, <2>2, <2>3, <2>4 DEF Handover
<1>4. ASSUME NEW w \in Accounts, Done(w)
      PROVE  /\ wg' = Cardinality(Running')
             /\ sent' = {v \in Workers : at'[v] \in {"sent", "done"}}
  <2>1. main \notin Before /\ w \in Workers
    BY <1>4, WorkMoves
  <2>2. /\ at[w] = "sent" /\ at' = [at EXCEPT ![w] = "done"]
        /\ sent' = sent /\ wg' = wg - 1
    BY <1>4 DEF Done
  <2>3. w \in Running /\ Running' = Running \ {w}
    BY <1>a, <1>t, <2>1, <2>2, Parts DEF Running
  <2>4. wg - 1 = Cardinality(Running \ {w})
    BY <1>0, <2>1, <2>3, RunnerCounts
  <2>5. {v \in Workers : at'[v] \in {"sent", "done"}} = {v \in Workers : at[v] \in {"sent", "done"}}
    BY <1>a, <2>1, <2>2, Parts
  <2> QED
    BY <1>0, <2>1, <2>2, <2>3, <2>4, <2>5 DEF Handover
<1>5. CASE StartLoad
  <2>1. \A w \in Workers : at'[w] = "looping"
    BY <1>5, Parts DEF StartLoad
  <2>2. Running' = Workers /\ wg' = Cardinality(Workers)
    BY <1>5, <1>t, <2>1 DEF StartLoad, Running
  <2>3. sent' = {}
    BY <1>0, <1>5 DEF StartLoad, NothingYet, Before
  <2> QED
    BY <2>1, <2>2, <2>3
<1>6. CASE StartMembers \/ TimeUp \/ Close \/ Report \/ Ssh \/ UNCHANGED vars
  <2>1. UNCHANGED <<at, wg, sent>>
    BY <1>6 DEF StartMembers, TimeUp, Close, Report, Ssh, Wake, StopService, StartService,
                Crashes, vars, load
  <2>2. main \notin Before
    BY <1>6 DEF StartMembers, TimeUp, Close, Report, Ssh, Wake, StopService, StartService,
                Crashes, vars, Before
  <2>3. Running' = Running
    BY <1>t, <2>1 DEF Running
  <2> QED
    BY <1>0, <2>1, <2>2, <2>3 DEF Handover
<1> QED
  BY <1>1, <1>2, <1>3, <1>4, <1>5, <1>6, Steps

LEMMA ClosingStep ==
    ASSUME Inv, [Next]_vars
    PROVE  Closing'
<1> USE DEF Closing
<1>0. TypeOK /\ Closing /\ Handover
  BY DEF Inv
<1>t. Workers' = Workers
  BY PartsStay
<1>a. at \in [Accounts -> SetUpPlaces \cup LoadPlaces] /\ closed \in BOOLEAN
  BY <1>0 DEF TypeOK, SetUpPlaces, LoadPlaces
<1>1. ASSUME NEW a \in Accounts,
             Spawn(a) \/ Register(a) \/ CreateSeed(a) \/ JoinShared(a) \/ Fatal(a)
      PROVE  Closing'
  <2>1. main \in Before /\ main' \in Before /\ closed' = closed
    BY <1>1, SetUpMoves DEF Before, load
  <2> QED
    BY <1>0, <2>1 DEF Before
<1>2. ASSUME NEW w \in Accounts,
             Asks(w) \/ Answered(w) \/ Return(w) \/ Send(w) \/ Done(w)
      PROVE  Closing'
  <2>1. w \in Workers /\ main' = main /\ closed' = closed
    BY <1>2, WorkMoves
  <2>2. at[w] # "done"
    BY <1>2 DEF Asks, Answered, Return, Send, Done
  <2>3. ~closed
    BY <1>0, <2>1, <2>2
  <2> QED
    BY <1>0, <2>1, <2>3
<1>3. CASE Close
  <2>1. main = "load" /\ wg = 0 /\ main' = "closing" /\ closed' = TRUE /\ at' = at
    BY <1>3 DEF Close
  <2>2. Cardinality(Running) = 0
    BY <1>0, <2>1 DEF Handover, Before
  <2>3. Running = {}
    BY <2>2, FiniteAccounts, Parts, FS_EmptySet DEF Running
  <2> QED
    BY <1>t, <2>1, <2>3 DEF Running
<1>4. CASE Report
  BY <1>0, <1>4, <1>t DEF Report, load
<1>5. CASE StartMembers \/ StartLoad
  <2>1. ~closed /\ closed' = closed /\ main' \in {"members", "load"}
    BY <1>0, <1>5 DEF StartMembers, StartLoad, load
  <2> QED
    BY <2>1
<1>6. CASE TimeUp \/ Ssh \/ UNCHANGED vars
  <2>1. UNCHANGED <<main, at, closed>>
    BY <1>6 DEF TimeUp, Ssh, Wake, StopService, StartService, Crashes, vars, load
  <2> QED
    BY <1>0, <1>t, <2>1
<1> QED
  BY <1>1, <1>2, <1>3, <1>4, <1>5, <1>6, Steps

LEMMA RestoringStep ==
    ASSUME Inv, [Next]_vars
    PROVE  Restoring'
<1> USE DEF Restoring
<1>0. TypeOK /\ Restoring
  BY DEF Inv
<1>1. CASE \E a \in Accounts : Spawn(a) \/ Register(a) \/ CreateSeed(a)
                                 \/ JoinShared(a) \/ Fatal(a)
  <2>1. main' # "ended" /\ UNCHANGED ssh
    BY <1>1, SetUpMoves DEF Before
  <2> QED
    BY <1>0, <2>1 DEF ssh
<1>2. CASE \E w \in Accounts : Asks(w) \/ Answered(w) \/ Return(w) \/ Send(w) \/ Done(w)
  <2>1. main' = main /\ UNCHANGED ssh
    BY <1>2, WorkMoves
  <2> QED
    BY <1>0, <2>1 DEF ssh
<1>3. CASE Wake
  BY <1>0, <1>3 DEF Wake, Crashes
<1>4. CASE StopService
  <2>1. PICK fails \in BOOLEAN :
           Compose(FALSE, fails) /\ Crashes(IF fails THEN "over" ELSE "stopped")
    BY <1>4 DEF StopService
  <2>2. main' = main /\ main # "ended"
    BY <1>0, <1>4 DEF StopService, Crashes
  <2>3. CASE fails
    BY <2>1, <2>2, <2>3 DEF Compose
  <2>4. CASE ~fails
    BY <2>1, <2>2, <2>4 DEF Crashes
  <2> QED
    BY <2>3, <2>4
<1>5. CASE StartService
  <2>1. PICK fails \in BOOLEAN : Compose(TRUE, fails) /\ Crashes("over")
    BY <1>5 DEF StartService
  <2>2. main' = main /\ main # "ended"
    BY <1>0, <1>5 DEF StartService, Crashes
  <2>3. CASE fails
    BY <2>1, <2>2, <2>3 DEF Compose
  <2>4. CASE ~fails
    BY <2>1, <2>2, <2>4 DEF Compose
  <2> QED
    BY <2>3, <2>4
<1>6. CASE StartMembers \/ StartLoad \/ TimeUp \/ Close \/ Report \/ UNCHANGED vars
  <2>1. UNCHANGED ssh
    BY <1>6 DEF StartMembers, StartLoad, TimeUp, Close, Report, vars
  <2>2. main' = "ended" => crash \in {"off", "over"}
    BY <1>0, <1>6 DEF StartMembers, StartLoad, TimeUp, Close, Report, vars
  <2> QED
    BY <1>0, <2>1, <2>2 DEF ssh
<1> QED
  BY <1>1, <1>2, <1>3, <1>4, <1>5, <1>6, Steps DEF Ssh

-----------------------------------------------------------------------------
(* The results.                                                            *)

\* The places of the results of some workers.
LEMMA Places ==
    \A f, W, r :
        r \in UNION {{<<w, i>> : i \in 1 .. Len(f[w])} : w \in W}
          <=> \E w \in W : \E i \in 1 .. Len(f[w]) : r = <<w, i>>
<1> SUFFICES ASSUME NEW f, NEW W, NEW r
             PROVE  r \in UNION {{<<w, i>> : i \in 1 .. Len(f[w])} : w \in W}
                      <=> \E w \in W : \E i \in 1 .. Len(f[w]) : r = <<w, i>>
  OBVIOUS
<1> DEFINE Its(w) == {<<w, i>> : i \in 1 .. Len(f[w])}
<1>1. r \in UNION {Its(w) : w \in W} <=> \E w \in W : r \in Its(w)
  OBVIOUS
<1>2. \A w : r \in Its(w) <=> \E i \in 1 .. Len(f[w]) : r = <<w, i>>
  OBVIOUS
<1> QED
  BY <1>1, <1>2

LEMMA ResultPlaces ==
    \A W, r : r \in ResultsOf(W) <=> \E w \in W : \E i \in 1 .. Len(results[w]) : r = <<w, i>>
  BY Places DEF ResultsOf

\* A measured request is one more result, and no other place changes.
LEMMA CountStep ==
    ASSUME Inv, [Next]_vars
    PROVE  Counted'
<1> USE DEF Counted
<1>0. TypeOK /\ Counted
  BY DEF Inv
<1>t. Workers' = Workers
  BY PartsStay
<1>1. CASE UNCHANGED <<results, total>>
  <2>1. ResultsOf(Workers)' = ResultsOf(Workers)
    BY <1>1, <1>t DEF ResultsOf
  <2> QED
    BY <1>0, <1>1, <2>1
<1>2. ASSUME NEW w \in Accounts, Answered(w)
      PROVE  Counted'
  <2> DEFINE old == ResultsOf(Workers)
             new == <<w, Len(results[w]) + 1>>
  <2>1. PICK l \in Latencies \cup {0}, ok \in BOOLEAN : Measured(w, l, ok)
    BY <1>2 DEF Answered
  <2>2. PICK row : results' = [results EXCEPT ![w] = Append(results[w], row)]
    BY <2>1 DEF Measured
  <2>3. w \in Workers /\ total' = total + 1
    BY <1>2, <2>1, WorkMoves DEF Measured
  <2>4. \A v \in Accounts : results[v] \in Seq(Result) /\ Len(results[v]) \in Nat
    BY <1>0 DEF TypeOK
  <2>5. Len(results'[w]) = Len(results[w]) + 1
    BY <1>0, <2>2, <2>4 DEF TypeOK
  <2>6. \A v \in Workers : v # w => results'[v] = results[v]
    BY <1>0, <2>2, Parts DEF TypeOK
  <2>7. new \notin old
    <3>1. Len(results[w]) + 1 \notin 1 .. Len(results[w])
      BY <2>4
    <3> SUFFICES ASSUME new \in old
                 PROVE  FALSE
      OBVIOUS
    <3>2. \E v \in Workers : \E i \in 1 .. Len(results[v]) : new = <<v, i>>
      BY ResultPlaces
    <3>3. PICK v \in Workers : \E i \in 1 .. Len(results[v]) : new = <<v, i>>
      BY <3>2
    <3>4. PICK i \in 1 .. Len(results[v]) : new = <<v, i>>
      BY <3>3
    <3>5. v = w /\ i = Len(results[w]) + 1
      BY <3>4
    <3> QED
      BY <3>1, <3>5
  <2>8. ASSUME NEW r
        PROVE  r \in ResultsOf(Workers)' <=> r \in old \cup {new}
    <3>1. r \in ResultsOf(Workers)' <=>
             \E v \in Workers : \E i \in 1 .. Len(results'[v]) : r = <<v, i>>
      BY <1>t, Places DEF ResultsOf
    <3>2. \A i : i \in 1 .. Len(results'[w]) <=>
                    i \in 1 .. Len(results[w]) \/ i = Len(results[w]) + 1
      BY <2>4, <2>5
    <3>3. (\E i \in 1 .. Len(results'[w]) : r = <<w, i>>) <=>
             (\E i \in 1 .. Len(results[w]) : r = <<w, i>>) \/ r = new
      BY <3>2
    <3>4. r \in old <=> \E v \in Workers : \E i \in 1 .. Len(results[v]) : r = <<v, i>>
      BY ResultPlaces
    <3> HIDE DEF old, new
    <3> QED
      BY <2>3, <2>6, <3>1, <3>3, <3>4
  <2>9. ResultsOf(Workers)' = old \cup {new}
    BY <2>8
  <2> HIDE DEF old, new
  <2>10. IsFiniteSet(old \cup {new}) /\ Cardinality(old \cup {new}) = Cardinality(old) + 1
    BY <1>0, <2>7, FS_AddElement DEF old
  <2> QED
    BY <1>0, <2>3, <2>9, <2>10 DEF old
<1>3. CASE \E a \in Accounts : Spawn(a) \/ Register(a) \/ CreateSeed(a)
                                 \/ JoinShared(a) \/ Fatal(a)
  BY <1>1, <1>3, SetUpMoves DEF load
<1>4. CASE \E w \in Accounts : Asks(w) \/ Return(w) \/ Send(w) \/ Done(w)
  <2>1. UNCHANGED <<results, total>>
    BY <1>4 DEF Asks, Return, Send, Done, load
  <2> QED
    BY <1>1, <2>1
<1>5. CASE StartMembers \/ StartLoad \/ TimeUp \/ Close \/ Report \/ Ssh \/ UNCHANGED vars
  <2>1. UNCHANGED <<results, total>>
    BY <1>5 DEF StartMembers, StartLoad, TimeUp, Close, Report, Ssh, Wake, StopService,
                StartService, Crashes, vars, load
  <2> QED
    BY <1>1, <2>1
<1> QED
  BY <1>2, <1>3, <1>4, <1>5, Steps

-----------------------------------------------------------------------------
(* Ranks: the place of an element is the number of those before it.        *)

\* In a finite chain the ranks are the numbers from 0, each of one element.
LEMMA Ranks ==
    ASSUME NEW S, IsFiniteSet(S), NEW before \in [S -> SUBSET S],
           \A g \in S : g \notin before[g],
           \A g, h \in S : g # h => \/ g \in before[h] /\ before[g] \subseteq before[h]
                                    \/ h \in before[g] /\ before[h] \subseteq before[g]
    PROVE  /\ \A g \in S : Cardinality(before[g]) \in 0 .. Cardinality(S) - 1
           /\ \A g, h \in S :
                 g \in before[h] => Cardinality(before[g]) < Cardinality(before[h])
           /\ \A g, h \in S : Cardinality(before[g]) = Cardinality(before[h]) => g = h
           /\ \A k \in 1 .. Cardinality(S) : \E g \in S : Cardinality(before[g]) = k - 1
<1> DEFINE n == Cardinality(S)
           Rank(g) == Cardinality(before[g])
<1>0. n \in Nat
  BY FS_CardinalityType
<1>1. ASSUME NEW g \in S
      PROVE  IsFiniteSet(before[g]) /\ Rank(g) \in 0 .. n - 1
  <2>1. IsFiniteSet(before[g]) /\ Rank(g) <= n /\ (n = Rank(g) => S = before[g])
    BY FS_Subset
  <2>2. Rank(g) \in Nat
    BY <2>1, FS_CardinalityType
  <2> QED
    BY <1>0, <2>1, <2>2
<1>2. ASSUME NEW g \in S, NEW h \in S, g \in before[h]
      PROVE  Rank(g) < Rank(h)
  <2>1. before[g] \subseteq before[h]
    BY <1>2
  <2>2. Rank(g) <= Rank(h) /\ (Rank(h) = Rank(g) => before[h] = before[g])
    BY <1>1, <2>1, FS_Subset
  <2> QED
    BY <1>1, <1>2, <2>2
<1>3. ASSUME NEW g \in S, NEW h \in S, Rank(g) = Rank(h)
      PROVE  g = h
  <2> SUFFICES ASSUME g # h
               PROVE  FALSE
    OBVIOUS
  <2>1. Rank(g) < Rank(h) \/ Rank(h) < Rank(g)
    BY <1>2
  <2> QED
    BY <1>1, <1>3, <2>1
<1> DEFINE place == [g \in S |-> Rank(g) + 1]
<1>4. place \in Injection(S, 1 .. n)
  <2>1. place \in [S -> 1 .. n]
    BY <1>0, <1>1
  <2>2. \A g, h \in S : place[g] = place[h] => g = h
    BY <1>1, <1>3
  <2> HIDE DEF place
  <2>3. DOMAIN place = S
    BY <2>1
  <2> QED
    BY <2>1, <2>2, <2>3 DEF Injection, IsInjective
<1>5. IsFiniteSet(1 .. n) /\ Cardinality(1 .. n) = n
  BY <1>0, FS_Interval
<1>6. place \in Surjection(S, 1 .. n)
  BY <1>4, <1>5, FS_Injection
<1>7. ASSUME NEW k \in 1 .. n
      PROVE  \E g \in S : Rank(g) = k - 1
  <2>1. PICK g \in S : place[g] = k
    BY <1>6 DEF Surjection
  <2> QED
    BY <1>1, <2>1
<1> QED
  BY <1>1, <1>2, <1>3, <1>7

\* So a finite set can be listed by any key, those with the same key in some order.
LEMMA Listable ==
    ASSUME NEW S, IsFiniteSet(S), NEW key \in [S -> Nat]
    PROVE  \E s \in [1 .. Cardinality(S) -> S] :
              /\ IsInjective(s)
              /\ \A i, j \in DOMAIN s : i < j => key[s[i]] <= key[s[j]]
<1> DEFINE n == Cardinality(S)
<1>0. n \in Nat
  BY FS_CardinalityType
<1>1. PICK b \in Bijection(1 .. n, S) : TRUE
  BY FS_CardinalityType DEF ExistsBijection
<1>2. b \in [1 .. n -> S] /\ \A r \in S : \E i \in 1 .. n : b[i] = r
  BY <1>1 DEF Bijection, Injection, Surjection
<1> DEFINE pos == [r \in S |-> CHOOSE i \in 1 .. n : b[i] = r]
<1>3. \A r \in S : pos[r] \in 1 .. n /\ b[pos[r]] = r
  BY <1>2
<1>4. \A r \in S : pos[r] \in Int /\ key[r] \in Int
  <2>1. \A i \in 1 .. n : i \in Int
    BY <1>0
  <2> HIDE DEF pos
  <2> QED
    BY <1>3, <2>1
<1> HIDE DEF pos
<1> DEFINE Less(r, t) == key[r] < key[t] \/ (key[r] = key[t] /\ pos[r] < pos[t])
           before == [t \in S |-> {r \in S : Less(r, t)}]
<1>5. \A r \in S : ~Less(r, r)
  BY <1>4
<1>6. \A r, t \in S : r # t => Less(r, t) \/ Less(t, r)
  <2> SUFFICES ASSUME NEW r \in S, NEW t \in S, r # t
               PROVE  Less(r, t) \/ Less(t, r)
    OBVIOUS
  <2>1. pos[r] # pos[t]
    BY <1>3
  <2> QED
    BY <1>4, <2>1
<1>7. \A r, t, u \in S : Less(r, t) /\ Less(t, u) => Less(r, u)
  BY <1>4
<1> HIDE DEF Less
<1>8. before \in [S -> SUBSET S] /\ \A t \in S : before[t] = {r \in S : Less(r, t)}
  OBVIOUS
<1> HIDE DEF before
<1>9. \A t \in S : t \notin before[t]
  BY <1>5, <1>8
<1>10. \A r, t \in S : r # t => \/ r \in before[t] /\ before[r] \subseteq before[t]
                                \/ t \in before[r] /\ before[t] \subseteq before[r]
  BY <1>6, <1>7, <1>8
<1> DEFINE Rank(t) == Cardinality(before[t])
<1>11. /\ \A r, t \in S : r \in before[t] => Rank(r) < Rank(t)
       /\ \A k \in 1 .. n : \E t \in S : Rank(t) = k - 1
  BY <1>8, <1>9, <1>10, Ranks
<1> HIDE DEF Rank
<1> DEFINE s == [k \in 1 .. n |-> CHOOSE t \in S : Rank(t) = k - 1]
<1>12. \A k \in 1 .. n : s[k] \in S /\ Rank(s[k]) = k - 1
  BY <1>11
<1>13. s \in [1 .. n -> S] /\ DOMAIN s = 1 .. n
  BY <1>12
<1>14. \A k \in 1 .. n : k \in Int
  BY <1>0
<1> HIDE DEF s
<1>15. IsInjective(s)
  <2> SUFFICES ASSUME NEW i \in 1 .. n, NEW j \in 1 .. n, s[i] = s[j]
               PROVE  i = j
    BY <1>13 DEF IsInjective
  <2>1. i - 1 = j - 1
    BY <1>12
  <2> QED
    BY <1>14, <2>1
<1>16. ASSUME NEW i \in 1 .. n, NEW j \in 1 .. n, i < j
       PROVE  key[s[i]] <= key[s[j]]
  <2>1. s[i] \in S /\ s[j] \in S /\ Rank(s[i]) = i - 1 /\ Rank(s[j]) = j - 1
    BY <1>12
  <2>2. ~(Rank(s[j]) < Rank(s[i]))
    BY <1>14, <1>16, <2>1
  <2>3. ~Less(s[j], s[i])
    BY <1>8, <1>11, <2>1, <2>2
  <2> QED
    BY <1>4, <2>1, <2>3 DEF Less
<1> QED
  BY <1>13, <1>15, <1>16

\* Sorted lists the results it is given, each once, the slower after the faster.
LEMMA SortedRows ==
    ASSUME NEW rows, IsFiniteSet(rows), \A r \in rows : Latency(r) \in Nat
    PROVE  /\ Sorted(rows) \in [1 .. Cardinality(rows) -> rows]
           /\ IsInjective(Sorted(rows))
           /\ \A i, j \in 1 .. Cardinality(rows) :
                 i < j => Latency(Sorted(rows)[i]) <= Latency(Sorted(rows)[j])
<1> DEFINE key == [r \in rows |-> Latency(r)]
           n == Cardinality(rows)
           P(s) == /\ IsInjective(s)
                   /\ \A i, j \in DOMAIN s : i < j => Latency(s[i]) <= Latency(s[j])
<1>1. key \in [rows -> Nat] /\ \A r \in rows : key[r] = Latency(r)
  OBVIOUS
<1> HIDE DEF key
<1>2. PICK s \in [1 .. n -> rows] :
         IsInjective(s) /\ \A i, j \in DOMAIN s : i < j => key[s[i]] <= key[s[j]]
  BY <1>1, Listable
<1>3. P(s)
  BY <1>1, <1>2
<1>4. Sorted(rows) = CHOOSE t \in [1 .. n -> rows] : P(t)
  BY DEF Sorted
<1>5. \E t \in [1 .. n -> rows] : P(t)
  BY <1>3
<1> HIDE DEF P
<1>6. Sorted(rows) \in [1 .. n -> rows] /\ P(Sorted(rows))
  BY <1>4, <1>5
<1> QED
  BY <1>6 DEF P

-----------------------------------------------------------------------------
(* Percentiles.                                                            *)

\* The places of the percentiles exist, in their order.
LEMMA PercentilePlaces ==
    ASSUME NEW n \in Nat \ {0}
    PROVE  /\ Index(50, n) \in 1 .. n /\ Index(95, n) \in 1 .. n /\ Index(99, n) \in 1 .. n
           /\ Index(50, n) <= Index(95, n) /\ Index(95, n) <= Index(99, n)
  BY DEF Index

\* At most (100 - p)% of n - 1 places, rounded up, come after that of the percentile p.
LEMMA FewAfter ==
    ASSUME NEW n \in Nat \ {0}, NEW p \in {50, 95, 99}, NEW m \in Nat, m <= n - Index(p, n)
    PROVE  100 * (m - 1) < (100 - p) * (n - 1)
<1>1. CASE p = 50
  BY <1>1 DEF Index
<1>2. CASE p = 95
  BY <1>2 DEF Index
<1>3. CASE p = 99
  BY <1>3 DEF Index
<1> QED
  BY <1>1, <1>2, <1>3

\* No more results are slower than the k-th than come after it.
LEMMA FewSlower ==
    ASSUME NEW rows, IsFiniteSet(rows), \A r \in rows : Latency(r) \in Nat,
           NEW k \in 1 .. Cardinality(rows)
    PROVE  LET slower == {r \in rows : Latency(r) > Latency(Sorted(rows)[k])}
           IN  Cardinality(slower) \in Nat /\ Cardinality(slower) <= Cardinality(rows) - k
<1> DEFINE n == Cardinality(rows)
           s == Sorted(rows)
           slower == {r \in rows : Latency(r) > Latency(s[k])}
           first == {s[i] : i \in 1 .. k}
           f == [i \in 1 .. k |-> s[i]]
<1>0. n \in Nat /\ k \in Nat /\ 1 .. k \subseteq 1 .. n /\ k \in 1 .. k
  BY FS_CardinalityType
<1>1. s \in [1 .. n -> rows] /\ DOMAIN s = 1 .. n /\ IsInjective(s)
  BY SortedRows
<1>2. \A i, j \in 1 .. n : i < j => Latency(s[i]) <= Latency(s[j])
  BY SortedRows
<1> HIDE DEF s, n
<1>3. f \in Bijection(1 .. k, first)
  <2>1. f \in [1 .. k -> first] /\ DOMAIN f = 1 .. k
    OBVIOUS
  <2>2. \A i, j \in 1 .. k : f[i] = f[j] => i = j
    BY <1>0, <1>1 DEF IsInjective
  <2>3. \A t \in first : \E i \in 1 .. k : f[i] = t
    OBVIOUS
  <2> HIDE DEF f, first
  <2> QED
    BY <2>1, <2>2, <2>3 DEF Bijection, Injection, Surjection, IsInjective
<1>4. IsFiniteSet(first) /\ Cardinality(first) = k
  <2>1. IsFiniteSet(1 .. k) /\ Cardinality(1 .. k) = k
    BY <1>0, FS_Interval
  <2>2. ExistsBijection(1 .. k, first)
    BY <1>3 DEF ExistsBijection
  <2> QED
    BY <2>1, <2>2, FS_Bijection
<1>5. first \subseteq rows /\ slower \subseteq rows
  BY <1>0, <1>1
<1>6. slower \cap first = {}
  <2> SUFFICES ASSUME NEW i \in 1 .. k
               PROVE  s[i] \notin slower
    OBVIOUS
  <2>1. i \in 1 .. n /\ k \in 1 .. n /\ i \in Int /\ (i = k \/ i < k)
    BY <1>0 DEF n
  <2>2. Latency(s[i]) \in Nat /\ Latency(s[k]) \in Nat
    BY <1>1, <2>1
  <2>3. Latency(s[i]) <= Latency(s[k])
    BY <1>2, <2>1, <2>2
  <2> QED
    BY <2>2, <2>3
<1> HIDE DEF slower, first
<1>7. IsFiniteSet(slower) /\ Cardinality(slower) \in Nat
  BY <1>5, FS_Subset, FS_CardinalityType
<1>8. Cardinality(slower \cup first) = Cardinality(slower) + k
  <2>1. Cardinality(slower \cup first)
           = Cardinality(slower) + Cardinality(first) - Cardinality(slower \cap first)
    BY <1>4, <1>7, FS_Union
  <2> QED
    BY <1>0, <1>4, <1>6, <1>7, <2>1, FS_EmptySet
<1>9. Cardinality(slower \cup first) <= n
  BY <1>5, FS_Subset DEF n
<1> QED
  BY <1>0, <1>7, <1>8, <1>9 DEF slower, s, n

-----------------------------------------------------------------------------
(* The report.                                                             *)

\* When the channel is closed it holds the results of every worker.
LEMMA AllReceived ==
    ASSUME Inv, closed
    PROVE  sent = Workers /\ Received = ResultsOf(Workers)
<1>1. main \notin Before /\ \A w \in Workers : at[w] = "done"
  BY DEF Inv, Closing, Before
<1> QED
  BY <1>1 DEF Inv, Handover, Received

\* Each is the result of an operation, with its latency.
LEMMA ReceivedRows ==
    ASSUME Inv, closed
    PROVE  /\ IsFiniteSet(Received)
           /\ \A r \in Received : /\ results[r[1]][r[2]].op \in Ops
                                  /\ Latency(r) \in Nat
<1>1. IsFiniteSet(Received)
  BY AllReceived DEF Inv, Counted
<1>2. ASSUME NEW r \in Received
      PROVE  results[r[1]][r[2]] \in Result
  <2>1. r \in ResultsOf(Workers)
    BY AllReceived
  <2>2. PICK w \in Workers : \E i \in 1 .. Len(results[w]) : r = <<w, i>>
    BY <2>1, ResultPlaces
  <2>3. PICK i \in 1 .. Len(results[w]) : r = <<w, i>>
    BY <2>2
  <2>4. results[w] \in Seq(Result)
    BY Parts DEF Inv, TypeOK
  <2>5. results[w][i] \in Result
    BY <2>3, <2>4
  <2> QED
    BY <2>3, <2>5
<1>3. ASSUME NEW r \in Received
      PROVE  results[r[1]][r[2]].op \in Ops /\ Latency(r) \in Nat
  <2>1. results[r[1]][r[2]].latency \in Latencies \cup {0}
    BY <1>2 DEF Result
  <2>2. results[r[1]][r[2]].op \in Ops
    BY <1>2 DEF Result
  <2>3. \A l \in Latencies \cup {0} : l \in Nat
    BY ConfigAssumption
  <2> QED
    BY <2>1, <2>2, <2>3 DEF Latency
<1> QED
  BY <1>1, <1>3

\* What the report says of some results.
LEMMA StatsFields ==
    ASSUME NEW rows
    PROVE  LET n == Cardinality(rows)
               s == Sorted(rows)
           IN  /\ Stats(rows).count = n
               /\ Stats(rows).errors = Cardinality({r \in rows : ~results[r[1]][r[2]].ok})
               /\ Stats(rows).min = Latency(s[1])
               /\ Stats(rows).p50 = Latency(s[Index(50, n)])
               /\ Stats(rows).p95 = Latency(s[Index(95, n)])
               /\ Stats(rows).p99 = Latency(s[Index(99, n)])
               /\ Stats(rows).max = Latency(s[n])
  BY DEF Stats

LEMMA Figures ==
    ASSUME NEW rows, IsFiniteSet(rows), rows # {}, \A r \in rows : Latency(r) \in Nat
    PROVE  LET Slower(l) == Cardinality({r \in rows : Latency(r) > l})
               st == Stats(rows)
               n == st.count
           IN  /\ 100 * (Slower(st.p50) - 1) < 50 * (n - 1)
               /\ 100 * (Slower(st.p95) - 1) < 5 * (n - 1)
               /\ 100 * (Slower(st.p99) - 1) < 1 * (n - 1)
               /\ st.min <= st.p50 /\ st.p50 <= st.p95
               /\ st.p95 <= st.p99 /\ st.p99 <= st.max
<1> DEFINE Slower(l) == Cardinality({r \in rows : Latency(r) > l})
           st == Stats(rows)
           n == Cardinality(rows)
           s == Sorted(rows)
<1>1. n \in Nat \ {0} /\ 1 \in 1 .. n /\ n \in 1 .. n
  BY FS_CardinalityType, FS_EmptySet
<1>2. /\ st.count = n
      /\ st.min = Latency(s[1]) /\ st.max = Latency(s[n])
      /\ st.p50 = Latency(s[Index(50, n)])
      /\ st.p95 = Latency(s[Index(95, n)])
      /\ st.p99 = Latency(s[Index(99, n)])
  BY StatsFields
<1>3. ASSUME NEW k \in 1 .. n
      PROVE  Slower(Latency(s[k])) \in Nat /\ Slower(Latency(s[k])) <= n - k
  BY FewSlower
<1>4. ASSUME NEW i \in 1 .. n, NEW j \in 1 .. n, i <= j
      PROVE  Latency(s[i]) <= Latency(s[j])
  <2>1. s[i] \in rows /\ i \in Int /\ j \in Int
    BY <1>1, SortedRows
  <2>2. CASE i = j
    BY <2>1, <2>2
  <2>3. CASE i < j
    BY <2>3, SortedRows
  <2> QED
    BY <1>4, <2>1, <2>2, <2>3
<1> HIDE DEF Slower, st, n, s
<1>5. /\ Index(50, n) \in 1 .. n /\ Index(95, n) \in 1 .. n /\ Index(99, n) \in 1 .. n
      /\ Index(50, n) <= Index(95, n) /\ Index(95, n) <= Index(99, n)
  BY <1>1, PercentilePlaces
<1>6. ASSUME NEW p \in {50, 95, 99}
      PROVE  100 * (Slower(Latency(s[Index(p, n)])) - 1) < (100 - p) * (n - 1)
  <2> DEFINE m == Slower(Latency(s[Index(p, n)]))
  <2>1. Index(p, n) \in 1 .. n
    BY <1>5
  <2>2. m \in Nat /\ m <= n - Index(p, n)
    BY <1>3, <2>1
  <2> HIDE DEF m
  <2>3. 100 * (m - 1) < (100 - p) * (n - 1)
    BY <1>1, <2>2, FewAfter
  <2> QED
    BY <2>3 DEF m
<1>7. /\ 100 * (Slower(st.p50) - 1) < 50 * (n - 1)
      /\ 100 * (Slower(st.p95) - 1) < 5 * (n - 1)
      /\ 100 * (Slower(st.p99) - 1) < 1 * (n - 1)
  BY <1>2, <1>6
<1>8. st.min <= st.p50 /\ st.p50 <= st.p95 /\ st.p95 <= st.p99 /\ st.p99 <= st.max
  BY <1>1, <1>2, <1>4, <1>5
<1> QED
  BY <1>2, <1>7, <1>8 DEF Slower, st

LEMMA ReportStep ==
    ASSUME Inv, [Next]_vars
    PROVE  Reported' /\ PercentilesHold'
<1>0. Reported /\ PercentilesHold /\ Phases /\ Closing
  BY DEF Inv
<1>1. CASE Report
  <2>1. /\ main = "closing" /\ main' = "ended" /\ UNCHANGED <<results, sent>>
        /\ report' = [o \in {o \in Ops : Of(o) # {}} |-> Stats(Of(o))]
    BY <1>1 DEF Report, load
  <2>2. closed
    BY <1>0, <2>1 DEF Closing
  <2>3. Received' = Received
    BY <2>1 DEF Received, ResultsOf
  <2>4. \A o : Of(o)' = Of(o)
    BY <2>1, <2>3 DEF Of
  <2>5. \A r : Latency(r)' = Latency(r)
    BY <2>1 DEF Latency
  <2>6. DOMAIN report' = {o \in Ops : Of(o) # {}}
    BY <2>1
  <2>7. ASSUME NEW o \in DOMAIN report'
        PROVE  /\ IsFiniteSet(Of(o)) /\ Of(o) # {} /\ \A r \in Of(o) : Latency(r) \in Nat
               /\ report'[o] = Stats(Of(o))
    <3>1. Of(o) \subseteq Received
      BY DEF Of
    <3> QED
      BY <2>1, <2>2, <2>6, <3>1, ReceivedRows, FS_Subset
  <2>8. Reported'
    <3>1. ASSUME NEW o \in DOMAIN report'
          PROVE  /\ report'[o].count = Cardinality(Of(o))
                 /\ report'[o].errors
                       = Cardinality({r \in Of(o) : ~results[r[1]][r[2]].ok})
      BY <2>7, StatsFields
    <3>2. \A o : {r \in Of(o)' : ~results'[r[1]][r[2]].ok}
                   = {r \in Of(o) : ~results[r[1]][r[2]].ok}
      BY <2>1, <2>4
    <3>3. \A o \in DOMAIN report' :
             /\ report'[o].count = Cardinality(Of(o)')
             /\ report'[o].errors
                   = Cardinality({r \in Of(o)' : ~results'[r[1]][r[2]].ok})
      BY <2>4, <3>1, <3>2
    <3>4. DOMAIN report' = {o \in Ops : Of(o)' # {}}
      BY <2>4, <2>6
    <3> QED
      BY <2>1, <3>3, <3>4 DEF Reported
  <2>9. PercentilesHold'
    <3> SUFFICES ASSUME NEW o \in DOMAIN report'
                 PROVE  LET Slower(l) == Cardinality({r \in Of(o)' : Latency(r)' > l})
                            n == report'[o].count
                        IN  /\ 100 * (Slower(report'[o].p50) - 1) < 50 * (n - 1)
                            /\ 100 * (Slower(report'[o].p95) - 1) < 5 * (n - 1)
                            /\ 100 * (Slower(report'[o].p99) - 1) < 1 * (n - 1)
                            /\ report'[o].min <= report'[o].p50
                            /\ report'[o].p50 <= report'[o].p95
                            /\ report'[o].p95 <= report'[o].p99
                            /\ report'[o].p99 <= report'[o].max
      BY DEF PercentilesHold
    <3>1. Of(o)' = Of(o) /\ \A r : Latency(r)' = Latency(r)
      BY <2>4, <2>5
    <3>2. \A l : {r \in Of(o)' : Latency(r)' > l} = {r \in Of(o) : Latency(r) > l}
      BY <3>1
    <3> QED
      BY <2>7, <3>2, Figures
  <2> QED
    BY <2>8, <2>9
<1>2. CASE main' # "ended" /\ main # "ended" /\ report' = report
  BY <1>0, <1>2 DEF Reported, PercentilesHold
<1>3. CASE main = "ended" /\ UNCHANGED <<main, results, sent, report>>
  <2>1. Received' = Received
    BY <1>3 DEF Received, ResultsOf
  <2>2. \A o : Of(o)' = Of(o)
    BY <1>3, <2>1 DEF Of
  <2>3. \A r : Latency(r)' = Latency(r)
    BY <1>3 DEF Latency
  <2>4. Reported'
    BY <1>0, <1>3, <2>2 DEF Reported
  <2>5. PercentilesHold'
    BY <1>0, <1>3, <2>2, <2>3 DEF PercentilesHold
  <2> QED
    BY <2>4, <2>5
<1>4. ASSUME NEW a \in Accounts,
             Spawn(a) \/ Register(a) \/ CreateSeed(a) \/ JoinShared(a) \/ Fatal(a)
      PROVE  Reported' /\ PercentilesHold'
  <2>1. main # "ended" /\ main' # "ended" /\ report' = report
    BY <1>4, SetUpMoves DEF Before
  <2> QED
    BY <1>2, <2>1
<1>5. ASSUME NEW w \in Accounts,
             Asks(w) \/ Answered(w) \/ Return(w) \/ Send(w) \/ Done(w)
      PROVE  Reported' /\ PercentilesHold'
  <2>1. w \in Workers /\ at[w] # "done" /\ main' = main /\ report' = report
    BY <1>5, WorkMoves DEF Asks, Answered, Return, Send, Done
  <2>2. main # "ended"
    BY <1>0, <2>1 DEF Closing
  <2> QED
    BY <1>2, <2>1, <2>2
<1>6. CASE StartMembers \/ StartLoad \/ TimeUp \/ Close
  <2>1. main # "ended" /\ main' # "ended" /\ report' = report
    BY <1>6 DEF StartMembers, StartLoad, TimeUp, Close
  <2> QED
    BY <1>2, <2>1
<1>7. CASE Ssh \/ UNCHANGED vars
  <2>1. UNCHANGED <<main, results, sent, report>>
    BY <1>7 DEF Ssh, Wake, StopService, StartService, Crashes, vars, load
  <2> QED
    BY <1>2, <1>3, <2>1
<1> QED
  BY <1>1, <1>4, <1>5, <1>6, <1>7, Steps

-----------------------------------------------------------------------------
(* The results of the proofs.                                              *)

LEMMA InitInv == Init => Inv
<1> SUFFICES ASSUME Init
             PROVE  Inv
  OBVIOUS
<1> USE DEF Init
<1>1. TypeOK
  <2>1. crash \in {"off", "waiting"}
    BY DEF Armed
  <2>2. <<>> \in Seq(Result)
    OBVIOUS
  <2>3. results \in [Accounts -> Seq(Result)] /\ op \in [Accounts -> Ops \cup {"none"}]
    BY <2>2
  <2>4. sem \in 0 .. Permits /\ wg \in 0 .. Cardinality(Accounts)
    BY FiniteAccounts, ConfigAssumption
  <2>5. /\ at \in [Accounts -> {"todo", "registering", "provisioning", "ready", "looping",
                              "asking", "returned", "sent", "done"}]
        /\ pool \in Nat /\ created \in Nat /\ total \in Nat
        /\ sent \subseteq Workers
        /\ over \in BOOLEAN /\ closed \in BOOLEAN /\ up \in BOOLEAN /\ sshFailed \in BOOLEAN
    OBVIOUS
  <2> QED
    BY <2>1, <2>3, <2>4, <2>5 DEF TypeOK
<1>2. NothingYet /\ Phases /\ Asked /\ Handover
  BY Parts DEF NothingYet, Phases, Asked, Handover, Before, SetUpPlaces
<1>3. PermitsHeld
  <2>1. Holding = {}
    BY DEF Holding
  <2> QED
    BY <2>1, FS_EmptySet DEF PermitsHeld
<1>4. Seeded
  BY Parts DEF Seeded
<1>5. Closing
  BY DEF Closing
<1>6. Counted
  <2>1. ASSUME NEW r \in ResultsOf(Workers)
        PROVE  FALSE
    <3>1. PICK w \in Workers : \E i \in 1 .. Len(results[w]) : r = <<w, i>>
      BY ResultPlaces
    <3>2. results[w] = <<>>
      BY Parts
    <3> QED
      BY <3>1, <3>2
  <2>2. ResultsOf(Workers) = {}
    BY <2>1
  <2> QED
    BY <2>2, FS_EmptySet DEF Counted
<1>7. Reported /\ PercentilesHold
  BY DEF Reported, PercentilesHold
<1>8. Restoring
  BY DEF Restoring
<1> QED
  BY <1>1, <1>2, <1>3, <1>4, <1>5, <1>6, <1>7, <1>8 DEF Inv

LEMMA NextInv == Inv /\ [Next]_vars => Inv'
  BY TypeStep, NothingYetStep, PhaseStep, PermitStep, SeedStep, AskStep, HandoverStep,
     ClosingStep, CountStep, ReportStep, RestoringStep
  DEF Inv

LEMMA Invariant == Spec => []Inv
  BY InitInv, NextInv, PTL DEF Spec

LEMMA InvReport == Inv => ReportComplete
<1> SUFFICES ASSUME Inv
             PROVE  ReportComplete
  OBVIOUS
<1> DEFINE all == ResultsOf(Workers)
           Row(r) == results[r[1]][r[2]]
<1>1. closed => sent = Workers
  BY AllReceived
<1>2. ASSUME main = "ended"
      PROVE  /\ \A w \in Workers : at[w] = "done" /\ op[w] = "none"
             /\ Cardinality(all) = total
             /\ DOMAIN report = {Row(r).op : r \in all}
             /\ \A o \in DOMAIN report :
                   LET its == {r \in all : Row(r).op = o}
                   IN  /\ report[o].count = Cardinality(its)
                       /\ report[o].errors = Cardinality({r \in its : ~Row(r).ok})
  <2>1. closed
    BY <1>2 DEF Inv, Closing
  <2>2. \A w \in Workers : at[w] = "done" /\ op[w] = "none"
    BY <2>1, Parts DEF Inv, Closing, Asked
  <2>3. Received = all
    BY <2>1, AllReceived
  <2>4. \A o : Of(o) = {r \in all : Row(r).op = o}
    BY <2>3 DEF Of
  <2>5. \A r \in all : Row(r).op \in Ops
    BY <2>1, <2>3, ReceivedRows
  <2>6. /\ DOMAIN report = {o \in Ops : Of(o) # {}}
        /\ \A o \in DOMAIN report :
              /\ report[o].count = Cardinality(Of(o))
              /\ report[o].errors = Cardinality({r \in Of(o) : ~Row(r).ok})
    BY <1>2 DEF Inv, Reported
  <2>7. Cardinality(all) = total
    BY DEF Inv, Counted
  <2> HIDE DEF all
  <2>8. DOMAIN report = {Row(r).op : r \in all}
    <3>1. \A o : o \in {o2 \in Ops : Of(o2) # {}} <=> \E r \in all : Row(r).op = o
      BY <2>4, <2>5
    <3> QED
      BY <2>6, <3>1
  <2>9. ASSUME NEW o \in DOMAIN report
        PROVE  LET its == {r \in all : Row(r).op = o}
               IN  /\ report[o].count = Cardinality(its)
                   /\ report[o].errors = Cardinality({r \in its : ~Row(r).ok})
    BY <2>4, <2>6
  <2> QED
    BY <2>2, <2>7, <2>8, <2>9
<1> QED
  BY <1>1, <1>2 DEF ReportComplete

LEMMA InvPicks == Inv => PicksExist
<1> SUFFICES ASSUME Inv
             PROVE  PicksExist
  OBVIOUS
<1>1. pool <= created
  BY DEF Inv, Seeded
<1>2. ASSUME NEW w \in Workers, at[w] = "asking"
      PROVE  pool > 0
  <2>1. main \notin Before
    BY <1>2, AtLoad, Parts DEF LoadPlaces
  <2> QED
    BY <2>1 DEF Inv, Seeded, Before
<1> QED
  BY <1>1, <1>2 DEF PicksExist

\* The types are as stated: no permit is given back that was not taken, and the wait
\* group never goes below zero.
THEOREM TypesCorrect == Spec => []TypeOK
<1>1. Inv => TypeOK
  BY DEF Inv
<1> QED
  BY <1>1, Invariant, PTL

\* However the workers interleave with the end of the load phase, no one sends on the
\* closed channel, and each request is in the report exactly once, under its operation.
THEOREM ReportAlwaysComplete == Spec => []ReportComplete
  BY InvReport, Invariant, PTL

\* The percentiles printed are those of the requests: computeStats takes the right
\* places of the sorted latencies, for any number of them.
THEOREM PercentilesAlwaysHold == Spec => []PercentilesHold
<1>1. Inv => PercentilesHold
  BY DEF Inv
<1> QED
  BY <1>1, Invariant, PTL

\* A worker that asks for an operation on a gallery always finds one to pick.
THEOREM PicksAlwaysExist == Spec => []PicksExist
  BY InvPicks, Invariant, PTL

\* The service that the run has stopped runs again at its end, unless ssh failed.
THEOREM ServiceAlwaysRestored == Spec => []ServiceRestored
<1>1. Inv => ServiceRestored
  BY DEF Inv, Restoring, ServiceRestored
<1> QED
  BY <1>1, Invariant, PTL
=============================================================================
