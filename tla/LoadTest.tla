------------------------------- MODULE LoadTest -------------------------------
(***************************************************************************)
(* The load generators cmd/testgallery and cmd/testupload: accounts are    *)
(* set up by goroutines that hold a permit of a semaphore, workers send    *)
(* requests until the time is up and hand over their results through a     *)
(* channel, main waits for them and reports.  The two share this skeleton  *)
(* line by line; testgallery has moderators who create galleries during    *)
(* the run, testupload can stop a service over ssh and start it again.     *)
(*                                                                         *)
(* A failure while setting up ends the program at once.  A measured        *)
(* request always ends, with its answer or after the client's 30 s; ssh    *)
(* has no such limit.                                                      *)
(***************************************************************************)
EXTENDS Integers, Sequences, FiniteSets, FiniteSetsExt, SequencesExt

CONSTANTS Moderators, Members,
          Permits,       \* capacity of the semaphore: 20
          GalleryOps,    \* testgallery: the member operations with a weight above 0
          UploadOps,     \* testupload: its operations with a weight above 0
          Latencies,     \* the latencies told apart
          MaxRequests    \* bound on the measured requests of all workers

ASSUME ConfigAssumption ==
    /\ Moderators # {} /\ Members # {} /\ Moderators \cap Members = {}
    /\ IsFiniteSet(Moderators) /\ IsFiniteSet(Members)
    /\ Permits \in Nat \ {0} /\ Latencies \subseteq Nat \ {0}

VARIABLES
    tool,       \* which of the two commands runs
    main,       \* where main is
    at,         \* where the goroutine of an account is
    sem,        \* permits taken
    pool,       \* galleries the members pick from; the shared one in testupload
    created,    \* history: galleries created
    over,       \* the load phase has lasted its duration
    op,         \* the request a worker waits for
    results,    \* the results of a worker, in order
    total,      \* totalRequests
    wg,         \* the wait group of the load phase
    sent,       \* the workers whose results are in resultsCh
    closed,     \* resultsCh is closed
    crash,      \* where the goroutine of the crash is
    up,         \* the service it stops is running
    sshFailed,  \* history: a command over ssh has failed
    report      \* what has been printed, by operation

setup == <<sem, pool, created>>
load == <<over, op, results, total, wg, sent, closed>>
ssh == <<crash, up, sshFailed>>
vars == <<tool, main, at, setup, load, ssh, report>>

Accounts == Moderators \cup Members

\* In testupload one moderator creates the shared gallery and takes no further part.
Creators == IF tool = "testgallery" THEN Moderators ELSE {CHOOSE m \in Moderators : TRUE}
Workers == IF tool = "testgallery" THEN Accounts ELSE Members

\* What a worker may ask for: a weighted choice among the operations.
Picks(w) ==
    CASE w \in Moderators -> {"createGallery"}
      [] w \in Members /\ tool = "testgallery" -> GalleryOps
      [] OTHER -> UploadOps

Ops == {"createGallery"} \cup GalleryOps \cup UploadOps

Result == [op : Ops, latency : Latencies \cup {0}, ok : BOOLEAN]

TypeOK ==
    /\ tool \in {"testgallery", "testupload"}
    /\ main \in {"moderators", "members", "load", "closing", "ended", "fatal"}
    /\ at \in [Accounts -> {"todo", "registering", "provisioning", "ready", "looping",
                            "asking", "returned", "sent", "done"}]
    /\ sem \in 0 .. Permits
    /\ pool \in Nat /\ created \in Nat
    /\ over \in BOOLEAN /\ closed \in BOOLEAN
    /\ op \in [Accounts -> Ops \cup {"none"}]
    /\ results \in [Accounts -> Seq(Result)]
    /\ total \in Nat /\ wg \in 0 .. Cardinality(Accounts)
    /\ sent \subseteq Workers
    /\ crash \in {"off", "waiting", "stopping", "stopped", "starting", "over"}
    /\ up \in BOOLEAN /\ sshFailed \in BOOLEAN

\* -crash-after, with a host to reach, is a flag of testupload alone.
Armed == IF tool = "testupload" THEN {"off", "waiting"} ELSE {"off"}

Init ==
    /\ tool \in {"testgallery", "testupload"}
    /\ main = "moderators"
    /\ at = [a \in Accounts |-> "todo"]
    /\ sem = 0 /\ pool = 0 /\ created = 0
    /\ over = FALSE /\ closed = FALSE
    /\ op = [a \in Accounts |-> "none"]
    /\ results = [a \in Accounts |-> <<>>]
    /\ total = 0 /\ wg = 0 /\ sent = {}
    /\ crash \in Armed
    /\ up = TRUE /\ sshFailed = FALSE
    /\ report = <<>>

-----------------------------------------------------------------------------
(* Set-up.                                                                 *)

SettingUp == IF main = "moderators" THEN Creators ELSE Members

\* The permit is taken before the goroutine starts.
Spawn(a) ==
    /\ main \in {"moderators", "members"} /\ a \in SettingUp
    /\ at[a] = "todo" /\ sem < Permits
    /\ sem' = sem + 1
    /\ at' = [at EXCEPT ![a] = "registering"]
    /\ UNCHANGED <<tool, main, pool, created, load, ssh, report>>

\* The goroutine returns and gives its permit back.
Ready(a) ==
    /\ at' = [at EXCEPT ![a] = "ready"]
    /\ sem' = sem - 1
    /\ UNCHANGED <<tool, main, load, ssh, report>>

\* mustRegister: a token.  Members of testgallery need nothing else.
Register(a) ==
    /\ main # "fatal" /\ at[a] = "registering"
    /\ IF a \in Members /\ tool = "testgallery"
       THEN Ready(a)
       ELSE /\ at' = [at EXCEPT ![a] = "provisioning"]
            /\ UNCHANGED <<tool, main, sem, load, ssh, report>>
    /\ UNCHANGED <<pool, created>>

\* Fault: the seed galleries are not put into the pool.
MutCreateSeed(m) ==
    /\ main # "fatal" /\ at[m] = "provisioning" /\ m \in Moderators
    /\ Ready(m)
    /\ created' = created + 1
    /\ UNCHANGED pool

CreateSeed(m) ==
    /\ main # "fatal" /\ at[m] = "provisioning" /\ m \in Moderators
    /\ Ready(m)
    /\ created' = created + 1
    /\ pool' = pool + 1

\* setupUsers: the users of testupload join the shared gallery.
JoinShared(u) ==
    /\ main # "fatal" /\ at[u] = "provisioning" /\ u \in Members
    /\ Ready(u)
    /\ UNCHANGED <<pool, created>>

\* log.Fatal: any request of the set-up fails.
Fatal(a) ==
    /\ main # "fatal" /\ at[a] \in {"registering", "provisioning"}
    /\ main' = "fatal"
    /\ UNCHANGED <<tool, at, setup, load, ssh, report>>

StartMembers ==
    /\ main = "moderators" /\ \A a \in Creators : at[a] = "ready"
    /\ main' = "members"
    /\ UNCHANGED <<tool, at, setup, load, ssh, report>>

\* wg.Add for every worker before the first can be done.
StartLoad ==
    /\ main = "members" /\ \A a \in Members : at[a] = "ready"
    /\ main' = "load"
    /\ at' = [a \in Accounts |-> IF a \in Workers THEN "looping" ELSE at[a]]
    /\ wg' = Cardinality(Workers)
    /\ UNCHANGED <<tool, setup, over, op, results, total, sent, closed, ssh, report>>

-----------------------------------------------------------------------------
(* Workers.                                                                *)

TimeUp ==
    /\ main = "load" /\ ~over
    /\ over' = TRUE
    /\ UNCHANGED <<tool, main, at, setup, op, results, total, wg, sent, closed, ssh, report>>

Asks(w) ==
    /\ at[w] = "looping" /\ ~over
    /\ total + Cardinality({v \in Workers : at[v] = "asking"}) < MaxRequests
    /\ at' = [at EXCEPT ![w] = "asking"]
    /\ \E o \in Picks(w) : op' = [op EXCEPT ![w] = o]
    /\ UNCHANGED <<tool, main, setup, over, results, total, wg, sent, closed, ssh, report>>

\* runMemberWorker: while the time is not up, one operation after another.
MemberAsks(w) == tool = "testgallery" /\ w \in Members /\ Asks(w)

\* runModeratorWorker: the same, after each sleep of create-interval.
ModeratorAsks(w) == w \in Moderators /\ Asks(w)

\* runWorker of testupload.
UserAsks(w) == tool = "testupload" /\ Asks(w)

\* The loop goes on with one more result.
Measured(w, latency, ok) ==
    /\ at' = [at EXCEPT ![w] = "looping"]
    /\ results' = [results EXCEPT ![w] =
                      Append(@, [op |-> op[w], latency |-> latency, ok |-> ok])]
    /\ total' = total + 1
    /\ op' = [op EXCEPT ![w] = "none"]
    /\ UNCHANGED <<tool, main, sem, over, wg, sent, closed, ssh, report>>

\* Operations on a gallery of the pool: none is sent while it is empty.
PoolOps == {"joinGallery", "leaveGallery", "getGallery", "listMembers"}

PoolOpEnds(w) ==
    /\ at[w] = "asking" /\ op[w] \in PoolOps
    /\ \E l \in Latencies, ok \in BOOLEAN :
          IF pool = 0 THEN Measured(w, 0, FALSE) ELSE Measured(w, l, ok)
    /\ UNCHANGED <<pool, created>>

ListOps == {"listMyGalleries", "listAllGalleries"}

ListEnds(w) ==
    /\ at[w] = "asking" /\ op[w] \in ListOps
    /\ \E l \in Latencies, ok \in BOOLEAN : Measured(w, l, ok)
    /\ UNCHANGED <<pool, created>>

UploadEnds(w) ==
    /\ at[w] = "asking" /\ op[w] = "uploadPhoto"
    /\ \E l \in Latencies, ok \in BOOLEAN : Measured(w, l, ok)
    /\ UNCHANGED <<pool, created>>

\* A failed creation may have had its effect; only galleries answered for are picked.
CreateEnds(w) ==
    /\ at[w] = "asking" /\ op[w] = "createGallery"
    /\ \E l \in Latencies, ok \in BOOLEAN, effect \in BOOLEAN :
          /\ ok => effect
          /\ Measured(w, l, ok)
          /\ created' = IF effect THEN created + 1 ELSE created
          /\ pool' = IF ok THEN pool + 1 ELSE pool

Return(w) ==
    /\ at[w] = "looping" /\ over
    /\ at' = [at EXCEPT ![w] = "returned"]
    /\ UNCHANGED <<tool, main, setup, load, ssh, report>>

\* Fault: the channel has room for the results of the members only.
MutSend(w) ==
    /\ at[w] = "returned" /\ Cardinality(sent) < Cardinality(Members)
    /\ at' = [at EXCEPT ![w] = "sent"]
    /\ sent' = sent \cup {w}
    /\ UNCHANGED <<tool, main, setup, over, op, results, total, wg, closed, ssh, report>>

\* resultsCh has room for the results of every worker.
Send(w) ==
    /\ at[w] = "returned" /\ Cardinality(sent) < Cardinality(Workers)
    /\ at' = [at EXCEPT ![w] = "sent"]
    /\ sent' = sent \cup {w}
    /\ UNCHANGED <<tool, main, setup, over, op, results, total, wg, closed, ssh, report>>

\* Fault: the goroutine is done with when its worker returns.
MutDone(w) ==
    /\ at[w] \in {"returned", "sent"}
    /\ at' = [at EXCEPT ![w] = "done"]
    /\ wg' = wg - 1
    /\ UNCHANGED <<tool, main, setup, over, op, results, total, sent, closed, ssh, report>>

\* The deferred wg.Done.
Done(w) ==
    /\ at[w] = "sent"
    /\ at' = [at EXCEPT ![w] = "done"]
    /\ wg' = wg - 1
    /\ UNCHANGED <<tool, main, setup, over, op, results, total, sent, closed, ssh, report>>

-----------------------------------------------------------------------------
(* The crash.                                                              *)

Crashes(where) ==
    /\ crash' = where
    /\ UNCHANGED <<tool, main, at, setup, load, report>>

\* The sleep before each command is over.
Wake ==
    /\ main \in {"load", "closing"} /\ crash \in {"waiting", "stopped"}
    /\ Crashes(IF crash = "waiting" THEN "stopping" ELSE "starting")
    /\ UNCHANGED <<up, sshFailed>>

\* runRemoteCompose: a command that fails may have had its effect.
Compose(running, fails) ==
    /\ up' \in IF fails THEN {up, running} ELSE {running}
    /\ sshFailed' = (sshFailed \/ fails)

\* When the service could not be stopped, the crash is called off.
StopService ==
    /\ crash = "stopping"
    /\ \E fails \in BOOLEAN :
          Compose(FALSE, fails) /\ Crashes(IF fails THEN "over" ELSE "stopped")

StartService ==
    /\ crash = "starting"
    /\ \E fails \in BOOLEAN : Compose(TRUE, fails) /\ Crashes("over")

-----------------------------------------------------------------------------
(* The end.                                                                *)

\* wg.Wait returns; the progress goroutine and resultsCh are closed.
Close ==
    /\ main = "load" /\ wg = 0
    /\ main' = "closing"
    /\ closed' = TRUE
    /\ UNCHANGED <<tool, at, setup, over, op, results, total, wg, sent, ssh, report>>

\* The results of some workers, each by its worker and its place.
ResultsOf(workers) == UNION {{<<w, i>> : i \in 1 .. Len(results[w])} : w \in workers}

Received == ResultsOf(sent)

Of(o) == {r \in Received : results[r[1]][r[2]].op = o}

Latency(r) == results[r[1]][r[2]].latency

\* Fault: the latencies are not sorted.
MutSorted(rows) == SetToSeq(rows)

Sorted(rows) ==
    CHOOSE s \in [1 .. Cardinality(rows) -> rows] :
        /\ IsInjective(s)
        /\ \A i, j \in DOMAIN s : i < j => Latency(s[i]) <= Latency(s[j])

Mean(rows) == MapThenSumSet(Latency, rows) \div Cardinality(rows)

\* The place of a percentile among n sorted latencies.
Index(p, n) == 1 + (p * (n - 1)) \div 100

\* computeStats, for an operation with results.
Stats(rows) ==
    LET n == Cardinality(rows)
        sorted == Sorted(rows)
        pct(p) == Latency(sorted[Index(p, n)])
    IN  [count |-> n,
         errors |-> Cardinality({r \in rows : ~results[r[1]][r[2]].ok}),
         min |-> Latency(sorted[1]), max |-> Latency(sorted[n]),
         mean |-> Mean(rows),
         p50 |-> pct(50), p95 |-> pct(95), p99 |-> pct(99)]

\* Fault: the restart of the service is not waited for.
MutReport ==
    /\ main = "closing"
    /\ main' = "ended"
    /\ report' = [o \in {o \in Ops : Of(o) # {}} |-> Stats(Of(o))]
    /\ UNCHANGED <<tool, at, setup, load, ssh>>

\* crashWG.Wait, then the results by operation.
Report ==
    /\ main = "closing" /\ crash \in {"off", "over"}
    /\ main' = "ended"
    /\ report' = [o \in {o \in Ops : Of(o) # {}} |-> Stats(Of(o))]
    /\ UNCHANGED <<tool, at, setup, load, ssh>>

SetUpStep(a) == Spawn(a) \/ Register(a) \/ CreateSeed(a) \/ JoinShared(a) \/ Fatal(a)

Ends(w) == PoolOpEnds(w) \/ ListEnds(w) \/ UploadEnds(w) \/ CreateEnds(w)

WorkerStep(w) ==
    MemberAsks(w) \/ ModeratorAsks(w) \/ UserAsks(w) \/ Ends(w)
        \/ Return(w) \/ Send(w) \/ Done(w)

MainStep == StartMembers \/ StartLoad \/ TimeUp \/ Close \/ Report

Next ==
    \/ \E a \in Accounts : SetUpStep(a) \/ WorkerStep(a)
    \/ MainStep \/ Wake \/ StopService \/ StartService

\* Goroutines run, requests end after 30 s at the latest, sleeps end.  Nothing is
\* assumed of ssh.
Fairness ==
    /\ \A a \in Accounts : WF_vars(SetUpStep(a)) /\ WF_vars(WorkerStep(a))
    /\ WF_vars(MainStep) /\ WF_vars(Wake)

Spec == Init /\ [][Next]_vars /\ Fairness

-----------------------------------------------------------------------------
\* No worker ever sends on the closed channel, and the report counts every request
\* of the load phase once, under its operation: those that were under way when the
\* time was up as well, as many as totalRequests has counted, the failed ones among
\* the errors.
ReportComplete ==
    /\ closed => sent = Workers
    /\ main = "ended" =>
          LET all == ResultsOf(Workers)
              Row(r) == results[r[1]][r[2]]
          IN  /\ \A w \in Workers : at[w] = "done" /\ op[w] = "none"
              /\ Cardinality(all) = total
              /\ DOMAIN report = {Row(r).op : r \in all}
              /\ \A o \in DOMAIN report :
                    LET its == {r \in all : Row(r).op = o}
                    IN  /\ report[o].count = Cardinality(its)
                        /\ report[o].errors = Cardinality({r \in its : ~Row(r).ok})

\* Of n requests of an operation, at most (100 - p)% of the n - 1 others, rounded
\* up, are slower than the percentile p the report gives.
PercentilesHold ==
    \A o \in DOMAIN report :
        LET Slower(l) == Cardinality({r \in Of(o) : Latency(r) > l})
            n == report[o].count
        IN  /\ 100 * (Slower(report[o].p50) - 1) < 50 * (n - 1)
            /\ 100 * (Slower(report[o].p95) - 1) < 5 * (n - 1)
            /\ 100 * (Slower(report[o].p99) - 1) < 1 * (n - 1)
            /\ report[o].min <= report[o].p50 /\ report[o].p50 <= report[o].p95
            /\ report[o].p95 <= report[o].p99 /\ report[o].p99 <= report[o].max

\* Members only ever pick galleries that exist, and there is one whenever they
\* pick: no request of the load phase is counted without having been sent.
PicksExist ==
    /\ pool <= created
    /\ \A w \in Workers : at[w] = "asking" => pool > 0

\* A run that ends has started the service again that it stopped, unless ssh failed.
ServiceRestored == main = "ended" /\ ~sshFailed => up

\* The run comes to an end, or ssh never returns.
EndsUnlessSshHangs ==
    \/ <>(main \in {"ended", "fatal"})
    \/ <>[](crash \in {"stopping", "starting"})
=============================================================================
