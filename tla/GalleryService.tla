---------------------------- MODULE GalleryService ----------------------------
(***************************************************************************)
(* The command side of the Gallery Service (internal/gallery/command):     *)
(* gRPC handlers that read a gallery, check it, and write, over a Postgres *)
(* database and a RabbitMQ channel.                                        *)
(*                                                                         *)
(* Each repository call is one SQL statement, so one atomic step; handlers *)
(* hold no lock between their read and their write.  CloseGallery and      *)
(* SendModeratorAlert answer the caller and publish from a detached        *)
(* goroutine: a request slot stays taken until that goroutine is over      *)
(* (this bounds the goroutines, nothing else).                             *)
(*                                                                         *)
(* Requests that validation refuses before any repository call (empty      *)
(* name or message, malformed id, missing identity) change nothing and are *)
(* left out.                                                               *)
(***************************************************************************)
EXTENDS FiniteSets

CONSTANTS Users, Moderators,    \* Moderators: users whose token has that role
          Galleries,            \* gallery ids (uuid.New never repeats one)
          Requests,             \* slots for concurrent requests
          Faults,               \* the faults that may happen
          NoRow                 \* a row that is not in the database

ASSUME ModeratorsAssumption == Moderators \subseteq Users

ASSUME FaultsAssumption == Faults \subseteq {"crash", "drop", "sql"}

Ops == {"create", "delete", "close", "join", "leave", "alert"}

\* The columns of a gallery that the code decides on.
Rows == [status : {"OPEN", "CLOSED"}, moderator : Users]

ASSUME NoRowAssumption == NoRow \notin Rows

Events == [type : {"GalleryClosed", "ModeratorAlert"}, gallery : Galleries]

VARIABLES
    row,        \* table galleries: row[g] is NoRow or its columns
    members,    \* table members: members[g] is the set of users
    used,       \* ids handed out by uuid.New
    req,        \* what each request slot is doing
    running,    \* the process is up
    channel,    \* the publisher's AMQP channel, opened once at start
    published   \* events the exchange has accepted

vars == <<row, members, used, req, running, channel, published>>

Idle == [at |-> "idle"]

Pending == [at : {"read", "write"}, op : Ops, caller : Users,
            gallery : Galleries, seen : Rows \cup {NoRow}]

Publishing == [at : {"publish"}, event : Events]

TypeOK ==
    /\ row \in [Galleries -> Rows \cup {NoRow}]
    /\ members \in [Galleries -> SUBSET Users]
    /\ used \subseteq Galleries
    /\ req \in [Requests -> {Idle} \cup Pending \cup Publishing]
    /\ running \in BOOLEAN
    /\ channel \in {"open", "closed"}
    /\ published \subseteq Events

Init ==
    /\ row = [g \in Galleries |-> NoRow]
    /\ members = [g \in Galleries |-> {}]
    /\ used = {}
    /\ req = [r \in Requests |-> Idle]
    /\ running = FALSE
    /\ channel = "closed"
    /\ published = {}

-----------------------------------------------------------------------------
\* r waits to run step `at' of operation op.
Waiting(r, at, op) == req[r].at = at /\ req[r].op = op

Finish(r) == req' = [req EXCEPT ![r] = Idle]

Announce(r, type, g) ==
    req' = [req EXCEPT ![r] = [at |-> "publish",
                               event |-> [type |-> type, gallery |-> g]]]

\* NewDB: AutoMigrate creates the tables that are missing; rows stay as they are.
NewDB == UNCHANGED <<row, members>>

\* NewRabbitMQPublisher: a connection, its one channel, and the durable exchange.
NewRabbitMQPublisher == channel' = "open"

\* main.  Where the port, the secret, Postgres or RabbitMQ is missing it exits
\* before it serves: to the tables and the exchange nothing has happened.
Start ==
    /\ ~running
    /\ running' = TRUE
    /\ NewDB
    /\ NewRabbitMQPublisher
    /\ UNCHANGED <<used, req, published>>

\* The claims of the token say who calls; only CreateGallery looks at the role.
ModeratorRole(u) == u \in Moderators

\* A request arrives.  CreateGallery needs the moderator role and draws a new
\* id; it and LeaveGallery write without reading first.
Begin(r, op, u, g) ==
    /\ running
    /\ req[r] = Idle
    /\ op = "create" => ModeratorRole(u) /\ g \notin used
    /\ used' = IF op = "create" THEN used \cup {g} ELSE used
    /\ req' = [req EXCEPT ![r] =
                  [at |-> IF op \in {"create", "leave"} THEN "write" ELSE "read",
                   op |-> op, caller |-> u, gallery |-> g, seen |-> NoRow]]
    /\ UNCHANGED <<row, members, running, channel, published>>

\* The checks each operation makes on the row it has read.
Permitted(op, u, seen) ==
    CASE op \in {"delete", "alert"} -> seen.moderator = u
      [] op = "close" -> seen.moderator = u /\ seen.status # "CLOSED"
      [] op = "join" -> seen.status # "CLOSED"

\* GetGallery and the checks on its result.  An alert then has nothing to write.
Read(r) ==
    LET q == req[r]
        seen == row[q.gallery]
    IN  /\ q.at = "read"
        /\ IF seen = NoRow \/ ~Permitted(q.op, q.caller, seen)
           THEN Finish(r)
           ELSE IF q.op = "alert"
           THEN Announce(r, "ModeratorAlert", q.gallery)
           ELSE req' = [req EXCEPT ![r].at = "write", ![r].seen = seen]
        /\ UNCHANGED <<row, members, used, running, channel, published>>

CreateGallery(r) ==
    LET q == req[r]
    IN  /\ Waiting(r, "write", "create")
        /\ row' = [row EXCEPT ![q.gallery] = [status |-> "OPEN", moderator |-> q.caller]]
        /\ Finish(r)
        /\ UNCHANGED <<members, used, running, channel, published>>

\* Fault: the row goes without the cascade on members.
MutDeleteGallery(r) ==
    LET q == req[r]
    IN  /\ Waiting(r, "write", "delete")
        /\ row' = [row EXCEPT ![q.gallery] = NoRow]
        /\ Finish(r)
        /\ UNCHANGED <<members, used, running, channel, published>>

\* The row is deleted for good (Unscoped) and its members with it (OnDelete:
\* CASCADE).  Deleting a row that is already gone is no error.
DeleteGallery(r) ==
    LET q == req[r]
    IN  /\ Waiting(r, "write", "delete")
        /\ row' = [row EXCEPT ![q.gallery] = NoRow]
        /\ members' = [members EXCEPT ![q.gallery] = {}]
        /\ Finish(r)
        /\ UNCHANGED <<used, running, channel, published>>

\* Fault: the event goes out before the row is saved.
MutCloseGallery(r) ==
    LET q == req[r]
        closed == [q.seen EXCEPT !.status = "CLOSED"]
    IN  /\ Waiting(r, "write", "close")
        /\ IF [type |-> "GalleryClosed", gallery |-> q.gallery] \in published
           THEN row' = [row EXCEPT ![q.gallery] = closed] /\ Finish(r)
                /\ UNCHANGED published
           ELSE /\ published' = published \cup
                       {[type |-> "GalleryClosed", gallery |-> q.gallery]}
                /\ UNCHANGED <<row, req>>
        /\ UNCHANGED <<members, used, running, channel>>

\* Fault: the handler saves the row it has read without setting the status.
MutCloseUnset(r) ==
    LET q == req[r]
    IN  /\ Waiting(r, "write", "close")
        /\ row' = [row EXCEPT ![q.gallery] = q.seen]
        /\ Announce(r, "GalleryClosed", q.gallery)
        /\ UNCHANGED <<members, used, running, channel, published>>

\* gorm's Save writes every column of the row that was read, and inserts the
\* row when the UPDATE matches none.  Then the event's goroutine starts.
CloseGallery(r) ==
    LET q == req[r]
        closed == [q.seen EXCEPT !.status = "CLOSED"]
    IN  /\ Waiting(r, "write", "close")
        /\ row' = [row EXCEPT ![q.gallery] = closed]
        /\ Announce(r, "GalleryClosed", q.gallery)
        /\ UNCHANGED <<members, used, running, channel, published>>

\* Fault: the member is appended to the gallery that was read, and gorm saves that
\* too.
MutJoinGallery(r) ==
    LET q == req[r]
    IN  /\ Waiting(r, "write", "join")
        /\ members' = [members EXCEPT ![q.gallery] = @ \cup {q.caller}]
        /\ row' = [row EXCEPT ![q.gallery] = q.seen]
        /\ Finish(r)
        /\ UNCHANGED <<used, running, channel, published>>

\* INSERT ... ON CONFLICT DO NOTHING; the foreign key refuses it when the
\* gallery is gone.  The status is not looked at again.
JoinGallery(r) ==
    LET q == req[r]
    IN  /\ Waiting(r, "write", "join")
        /\ members' = IF row[q.gallery] = NoRow THEN members
                      ELSE [members EXCEPT ![q.gallery] = @ \cup {q.caller}]
        /\ Finish(r)
        /\ UNCHANGED <<row, used, running, channel, published>>

LeaveGallery(r) ==
    LET q == req[r]
    IN  /\ Waiting(r, "write", "leave")
        /\ members' = [members EXCEPT ![q.gallery] = @ \ {q.caller}]
        /\ Finish(r)
        /\ UNCHANGED <<row, used, running, channel, published>>

\* The goroutine hands its event to the channel.  On a closed channel Publish
\* fails, the error is logged and the event is gone: one attempt, no reconnect.
Publish(r) ==
    /\ req[r].at = "publish"
    /\ published' = IF channel = "open" THEN published \cup {req[r].event}
                    ELSE published
    /\ Finish(r)
    /\ UNCHANGED <<row, members, used, running, channel>>

-----------------------------------------------------------------------------
(* Faults.                                                                 *)

\* A statement fails; the handler returns an error without writing.
SqlError(r) ==
    /\ "sql" \in Faults
    /\ req[r].at \in {"read", "write"}
    /\ Finish(r)
    /\ UNCHANGED <<row, members, used, running, channel, published>>

\* The connection to RabbitMQ closes.
DropChannel ==
    /\ "drop" \in Faults
    /\ running
    /\ channel' = "closed"
    /\ UNCHANGED <<row, members, used, req, running, published>>

\* The process dies with its requests, its goroutines and its channel: the
\* tables and the exchange survive.
Crash ==
    /\ "crash" \in Faults
    /\ running
    /\ running' = FALSE
    /\ req' = [r \in Requests |-> Idle]
    /\ channel' = "closed"
    /\ UNCHANGED <<row, members, used, published>>

Step(r) ==
    \/ Read(r)
    \/ CreateGallery(r)
    \/ DeleteGallery(r)
    \/ CloseGallery(r)
    \/ JoinGallery(r)
    \/ LeaveGallery(r)
    \/ Publish(r)

Next ==
    \/ \E r \in Requests :
         \/ \E op \in Ops, u \in Users, g \in Galleries : Begin(r, op, u, g)
         \/ Step(r)
         \/ SqlError(r)
    \/ Start
    \/ DropChannel
    \/ Crash

Spec == Init /\ [][Next]_vars

-----------------------------------------------------------------------------
HasRow(g) == row[g] # NoRow

IsOpen(g) == HasRow(g) /\ row[g].status = "OPEN"

\* A user is a member of existing galleries only: the cascade of a deletion and
\* the foreign key of a late join leave no membership behind, in any order.
MembersHaveGallery == \A g \in Galleries : members[g] # {} => HasRow(g)

\* A gallery announced as closed is never open, from the moment its event is
\* waiting to be published (service.go 91-105: save first, publish after).
AnnouncedNeverOpen ==
    \A g \in Galleries :
        LET e == [type |-> "GalleryClosed", gallery |-> g]
        IN  (e \in published \/ \E r \in Requests : req[r].at = "publish" /\ req[r].event = e)
                => ~IsOpen(g)

\* A closed gallery never opens again, although Save writes back every column of
\* a row read earlier (service.go 77-91, repository.go 47-49).
ClosedNeverReopens ==
    [][\A g \in Galleries : HasRow(g) /\ row[g].status = "CLOSED" => ~IsOpen(g)']_vars

\* A row that is not being created reappears only when a CloseGallery writes back
\* what it had read before the deletion: closed and without members (gorm's Save,
\* service.go 91, repository.go 48, 51).  The comment on line 51 wants a deleted
\* gallery not to be recoverable.
UndeletedIsClosed ==
    [][\A g \in Galleries : ~HasRow(g) /\ HasRow(g)' =>
         \/ \E r \in Requests : Waiting(r, "write", "create") /\ req[r].gallery = g
         \/ row'[g].status = "CLOSED" /\ members'[g] = {}]_vars
=============================================================================
