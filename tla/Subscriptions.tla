---------------------------- MODULE Subscriptions ----------------------------
(***************************************************************************)
(* What a replica of the Notification Service promises about its live      *)
(* streams: which connections there are, whose they are, and which         *)
(* galleries each is subscribed to - two relations, without the three      *)
(* indexes that Registry keeps (internal/notification/registry.go).        *)
(***************************************************************************)
CONSTANTS Users, Galleries, Conns

VARIABLES owns,     \* pairs <<connection, user>>
          subs      \* pairs <<connection, gallery>>

vars == <<owns, subs>>

Init == owns = {} /\ subs = {}

\* The connections of user u.
Of(u) == {c \in Conns : <<c, u>> \in owns}

Connect(c, u) ==
    /\ \A v \in Users : <<c, v>> \notin owns
    /\ owns' = owns \cup {<<c, u>>}
    /\ UNCHANGED subs

Subscribe(c, g) ==
    /\ \E u \in Users : <<c, u>> \in owns
    /\ subs' = subs \cup {<<c, g>>}
    /\ UNCHANGED owns

UserJoins(u, g) ==
    /\ subs' = subs \cup {<<c, g>> : c \in Of(u)}
    /\ UNCHANGED owns

UserLeaves(u, g) ==
    /\ subs' = subs \ {<<c, g>> : c \in Of(u)}
    /\ UNCHANGED owns

Disconnect(c) ==
    /\ owns' = owns \ {<<c, u>> : u \in Users}
    /\ subs' = subs \ {<<c, g>> : g \in Galleries}

Next ==
    \/ \E c \in Conns, u \in Users : Connect(c, u)
    \/ \E c \in Conns, g \in Galleries : Subscribe(c, g)
    \/ \E u \in Users, g \in Galleries : UserJoins(u, g) \/ UserLeaves(u, g)
    \/ \E c \in Conns : Disconnect(c)

Spec == Init /\ [][Next]_vars
=============================================================================
