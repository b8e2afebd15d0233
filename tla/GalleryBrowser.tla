--------------------------- MODULE GalleryBrowser ---------------------------
(***************************************************************************)
(* The galleries page of the web client: GalleryStore.ts,                  *)
(* galleryActions.ts, GalleriesPage.tsx, and the keyset listings of the    *)
(* Gallery Service behind it (internal/gallery/query).                     *)
(*                                                                         *)
(* Every action of the client awaits one or two HTTP requests and then     *)
(* dispatches to the store; any number of them overlap.  The server reads  *)
(* or writes when a request reaches it, the store changes when the answer  *)
(* is back, and other users create and delete galleries meanwhile.         *)
(*                                                                         *)
(* One user, one tab.  A gallery is its id, a number, as ids are compared; *)
(* 0 stands for no page token.  A command is one step of the server here   *)
(* (GalleryService has its steps).  The listings include closed galleries, *)
(* so that closing changes nothing this module can see but a card's badge. *)
(***************************************************************************)
EXTENDS Integers, SequencesExt

CONSTANTS MaxGalleries,       \* bound on the galleries ever created
          Owned,              \* those the user created or will create
          Changing,           \* bound: others' galleries that come and go meanwhile
          MyPageSize,         \* MY_GALLERIES_PAGE_SIZE
          AvailablePageSize,  \* AVAILABLE_GALLERIES_PAGE_SIZE
          Calls,              \* bound on the client's actions at a time
          Unread              \* an answer that is not there yet

Galleries == 1 .. MaxGalleries

ASSUME OwnedAssumption == Owned \subseteq Galleries /\ Changing \subseteq Galleries \ Owned

ASSUME MaxGalleriesAssumption == MaxGalleries \in Nat

ASSUME PageSizesAssumption == {MyPageSize, AvailablePageSize} \subseteq Nat \ {0}

Pages == Seq(Galleries)

ASSUME UnreadAssumption == Unread \notin Pages

VARIABLES
    galleries,  \* the galleries there are
    joined,     \* those the user is a member of
    used,       \* ids handed out
    store,      \* GalleryStore.state, without the error's text
    call,       \* the client's actions under way
    stale,      \* history: loads that have read something that has changed since
    fresh       \* history: nothing has changed since the lists were last loaded,
                \* and no older page was under way then

vars == <<galleries, joined, used, store, call, stale, fresh>>

server == <<galleries, joined, used>>

Free == [kind |-> "none"]

Commands == {"create", "close", "join", "leave", "delete"}

States == [my : Pages, available : Pages, myNext : 0 .. MaxGalleries,
           availableNext : 0 .. MaxGalleries, moreMy : BOOLEAN,
           moreAvailable : BOOLEAN, loading : BOOLEAN]

Loads == [kind : {"load"}, mine : Pages \cup {Unread}, all : Pages \cup {Unread}]

Mores == [kind : {"moreMy", "moreAvailable"}, token : Galleries,
          page : Pages \cup {Unread}]

Requests == [kind : Commands, gallery : Galleries, done : BOOLEAN]

TypeOK ==
    /\ joined \subseteq galleries
    /\ galleries \subseteq used
    /\ used \subseteq Galleries
    /\ store \in States
    /\ call \in [Calls -> {Free} \cup Loads \cup Mores \cup Requests]
    /\ stale \subseteq Calls
    /\ fresh \in BOOLEAN

\* The tab opens on a store that is empty.
Init ==
    /\ used \in SUBSET Galleries
    /\ galleries = used
    /\ joined \in SUBSET galleries
    /\ store = [my |-> <<>>, available |-> <<>>, myNext |-> 0, availableNext |-> 0,
                moreMy |-> FALSE, moreAvailable |-> FALSE, loading |-> FALSE]
    /\ call = [c \in Calls |-> Free]
    /\ stale = {}
    /\ fresh = FALSE

Running(kind) == {c \in Calls : call[c].kind = kind}

More == Running("moreMy") \cup Running("moreAvailable")

-----------------------------------------------------------------------------
(* The server.                                                             *)

\* The numbers of S in increasing order: the k-th is the one with k - 1 below it.
Sorted(S) ==
    [k \in 1 .. Cardinality(S) |-> CHOOSE g \in S : Cardinality({h \in S : h < g}) = k - 1]

\* ORDER BY id LIMIT limit, after the token.
Page(S, after, limit) ==
    LET rest == Sorted({g \in S : g > after})
    IN  SubSeq(rest, 1, IF limit < Len(rest) THEN limit ELSE Len(rest))

\* Fault: the token is the first row of the page.
MutToken(page) == IF page = <<>> THEN 0 ELSE page[1]

\* The token of the next page: the last row of this one.
Token(page) == IF page = <<>> THEN 0 ELSE page[Len(page)]

MyPage(after) == Page(joined, after, MyPageSize)

AvailablePage(after) == Page(galleries, after, AvailablePageSize)

\* History: the tables have changed.
Changed ==
    /\ fresh' = FALSE
    /\ stale' = stale \cup
          {c \in Running("load") : call[c].mine # Unread \/ call[c].all # Unread}

Create(g) ==
    /\ g \notin used
    /\ galleries' = galleries \cup {g}
    /\ used' = used \cup {g}
    /\ UNCHANGED joined

\* With the memberships.
Delete(g) ==
    /\ g \in galleries
    /\ galleries' = galleries \ {g}
    /\ joined' = joined \ {g}
    /\ UNCHANGED used

\* Other moderators' galleries come and go.
Elsewhere(g) ==
    /\ Create(g) \/ Delete(g)
    /\ Changed
    /\ UNCHANGED <<store, call>>

\* A command reaches the Gallery Service and succeeds.
Serve(c) ==
    LET g == call[c].gallery
    IN  /\ call[c].kind \in Commands
        /\ ~call[c].done
        /\ CASE call[c].kind = "create" -> Create(g)
             [] call[c].kind = "delete" -> Delete(g)
             [] call[c].kind = "join"   -> /\ g \in galleries
                                           /\ joined' = joined \cup {g}
                                           /\ UNCHANGED <<galleries, used>>
             [] call[c].kind = "leave"  -> /\ joined' = joined \ {g}
                                           /\ UNCHANGED <<galleries, used>>
             [] call[c].kind = "close"  -> g \in galleries /\ UNCHANGED server
        /\ IF <<galleries', joined'>> = <<galleries, joined>>
           THEN UNCHANGED <<stale, fresh>>
           ELSE Changed
        /\ call' = [call EXCEPT ![c].done = TRUE]
        /\ UNCHANGED store

\* The two listings of a load are requests of their own.
ReadMine(c) ==
    /\ call[c].kind = "load" /\ call[c].mine = Unread
    /\ call' = [call EXCEPT ![c].mine = MyPage(0)]
    /\ UNCHANGED <<server, store, stale, fresh>>

ReadAll(c) ==
    /\ call[c].kind = "load" /\ call[c].all = Unread
    /\ call' = [call EXCEPT ![c].all = AvailablePage(0)]
    /\ UNCHANGED <<server, store, stale, fresh>>

ReadMore(c) ==
    /\ c \in More /\ call[c].page = Unread
    /\ call' = [call EXCEPT ![c].page = IF call[c].kind = "moreMy"
                                        THEN MyPage(call[c].token)
                                        ELSE AvailablePage(call[c].token)]
    /\ UNCHANGED <<server, store, stale, fresh>>

-----------------------------------------------------------------------------
(* The page and its store.                                                 *)

\* The list without these galleries, in the order it has.
Without(list, ids) ==
    LET kept == Sorted({i \in DOMAIN list : list[i] \notin ids})
    IN  [k \in DOMAIN kept |-> list[kept[k]]]

Ends(c) == call' = [call EXCEPT ![c] = Free] /\ stale' = stale \ {c}

LoadStarts(c) ==
    /\ store' = [store EXCEPT !.loading = TRUE]
    /\ call' = [call EXCEPT ![c] = [kind |-> "load", mine |-> Unread, all |-> Unread]]

\* The page is mounted, on whatever the store holds from before.
Mount(c) ==
    /\ call[c] = Free
    /\ LoadStarts(c)
    /\ UNCHANGED <<server, stale, fresh>>

\* Both listings are back: they replace everything.
Loaded(c) ==
    LET mine == call[c].mine
        all == call[c].all
    IN  /\ call[c].kind = "load" /\ Unread \notin {mine, all}
        /\ store' = [my |-> mine, available |-> Without(all, ToSet(mine)),
                     myNext |-> Token(mine), availableNext |-> Token(all),
                     moreMy |-> FALSE, moreAvailable |-> FALSE, loading |-> FALSE]
        /\ fresh' = (c \notin stale /\ More = {})
        /\ Ends(c)
        /\ UNCHANGED server

\* Either listing fails; the other's answer is not waited for.
LoadFails(c) ==
    /\ call[c].kind = "load"
    /\ store' = [store EXCEPT !.loading = FALSE]
    /\ Ends(c)
    /\ UNCHANGED <<server, fresh>>

\* The button of a list is there while it has a next page, and enabled while
\* the list is not waiting for one.
LoadMoreMy(c) ==
    /\ call[c] = Free
    /\ store.myNext # 0 /\ ~store.moreMy
    /\ store' = [store EXCEPT !.moreMy = TRUE]
    /\ call' = [call EXCEPT ![c] =
                   [kind |-> "moreMy", token |-> store.myNext, page |-> Unread]]
    /\ UNCHANGED <<server, stale, fresh>>

LoadMoreAvailable(c) ==
    /\ call[c] = Free
    /\ store.availableNext # 0 /\ ~store.moreAvailable
    /\ store' = [store EXCEPT !.moreAvailable = TRUE]
    /\ call' = [call EXCEPT ![c] =
                   [kind |-> "moreAvailable", token |-> store.availableNext, page |-> Unread]]
    /\ UNCHANGED <<server, stale, fresh>>

\* Fault: galleries that turn out to be the user's stay available.
MutMoreMy(c) ==
    LET page == call[c].page
    IN  /\ call[c].kind = "moreMy" /\ page # Unread
        /\ store' = [store EXCEPT !.my = @ \o page, !.myNext = Token(page), !.moreMy = FALSE]
        /\ Ends(c)
        /\ UNCHANGED <<server, fresh>>

\* A page of the user's galleries: they were available until now.
MoreMy(c) ==
    LET page == call[c].page
    IN  /\ call[c].kind = "moreMy" /\ page # Unread
        /\ store' = [store EXCEPT !.my = @ \o page,
                                  !.available = Without(@, ToSet(page)),
                                  !.myNext = Token(page),
                                  !.moreMy = FALSE]
        /\ Ends(c)
        /\ UNCHANGED <<server, fresh>>

\* A page of all galleries, less those known to be the user's.
MoreAvailable(c) ==
    LET page == call[c].page
    IN  /\ call[c].kind = "moreAvailable" /\ page # Unread
        /\ store' = [store EXCEPT !.available = @ \o Without(page, ToSet(store.my)),
                                  !.availableNext = Token(page),
                                  !.moreAvailable = FALSE]
        /\ Ends(c)
        /\ UNCHANGED <<server, fresh>>

\* Fault: the failure leaves the button waiting.
MutMoreFails(c) == c \in More /\ Ends(c) /\ UNCHANGED <<server, store, fresh>>

MoreFails(c) ==
    /\ c \in More
    /\ store' = IF call[c].kind = "moreMy" THEN [store EXCEPT !.moreMy = FALSE]
                                           ELSE [store EXCEPT !.moreAvailable = FALSE]
    /\ Ends(c)
    /\ UNCHANGED <<server, fresh>>

\* The buttons of the cards, and the form that creates.
Offered(kind) ==
    LET cards == ToSet(store.my) \cup ToSet(store.available)
    IN  CASE kind = "create" -> Owned \ used
          [] kind = "join" -> ToSet(store.available)
          [] kind = "leave" -> ToSet(store.my)
          [] kind \in {"close", "delete"} -> cards \cap Owned

\* Only a creation shows that it is loading.
Command(c, kind) ==
    /\ call[c] = Free
    /\ \E g \in Offered(kind) :
          call' = [call EXCEPT ![c] = [kind |-> kind, gallery |-> g, done |-> FALSE]]
    /\ store' = [store EXCEPT !.loading = @ \/ kind = "create"]
    /\ UNCHANGED <<server, stale, fresh>>

\* The client hears of the success, and loads the lists anew.
Succeeds(c) ==
    /\ call[c].kind \in Commands /\ call[c].done
    /\ LoadStarts(c)
    /\ UNCHANGED <<server, stale, fresh>>

\* The command is refused or lost, or its answer is.
Fails(c) ==
    /\ call[c].kind \in Commands
    /\ store' = [store EXCEPT !.loading = @ /\ call[c].kind \notin {"create", "delete"}]
    /\ Ends(c)
    /\ UNCHANGED <<server, fresh>>

Next ==
    \/ \E g \in Changing : Elsewhere(g)
    \/ \E c \in Calls :
          \/ Serve(c) \/ ReadMine(c) \/ ReadAll(c) \/ ReadMore(c)
          \/ Mount(c) \/ Loaded(c) \/ LoadFails(c)
          \/ LoadMoreMy(c) \/ LoadMoreAvailable(c)
          \/ MoreMy(c) \/ MoreAvailable(c) \/ MoreFails(c)
          \/ \E kind \in Commands : Command(c, kind)
          \/ Succeeds(c) \/ Fails(c)

Spec == Init /\ [][Next]_vars

-----------------------------------------------------------------------------
\* No gallery is offered to be joined that is listed as joined, however loads,
\* pages and commands overlap and whatever they found on the server.
CardsDisjoint == ToSet(store.my) \cap ToSet(store.available) = {}

\* What the page shows as loading is loading: no button waits for an answer that
\* has been given to another call, or will never come.
SpinnersHaveCalls ==
    /\ store.moreMy => Running("moreMy") # {}
    /\ store.moreAvailable => Running("moreAvailable") # {}
    /\ store.loading => Running("load") \cup Running("create") # {}

\* Once both lists have no more pages they are complete, each gallery on one
\* card and in order, unless something has changed since they were loaded or a
\* page of older lists was under way then.
PagedToTheEnd ==
    fresh /\ store.myNext = 0 /\ store.availableNext = 0 =>
        /\ store.my = Sorted(joined)
        /\ store.available = Sorted(galleries \ joined)
=============================================================================
