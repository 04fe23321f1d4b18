--------------------------- MODULE BookingQueries ---------------------------
(***************************************************************************)
(* Listing bookings page by page while they change.  The table is the one  *)
(* of BookingLifecycle, which the booking service implements; a request    *)
(* for a page reads it in two statements, first the number of rows and     *)
(* then the rows between offset and offset + limit, newest first.          *)
(*                                                                         *)
(* created_at is drawn from the clock of a server before the row is        *)
(* inserted, so a booking may appear anywhere in the order.  No two rows   *)
(* have the same time here: the queries leave the order of such rows open. *)
(***************************************************************************)
EXTENDS BookingLifecycle, FiniteSets

CONSTANTS Clients,      \* who asks for lists, one list at a time
          Times,        \* what created_at may be
          MaxLimit,     \* the largest page, 100
          DefaultLimit, \* the page for a missing limit, 20
          Limits,       \* the limits clients ask for
          MaxDeclines,  \* bound: declines of a booking
          MaxAssigned   \* bound: bookings with a runner at a time

ASSUME QueriesAssumption ==
    /\ Times \subseteq Nat \ {0}
    /\ MaxLimit \in Nat /\ DefaultLimit \in 1..MaxLimit
    /\ Limits \subseteq Int
    /\ MaxDeclines \in Nat /\ MaxAssigned \in Nat

VARIABLES created,  \* the created_at column
          query     \* what each client has asked and seen

queryVars == <<created, query>>
listVars == <<vars, queryVars>>

-----------------------------------------------------------------------------
Lists == [by : {"owner"}, who : Owners] \cup [by : {"runner"}, who : Runners]
           \cup {[by |-> "all"]}

(* The WHERE clause of a list, on the content of a table.                  *)
Listed(table, list) ==
    {b \in Bookings :
        /\ table[b] # NoBooking
        /\ list.by = "owner" => table[b].owner = list.who
        /\ list.by = "runner" => table[b].runner = list.who}

\* Mutated form of LimitOf: a limit that is too large is used.
LimitUnchecked(list, n) == IF n < 1 THEN DefaultLimit ELSE n

(* parsePagination; the admin's handler takes the default also for a limit *)
(* that is too large.                                                      *)
LimitOf(list, n) ==
    IF n < 1 \/ (n > MaxLimit /\ list.by = "all") THEN DefaultLimit
    ELSE IF n > MaxLimit THEN MaxLimit ELSE n

\* Mutated form of Offset: pages are counted from zero.
OffsetFromZero(page, limit) == page * limit

Offset(page, limit) == (page - 1) * limit

(* The place of b among rows, newest first, from 1.                        *)
Rank(rows, b) == Cardinality({a \in rows : created[a] >= created[b]})

PageOf(rows, page, limit) ==
    {b \in rows : Rank(rows, b) - Offset(page, limit) \in 1..limit}
-----------------------------------------------------------------------------
NoQuery == [stage |-> "idle"]

Query == [stage  : {"count", "page", "answered", "done"},
          list   : Lists,
          page   : Nat \ {0},
          limit  : 1..MaxLimit,
          total  : Nat,
          items  : SUBSET Bookings,
          seen   : SUBSET Bookings,  \* in any page so far
          wanted : SUBSET Bookings,  \* in the list ever since the first request
          left   : BOOLEAN]          \* has a row left the list since then?

QueryInit ==
    /\ Init
    /\ created = [b \in Bookings |-> 0]
    /\ query = [c \in Clients |-> NoQuery]

Ask(c, q) == query' = [query EXCEPT ![c] = q] /\ UNCHANGED <<vars, created>>

(* The first page of a list; the page asked for is at least 1.             *)
ListBookings(c, list, n) ==
    /\ query[c].stage \in {"idle", "done"}
    /\ Ask(c, [stage |-> "count", list |-> list, page |-> 1,
               limit |-> LimitOf(list, n), total |-> 0, items |-> {},
               seen |-> {}, wanted |-> Listed(bookings, list), left |-> FALSE])

\* Mutated form of Count: the WHERE clause is forgotten.
CountAll(c) ==
    /\ query[c].stage = "count"
    /\ Ask(c, [query[c] EXCEPT !.stage = "page",
                  !.total = Cardinality({b \in Bookings : Exists(b)})])

Count(c) ==
    /\ query[c].stage = "count"
    /\ Ask(c, [query[c] EXCEPT !.stage = "page",
                  !.total = Cardinality(Listed(bookings, query[c].list))])

ReadPage(c) ==
    /\ query[c].stage = "page"
    /\ LET items == PageOf(Listed(bookings, query[c].list),
                           query[c].page, query[c].limit)
       IN  Ask(c, [query[c] EXCEPT !.stage = "answered", !.items = items,
                                   !.seen = @ \cup items])

(* External: the client goes on until a page is not full.                  *)
NextPage(c) ==
    /\ query[c].stage = "answered"
    /\ Cardinality(query[c].items) = query[c].limit
    /\ Ask(c, [query[c] EXCEPT !.stage = "count", !.page = @ + 1,
                               !.total = 0, !.items = {}])

LastPage(c) ==
    /\ query[c].stage = "answered"
    /\ Cardinality(query[c].items) < query[c].limit
    /\ Ask(c, [query[c] EXCEPT !.stage = "done", !.total = 0, !.items = {}])

\* Mutated form of CountByStatus: bookings without a runner are not counted.
CountAssignedByStatus ==
    [s \in Status |-> Cardinality({b \in Bookings :
        Exists(b) /\ bookings[b].status = s /\ bookings[b].runner # None})]

CountByStatus ==
    [s \in Status |-> Cardinality({b \in Bookings :
        Exists(b) /\ bookings[b].status = s})]

(* GetBookingStats: by status, and in total.                               *)
TotalBookings ==
    LET counts == CountByStatus
    IN  counts["requested"] + counts["accepted"] + counts["in_progress"]
          + counts["delivered"] + counts["completed"] + counts["cancelled"]
-----------------------------------------------------------------------------
(* What a change of the table means to the lists clients are reading.      *)
Notice(q) ==
    IF q.stage = "idle" THEN q
    ELSE LET gone == Listed(bookings, q.list) \ Listed(bookings', q.list)
         IN  [q EXCEPT !.wanted = @ \ gone, !.left = @ \/ gone # {}]

CreateAt(b) ==
    /\ Create(b)
    /\ \E t \in Times \ {created[c] : c \in Bookings} :
         created' = [created EXCEPT ![b] = t]

Assigned == {b \in Bookings : Exists(b) /\ bookings[b].runner # None}

ChangeStatus(b) ==
    /\ \/ Cardinality(Assigned) < MaxAssigned /\ \E r \in Runners : Accept(b, r)
       \/ Len(declines[b]) < MaxDeclines /\ \E r \in Runners : Decline(b, r)
       \/ StartDelivery(b) \/ ConfirmDelivery(b)
       \/ Complete(b) \/ Cancel(b)
    /\ UNCHANGED created

Write ==
    /\ \E b \in Bookings : CreateAt(b) \/ ChangeStatus(b)
    /\ query' = [c \in Clients |-> Notice(query[c])]

Read(c) ==
    \/ \E list \in Lists, n \in Limits : ListBookings(c, list, n)
    \/ Count(c) \/ ReadPage(c) \/ NextPage(c) \/ LastPage(c)

QueryNext == Write \/ \E c \in Clients : Read(c)

QuerySpec == QueryInit /\ [][QueryNext]_listVars
-----------------------------------------------------------------------------
(* Every variable has its type; no page is larger than its limit, and no   *)
(* limit larger than the largest, whatever the client asked for.           *)
QueryTypeOK ==
    /\ created \in [Bookings -> Times \cup {0}]
    /\ query \in [Clients -> {NoQuery} \cup Query]
    /\ \A c \in Clients :
         query[c].stage # "idle" => Cardinality(query[c].items) <= query[c].limit

(* A client that reads page after page until one is not full has seen      *)
(* every booking that was in the list all the time, although bookings are  *)
(* inserted in front of the ones it has yet to read: positions in the list *)
(* of an owner, and in the list of all, only grow.  A runner's list can    *)
(* lose rows: then it may miss one.                                        *)
NoneMissed ==
    \A c \in Clients :
        /\ query[c].stage = "done"
        /\ query[c].list.by = "runner" => ~ query[c].left
        => query[c].wanted \subseteq query[c].seen

(* The page is read after the rows are counted: as long as no row left the *)
(* list, an answer has at least the items its total promises.              *)
AnswersFull ==
    \A c \in Clients :
        query[c].stage = "answered" /\ ~ query[c].left =>
            LET q == query[c]
                rest == q.total - Offset(q.page, q.limit)
            IN  Cardinality(q.items) >= (IF rest < q.limit THEN rest ELSE q.limit)

(* booking_handler.go:68, as a claim: a runner sees the bookings assigned  *)
(* to him.  One that was his all the time is missed when another leaves    *)
(* the list between two pages.                                             *)
AssignedSeen ==
    \A c \in Clients :
        query[c].stage = "done" /\ query[c].list.by = "runner" =>
            query[c].wanted \subseteq query[c].seen

(* The total of the statistics never drops, while bookings move from one   *)
(* status to another: each is counted in exactly one, in one statement.    *)
StatsNeverDrop == [][TotalBookings' >= TotalBookings]_listVars
=============================================================================
