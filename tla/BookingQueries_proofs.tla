----------------------- MODULE BookingQueries_proofs -----------------------
(***************************************************************************)
(* Proofs about BookingQueries, for every value of its constants: how many *)
(* items a page has, that reading page after page misses nothing of a list *)
(* that loses no row, and that the total of the statistics never drops.    *)
(*                                                                         *)
(* The operators of the invariant take the table and its created_at column *)
(* as parameters, so that the same formula speaks of both ends of a step.  *)
(***************************************************************************)
EXTENDS BookingQueries, FiniteSetTheorems, TLAPS

RowsOf(table) == {b \in Bookings : table[b] # NoBooking}

Newer(times, rows, b) == {a \in rows : times[a] >= times[b]}
Place(times, rows, b) == Cardinality(Newer(times, rows, b))

(* Finitely many rows, each with a time of its own.                        *)
TableOK(table, times) ==
    /\ table \in [Bookings -> Booking \cup {NoBooking}]
    /\ times \in [Bookings -> Times \cup {0}]
    /\ IsFiniteSet(RowsOf(table))
    /\ \A a, b \in RowsOf(table) : times[a] = times[b] => a = b

(* The places up to this one have been read.                               *)
ReadTo(q) == Offset(IF q.stage = "answered" THEN q.page + 1 ELSE q.page, q.limit)

EnoughItems(q) ==
    LET rest == q.total - Offset(q.page, q.limit)
    IN  Cardinality(q.items) >= (IF rest < q.limit THEN rest ELSE q.limit)

(* As long as no row leaves the list, a booking that was in it all the     *)
(* time was seen or is behind the places read, and then the last page was  *)
(* full.                                                                   *)
NothingSkipped(q, table, times) ==
    LET rows == Listed(table, q.list)
    IN  /\ q.wanted \subseteq rows
        /\ q.stage = "page" => q.total <= Cardinality(rows)
        /\ q.stage = "answered" => EnoughItems(q)
        /\ \A b \in q.wanted \ q.seen :
             /\ q.stage # "done"
             /\ q.stage = "answered" => ~ (Cardinality(q.items) < q.limit)
             /\ Place(times, rows, b) > ReadTo(q)

QueryOK(q, table, times) ==
    /\ q \in {NoQuery} \cup Query
    /\ q.stage # "idle" =>
         /\ q.list.by # "runner" => ~ q.left
         /\ Cardinality(q.items) <= q.limit
         /\ ~ q.left => NothingSkipped(q, table, times)

(* The inductive invariant.                                                *)
QueryInv ==
    /\ TableOK(bookings, created)
    /\ query \in [Clients -> {NoQuery} \cup Query]
    /\ \A c \in Clients : QueryOK(query[c], bookings, created)
-----------------------------------------------------------------------------
(* Counting: the places of finitely many rows are 1, 2, ... n.             *)
LEMMA PlacesAreCounted ==
    ASSUME NEW rows, IsFiniteSet(rows), NEW times,
           \A a \in rows : times[a] \in Int,
           \A a, b \in rows : times[a] = times[b] => a = b
    PROVE  /\ Cardinality(rows) \in Nat
           /\ [b \in rows |-> Place(times, rows, b)]
                 \in Bijection(rows, 1..Cardinality(rows))
  <1> DEFINE n == Cardinality(rows)
             place == [b \in rows |-> Place(times, rows, b)]
  <1>1. n \in Nat
    BY FS_CardinalityType
  <1>2. ASSUME NEW b \in rows
        PROVE  /\ Newer(times, rows, b) \subseteq rows
               /\ b \in Newer(times, rows, b)
               /\ IsFiniteSet(Newer(times, rows, b))
    <2>1. Newer(times, rows, b) \in SUBSET rows /\ b \in Newer(times, rows, b)
      BY DEF Newer
    <2> QED
      BY <2>1, FS_Subset
  <1>3. ASSUME NEW b \in rows PROVE Place(times, rows, b) \in 1..n
    <2>1. Place(times, rows, b) \in Nat /\ Place(times, rows, b) <= n
      BY <1>2, FS_Subset, FS_CardinalityType DEF Place
    <2>2. Place(times, rows, b) # 0
      BY <1>2, FS_EmptySet DEF Place
    <2> QED
      BY <1>1, <2>1, <2>2
  <1>4. ASSUME NEW a \in rows, NEW b \in rows, times[a] > times[b]
        PROVE  Place(times, rows, a) # Place(times, rows, b)
    <2>1. /\ Newer(times, rows, a) \in SUBSET Newer(times, rows, b)
          /\ b \notin Newer(times, rows, a)
      BY <1>4 DEF Newer
    <2> QED
      BY <1>2, <2>1, FS_Subset DEF Place
  <1>5. ASSUME NEW a \in rows, NEW b \in rows, a # b
        PROVE  Place(times, rows, a) # Place(times, rows, b)
    <2>1. times[a] > times[b] \/ times[b] > times[a]
      BY <1>5
    <2> QED
      BY <1>4, <2>1
  <1>6. place \in [rows -> 1..n]
    BY <1>3
  <1>7. place \in Injection(rows, 1..n)
    BY <1>5, <1>6 DEF Injection, IsInjective
  <1>8. IsFiniteSet(1..n) /\ Cardinality(1..n) = n
    BY <1>1, FS_Interval
  <1>9. place \in Surjection(rows, 1..n)
    <2> HIDE DEF place
    <2> QED
      BY <1>7, <1>8, FS_Injection
  <1> QED
    BY <1>1, <1>7, <1>9 DEF Bijection

(* How many items a page has.                                              *)
LEMMA PageSize ==
    ASSUME NEW rows, IsFiniteSet(rows), NEW times,
           \A a \in rows : times[a] \in Int,
           \A a, b \in rows : times[a] = times[b] => a = b,
           NEW offset \in Nat, NEW limit \in Nat
    PROVE  LET n == Cardinality(rows)
               page == {b \in rows : Place(times, rows, b) - offset \in 1..limit}
           IN  Cardinality(page) = IF n <= offset THEN 0
                                   ELSE IF n < offset + limit THEN n - offset
                                   ELSE limit
  <1> DEFINE n == Cardinality(rows)
             page == {b \in rows : Place(times, rows, b) - offset \in 1..limit}
             last == IF n < offset + limit THEN n ELSE offset + limit
             place == [b \in page |-> Place(times, rows, b)]
             all == [b \in rows |-> Place(times, rows, b)]
  <1>1. n \in Nat /\ all \in Bijection(rows, 1..n)
    BY PlacesAreCounted
  <1>2. /\ \A b \in rows : Place(times, rows, b) \in 1..n
        /\ \A a, b \in rows : Place(times, rows, a) = Place(times, rows, b) => a = b
        /\ \A k \in 1..n : \E b \in rows : Place(times, rows, b) = k
    BY <1>1 DEF Bijection, Injection, IsInjective, Surjection
  <1>3. last \in Int
    BY <1>1
  <1>4. \A k \in (offset + 1)..last : k \in 1..n /\ k - offset \in 1..limit
    BY <1>1
  <1>5. \A k \in 1..n : k - offset \in 1..limit => k \in (offset + 1)..last
    BY <1>1
  <1>6. place \in [page -> (offset + 1)..last]
    BY <1>2, <1>5
  <1>7. place \in Injection(page, (offset + 1)..last)
    BY <1>2, <1>6 DEF Injection, IsInjective
  <1>8. \A k \in (offset + 1)..last : \E b \in page : place[b] = k
    BY <1>2, <1>4
  <1>9. place \in Surjection(page, (offset + 1)..last)
    BY <1>6, <1>8 DEF Surjection
  <1>10. /\ IsFiniteSet((offset + 1)..last)
         /\ Cardinality((offset + 1)..last)
              = IF offset + 1 > last THEN 0 ELSE last - (offset + 1) + 1
    <2> HIDE DEF last
    <2>1. offset + 1 \in Int
      OBVIOUS
    <2> QED
      BY <1>3, <2>1, FS_Interval
  <1>11. Cardinality(page) = Cardinality((offset + 1)..last)
    <2> HIDE DEF page, place, last
    <2> QED
      BY <1>7, <1>9, <1>10, FS_Injection
  <1>12. Cardinality(page) = IF n <= offset THEN 0
                             ELSE IF n < offset + limit THEN n - offset ELSE limit
    <2> HIDE DEF page
    <2> QED
      BY <1>1, <1>10, <1>11
  <1> QED
    BY <1>12
-----------------------------------------------------------------------------
(* The rows of table are in later, at the same times and of the same       *)
(* owners.                                                                 *)
Keeps(table, times, later, laterTimes) ==
    \A b \in RowsOf(table) :
        /\ b \in RowsOf(later)
        /\ laterTimes[b] = times[b]
        /\ later[b].owner = table[b].owner

LEMMA MethodsKeepOwner ==
    ASSUME NEW bk \in Booking
    PROVE  LET SameOwner(new) == new \in Booking /\ new.owner = bk.owner
           IN  /\ \A r \in Runners : SameOwner(AfterAccept(bk, r))
               /\ SameOwner(AfterStartDelivery(bk))
               /\ SameOwner(AfterConfirmDelivery(bk))
               /\ SameOwner(AfterComplete(bk, bk.estimatedPrice))
               /\ SameOwner(AfterCancel(bk))
               /\ SameOwner(AfterDecline(bk))
  BY DEF Booking, Status, AfterAccept, AfterStartDelivery, AfterConfirmDelivery,
         AfterComplete, AfterCancel, AfterDecline

(* A method of a booking keeps the rows and their owners.                  *)
LEMMA BecomesKeepsRows ==
    ASSUME TableOK(bookings, created), NEW b \in Bookings, NEW new,
           Becomes(b, new), UNCHANGED created,
           bookings[b] \in Booking => new \in Booking /\ new.owner = bookings[b].owner
    PROVE  /\ TableOK(bookings', created')
           /\ Keeps(bookings, created, bookings', created')
  <1>1. /\ bookings \in [Bookings -> Booking \cup {NoBooking}]
        /\ bookings[b] # NoBooking /\ bookings' = [bookings EXCEPT ![b] = new]
    BY DEF Becomes, Exists, TableOK
  <1>2. new \in Booking /\ new.owner = bookings[b].owner /\ NoBooking \notin Booking
    BY <1>1, AggregateAssumption
  <1>3. /\ bookings' \in [Bookings -> Booking \cup {NoBooking}]
        /\ bookings'[b] = new /\ \A c \in Bookings \ {b} : bookings'[c] = bookings[c]
    BY <1>1, <1>2
  <1>4. RowsOf(bookings') = RowsOf(bookings)
    BY <1>1, <1>2, <1>3 DEF RowsOf
  <1>5. \A c \in Bookings : bookings'[c].owner = bookings[c].owner
    BY <1>2, <1>3
  <1> QED
    BY <1>3, <1>4, <1>5 DEF TableOK, Keeps, RowsOf

LEMMA NewBookingType ==
    ASSUME NEW o \in Owners, NEW n \in Numbers, NEW s \in Specs, MayCreate(s)
    PROVE  NewBooking(o, n, s) \in Booking
  <1>1. Quote[s] \in Nat \ {0}
    BY AggregateAssumption DEF MayCreate
  <1> QED
    BY <1>1 DEF NewBooking, Booking, Status

LEMMA CreateKeepsRows ==
    ASSUME TableOK(bookings, created), NEW b \in Bookings, CreateAt(b)
    PROVE  /\ TableOK(bookings', created')
           /\ Keeps(bookings, created, bookings', created')
  <1>1. PICK o \in Owners, n \in Numbers, s \in Specs :
          /\ MayCreate(s)
          /\ bookings' = [bookings EXCEPT ![b] = NewBooking(o, n, s)]
    BY DEF CreateAt, Create
  <1>2. PICK t \in Times \ {created[c] : c \in Bookings} :
          created' = [created EXCEPT ![b] = t]
    BY DEF CreateAt
  <1> DEFINE new == NewBooking(o, n, s)
  <1>4. new \in Booking /\ new # NoBooking
    BY <1>1, NewBookingType, AggregateAssumption
  <1>5. /\ bookings \in [Bookings -> Booking \cup {NoBooking}]
        /\ created \in [Bookings -> Times \cup {0}]
        /\ bookings[b] = NoBooking
    BY DEF TableOK, CreateAt, Create, Exists
  <1>6. /\ bookings' \in [Bookings -> Booking \cup {NoBooking}]
        /\ bookings'[b] = new /\ \A c \in Bookings \ {b} : bookings'[c] = bookings[c]
    <2> HIDE DEF new
    <2> QED
      BY <1>1, <1>4, <1>5 DEF new
  <1>7. /\ created' \in [Bookings -> Times \cup {0}]
        /\ created'[b] = t /\ \A c \in Bookings \ {b} : created'[c] = created[c]
        /\ \A c \in Bookings : created[c] # t
    BY <1>2, <1>5
  <1>8. RowsOf(bookings') = RowsOf(bookings) \cup {b} /\ b \notin RowsOf(bookings)
    <2> HIDE DEF new
    <2> QED
      BY <1>4, <1>5, <1>6 DEF RowsOf
  <1>9. IsFiniteSet(RowsOf(bookings'))
    BY <1>8, FS_AddElement DEF TableOK
  <1>10. \A a, c \in RowsOf(bookings') : created'[a] = created'[c] => a = c
    BY <1>7, <1>8 DEF TableOK, RowsOf
  <1>11. \A c \in RowsOf(bookings) : c # b /\ c \in Bookings
    BY <1>8 DEF RowsOf
  <1> QED
    BY <1>6, <1>7, <1>8, <1>9, <1>10, <1>11 DEF TableOK, Keeps

LEMMA ChangeKeepsRows ==
    ASSUME TableOK(bookings, created), NEW b \in Bookings, ChangeStatus(b)
    PROVE  /\ TableOK(bookings', created')
           /\ Keeps(bookings, created, bookings', created')
  <1>1. \/ \E r \in Runners : Becomes(b, AfterAccept(bookings[b], r))
        \/ Becomes(b, AfterDecline(bookings[b]))
        \/ Becomes(b, AfterStartDelivery(bookings[b]))
        \/ Becomes(b, AfterConfirmDelivery(bookings[b]))
        \/ Becomes(b, AfterComplete(bookings[b], bookings[b].estimatedPrice))
        \/ Becomes(b, AfterCancel(bookings[b]))
    BY DEF ChangeStatus, Accept, Decline, StartDelivery, ConfirmDelivery, Complete,
           Cancel
  <1>2. UNCHANGED created
    BY DEF ChangeStatus
  <1> QED
    BY <1>1, <1>2, BecomesKeepsRows, MethodsKeepOwner

LEMMA WriteKeepsRows ==
    ASSUME TableOK(bookings, created), Write
    PROVE  /\ TableOK(bookings', created')
           /\ Keeps(bookings, created, bookings', created')
  BY CreateKeepsRows, ChangeKeepsRows DEF Write
-----------------------------------------------------------------------------
LEMMA ListedRows ==
    ASSUME NEW table, NEW times, TableOK(table, times), NEW list
    PROVE  /\ Listed(table, list) \subseteq RowsOf(table)
           /\ IsFiniteSet(Listed(table, list))
           /\ Cardinality(Listed(table, list)) \in Nat
           /\ \A a \in Listed(table, list) : times[a] \in Int
           /\ \A a, b \in Listed(table, list) : times[a] = times[b] => a = b
  <1>1. Listed(table, list) \in SUBSET RowsOf(table)
    BY DEF Listed, RowsOf
  <1>2. ASSUME NEW a \in RowsOf(table) PROVE times[a] \in Int
    <2>1. times \in [Bookings -> Times \cup {0}] /\ a \in Bookings
      BY DEF TableOK, RowsOf
    <2>2. times[a] \in Times \cup {0}
      BY <2>1
    <2>3. \A t \in Times : t \in Nat
      BY QueriesAssumption
    <2>4. times[a] \in Nat
      BY <2>2, <2>3
    <2> QED
      BY <2>4
  <1>3. IsFiniteSet(Listed(table, list))
    BY <1>1, FS_Subset DEF TableOK
  <1> QED
    BY <1>1, <1>2, <1>3, FS_CardinalityType DEF TableOK

(* Places only grow in a list that loses no row.                           *)
LEMMA PlacesGrow ==
    ASSUME NEW table, NEW times, NEW later, NEW laterTimes,
           TableOK(table, times), TableOK(later, laterTimes),
           Keeps(table, times, later, laterTimes),
           NEW list, Listed(table, list) \subseteq Listed(later, list)
    PROVE  /\ Cardinality(Listed(table, list)) <= Cardinality(Listed(later, list))
           /\ \A b \in Listed(table, list) :
                /\ Place(times, Listed(table, list), b) \in Nat
                /\ Place(laterTimes, Listed(later, list), b) \in Nat
                /\ Place(times, Listed(table, list), b)
                     <= Place(laterTimes, Listed(later, list), b)
  <1> DEFINE rows == Listed(table, list)
             laterRows == Listed(later, list)
  <1>1. IsFiniteSet(laterRows) /\ rows \in SUBSET laterRows
    BY ListedRows
  <1>2. \A a \in rows : laterTimes[a] = times[a]
    BY ListedRows DEF Keeps
  <1>3. ASSUME NEW b \in rows
        PROVE  /\ Newer(times, rows, b) \in SUBSET Newer(laterTimes, laterRows, b)
               /\ IsFiniteSet(Newer(laterTimes, laterRows, b))
    <2> HIDE DEF rows, laterRows
    <2>1. Newer(laterTimes, laterRows, b) \in SUBSET laterRows
      BY DEF Newer
    <2>2. Newer(times, rows, b) \in SUBSET Newer(laterTimes, laterRows, b)
      BY <1>1, <1>2 DEF Newer
    <2> QED
      BY <1>1, <2>1, <2>2, FS_Subset
  <1> QED
    BY <1>1, <1>3, FS_Subset, FS_CardinalityType DEF Place

LEMMA OffsetType ==
    ASSUME NEW page \in Nat \ {0}, NEW limit \in Nat
    PROVE  /\ Offset(page, limit) \in Nat
           /\ Offset(page + 1, limit) = Offset(page, limit) + limit
           /\ Offset(1, limit) = 0
  <1>1. PICK m \in Nat : page = m + 1
    <2>1. page - 1 \in Nat /\ page = (page - 1) + 1
      OBVIOUS
    <2> QED
      BY <2>1
  <1>2. page - 1 = m /\ page + 1 - 1 = m + 1
    BY <1>1
  <1>3. m * limit \in Nat /\ (m + 1) * limit = m * limit + limit
    BY <1>1
  <1>4. (1 - 1) * limit = 0
    OBVIOUS
  <1> QED
    BY <1>2, <1>3, <1>4 DEF Offset

LEMMA QueryTypes ==
    ASSUME NEW q \in Query
    PROVE  /\ q.limit \in Nat \ {0} /\ q.page \in Nat \ {0} /\ q.total \in Nat
           /\ Offset(q.page, q.limit) \in Nat /\ ReadTo(q) \in Nat
           /\ q.stage # "idle" /\ q.left \in BOOLEAN /\ q.list \in Lists
  <1>1. q.limit \in Nat \ {0} /\ q.page \in Nat \ {0} /\ q.page + 1 \in Nat \ {0}
    BY QueriesAssumption DEF Query
  <1>2. Offset(q.page, q.limit) \in Nat /\ Offset(q.page + 1, q.limit) \in Nat
    BY <1>1, OffsetType
  <1> QED
    BY <1>1, <1>2 DEF Query, ReadTo

(* What a change of the table means to a list keeps the promise, whichever *)
(* row it is about.                                                        *)
LEMMA NoticeKeeps ==
    ASSUME NEW table, NEW times, NEW later, NEW laterTimes,
           TableOK(table, times), TableOK(later, laterTimes),
           Keeps(table, times, later, laterTimes),
           NEW q \in Query, QueryOK(q, table, times)
    PROVE  LET gone == Listed(table, q.list) \ Listed(later, q.list)
               n == [q EXCEPT !.wanted = @ \ gone, !.left = @ \/ gone # {}]
           IN  n \in Query /\ QueryOK(n, later, laterTimes)
  <1> DEFINE rows == Listed(table, q.list)
             laterRows == Listed(later, q.list)
             gone == rows \ laterRows
             n == [q EXCEPT !.wanted = @ \ gone, !.left = @ \/ gone # {}]
  <1>1. /\ n \in Query /\ n.stage = q.stage /\ n.list = q.list /\ n.page = q.page
        /\ n.limit = q.limit /\ n.total = q.total /\ n.items = q.items
        /\ n.seen = q.seen /\ n.wanted = q.wanted \ gone
        /\ n.left = (q.left \/ gone # {})
    <2> HIDE DEF gone
    <2> QED
      BY DEF Query
  <1>2. q.stage # "idle"
    BY QueryTypes
  <1>3. q.list.by # "runner" => gone = {}
    <2>1. \A b \in RowsOf(table) : b \in RowsOf(later) /\ later[b].owner = table[b].owner
      BY DEF Keeps
    <2> QED
      BY <2>1 DEF Listed, RowsOf
  <1>4. q.list.by # "runner" => ~ n.left
    BY <1>1, <1>2, <1>3 DEF QueryOK
  <1>5. ASSUME ~ n.left PROVE NothingSkipped(n, later, laterTimes)
    <2>1. ~ q.left /\ gone = {}
      BY <1>1, <1>5
    <2>2. NothingSkipped(q, table, times) /\ n.wanted = q.wanted
      BY <1>1, <1>2, <2>1 DEF QueryOK
    <2>3. rows \subseteq laterRows
      BY <2>1
    <2>4. /\ Cardinality(rows) \in Nat /\ Cardinality(laterRows) \in Nat
          /\ Cardinality(rows) <= Cardinality(laterRows)
          /\ \A b \in rows : /\ Place(times, rows, b) \in Nat
                             /\ Place(laterTimes, laterRows, b) \in Nat
                             /\ Place(times, rows, b) <= Place(laterTimes, laterRows, b)
      BY <2>3, PlacesGrow, ListedRows
    <2>5. ReadTo(n) = ReadTo(q) /\ ReadTo(q) \in Nat /\ n.total \in Nat
      BY <1>1, QueryTypes DEF ReadTo
    <2>6. n.stage = "answered" => EnoughItems(n)
      BY <1>1, <2>2 DEF EnoughItems, NothingSkipped
    <2>7. n.wanted \subseteq laterRows
      BY <2>2, <2>3 DEF NothingSkipped
    <2>8. n.stage = "page" => n.total <= Cardinality(laterRows)
      <3> HIDE DEF rows, laterRows, n
      <3>1. q.stage = "page" => q.total <= Cardinality(rows)
        BY <2>2 DEF NothingSkipped, rows
      <3> QED
        BY <1>1, <2>4, <2>5, <3>1
    <2>9. ASSUME NEW b \in n.wanted \ n.seen
          PROVE  /\ n.stage # "done"
                 /\ n.stage = "answered" => ~ (Cardinality(n.items) < n.limit)
                 /\ Place(laterTimes, laterRows, b) > ReadTo(n)
      <3>1. b \in q.wanted \ q.seen
        BY <1>1, <2>2, <2>9
      <3>2. /\ q.stage # "done"
            /\ q.stage = "answered" => ~ (Cardinality(q.items) < q.limit)
            /\ Place(times, rows, b) > ReadTo(q) /\ b \in rows
        BY <2>2, <3>1 DEF NothingSkipped
      <3> HIDE DEF rows, laterRows, n
      <3> QED
        BY <1>1, <2>4, <2>5, <3>2
    <2> QED
      <3> HIDE DEF n, gone
      <3> QED
        BY <1>1, <2>6, <2>7, <2>8, <2>9 DEF NothingSkipped, laterRows
  <1>6. Cardinality(n.items) <= n.limit
    BY <1>1, <1>2 DEF QueryOK
  <1> QED
    <2> HIDE DEF n
    <2>1. n \in Query /\ QueryOK(n, later, laterTimes)
      BY <1>1, <1>4, <1>5, <1>6 DEF QueryOK
    <2> QED
      BY <2>1 DEF n, gone

(* A client's new state that fits the table keeps the invariant.           *)
LEMMA AskKeeps ==
    ASSUME QueryInv, NEW c \in Clients, NEW q, Ask(c, q),
           q \in Query, QueryOK(q, bookings, created)
    PROVE  QueryInv'
  <1>1. /\ query \in [Clients -> {NoQuery} \cup Query]
        /\ query' = [query EXCEPT ![c] = q]
        /\ bookings' = bookings /\ created' = created
    BY DEF QueryInv, Ask, vars
  <1>2. /\ query' \in [Clients -> {NoQuery} \cup Query] /\ query'[c] = q
        /\ \A d \in Clients \ {c} : query'[d] = query[d]
    BY <1>1
  <1>3. \A d \in Clients : QueryOK(query'[d], bookings', created')
    BY <1>1, <1>2 DEF QueryInv
  <1> QED
    BY <1>1, <1>2, <1>3 DEF QueryInv

LEMMA AskedQuery ==
    ASSUME QueryInv, NEW c \in Clients, query[c].stage # "idle"
    PROVE  query[c] \in Query /\ QueryOK(query[c], bookings, created)
  BY DEF QueryInv, NoQuery

LEMMA LimitOfType ==
    ASSUME NEW list, NEW n \in Limits
    PROVE  LimitOf(list, n) \in 1..MaxLimit
  BY QueriesAssumption DEF LimitOf

LEMMA ListBookingsKeeps ==
    ASSUME QueryInv, NEW c \in Clients, NEW list \in Lists, NEW n \in Limits,
           ListBookings(c, list, n)
    PROVE  QueryInv'
  <1> DEFINE rows == Listed(bookings, list)
             q == [stage |-> "count", list |-> list, page |-> 1,
                   limit |-> LimitOf(list, n), total |-> 0, items |-> {},
                   seen |-> {}, wanted |-> rows, left |-> FALSE]
  <1>1. Ask(c, q)
    BY DEF ListBookings
  <1>2. q.limit \in 1..MaxLimit /\ q.limit \in Nat
    BY LimitOfType, QueriesAssumption
  <1>3. q \in Query
    BY <1>2, LimitOfType DEF Query, Listed
  <1>4. Cardinality(q.items) <= q.limit
    BY <1>2, FS_EmptySet
  <1>5. ReadTo(q) = 0
    BY <1>2, OffsetType DEF ReadTo
  <1>6. \A b \in rows : Place(created, rows, b) > 0
    <2>1. /\ Cardinality(rows) \in Nat
          /\ [b \in rows |-> Place(created, rows, b)] \in Bijection(rows, 1..Cardinality(rows))
      <3> HIDE DEF rows
      <3> QED
        BY PlacesAreCounted, ListedRows DEF QueryInv, rows
    <2>2. \A b \in rows : Place(created, rows, b) \in 1..Cardinality(rows)
      BY <2>1 DEF Bijection, Injection
    <2> QED
      BY <2>1, <2>2
  <1>7. NothingSkipped(q, bookings, created)
    BY <1>5, <1>6 DEF NothingSkipped
  <1>8. QueryOK(q, bookings, created)
    BY <1>3, <1>4, <1>7 DEF QueryOK
  <1> QED
    BY <1>1, <1>3, <1>8, AskKeeps

LEMMA CountKeeps ==
    ASSUME QueryInv, NEW c \in Clients, Count(c)
    PROVE  QueryInv'
  <1>1. PICK p : p = query[c]
    OBVIOUS
  <1> DEFINE rows == Listed(bookings, p.list)
             q == [p EXCEPT !.stage = "page", !.total = Cardinality(rows)]
  <1>2. p.stage = "count" /\ Ask(c, q)
    BY <1>1 DEF Count
  <1>3. p \in Query /\ QueryOK(p, bookings, created)
    BY <1>1, <1>2, AskedQuery
  <1>4. Cardinality(rows) \in Nat
    BY ListedRows DEF QueryInv
  <1>5. /\ q \in Query /\ q.stage = "page" /\ q.total = Cardinality(rows)
        /\ q.list = p.list /\ q.page = p.page /\ q.limit = p.limit
        /\ q.items = p.items /\ q.seen = p.seen /\ q.wanted = p.wanted
        /\ q.left = p.left
    <2> HIDE DEF rows
    <2> QED
      BY <1>3, <1>4 DEF Query
  <1>6. ReadTo(q) = ReadTo(p)
    BY <1>2, <1>5 DEF ReadTo
  <1>7. QueryOK(q, bookings, created)
    <2> HIDE DEF q
    <2>1. NothingSkipped(p, bookings, created) => NothingSkipped(q, bookings, created)
      BY <1>2, <1>4, <1>5, <1>6 DEF NothingSkipped
    <2> QED
      BY <1>2, <1>3, <1>5, <2>1 DEF QueryOK
  <1> QED
    BY <1>2, <1>5, <1>7, AskKeeps

(* Reading a page: its items are exactly the next places.                  *)
LEMMA ReadPageKeeps ==
    ASSUME QueryInv, NEW c \in Clients, ReadPage(c)
    PROVE  QueryInv'
  <1>1. PICK p : p = query[c]
    OBVIOUS
  <1> DEFINE rows == Listed(bookings, p.list)
             items == PageOf(rows, p.page, p.limit)
             q == [p EXCEPT !.stage = "answered", !.items = items,
                            !.seen = @ \cup items]
             n == Cardinality(rows)
             offset == Offset(p.page, p.limit)
  <1>2. p.stage = "page" /\ Ask(c, q)
    BY <1>1 DEF ReadPage
  <1>3. p \in Query /\ QueryOK(p, bookings, created)
    BY <1>1, <1>2, AskedQuery
  <1>4. items \in SUBSET Bookings
    BY DEF PageOf, Listed
  <1>5. /\ q \in Query /\ q.stage = "answered" /\ q.total = p.total
        /\ q.list = p.list /\ q.page = p.page /\ q.limit = p.limit
        /\ q.items = items /\ q.seen = p.seen \cup items /\ q.wanted = p.wanted
        /\ q.left = p.left
    <2> HIDE DEF items
    <2> QED
      BY <1>3, <1>4 DEF Query
  <1>6. /\ n \in Nat /\ offset \in Nat /\ p.limit \in Nat \ {0} /\ p.total \in Nat
        /\ \A b \in rows : Place(created, rows, b) \in 1..n
    <2>1. /\ n \in Nat
          /\ [b \in rows |-> Place(created, rows, b)] \in Bijection(rows, 1..n)
      <3> HIDE DEF rows
      <3> QED
        BY PlacesAreCounted, ListedRows DEF QueryInv, rows
    <2> QED
      BY <1>3, <2>1, QueryTypes DEF Bijection, Injection
  <1>7. items = {b \in rows : Place(created, rows, b) - offset \in 1..p.limit}
    BY DEF PageOf, Rank, Place, Newer
  <1>8. Cardinality(items) = IF n <= offset THEN 0
                             ELSE IF n < offset + p.limit THEN n - offset ELSE p.limit
    <2>1. /\ IsFiniteSet(rows) /\ \A a \in rows : created[a] \in Int
          /\ \A a, b \in rows : created[a] = created[b] => a = b
      BY ListedRows DEF QueryInv
    <2>2. offset \in Nat /\ p.limit \in Nat
      BY <1>6
    <2> HIDE DEF rows, items, offset
    <2>3. LET page == {b \in rows : Place(created, rows, b) - offset \in 1..p.limit}
          IN  Cardinality(page) = IF n <= offset THEN 0
                                  ELSE IF n < offset + p.limit THEN n - offset
                                  ELSE p.limit
      BY <2>1, <2>2, PageSize
    <2> QED
      BY <1>7, <2>3
  <1>9. ReadTo(p) = offset /\ ReadTo(q) = offset + p.limit
    BY <1>2, <1>5, <1>6, <1>3, OffsetType, QueryTypes DEF ReadTo
  <1>10. ASSUME NothingSkipped(p, bookings, created)
         PROVE  NothingSkipped(q, bookings, created)
    <2>1. /\ p.wanted \subseteq rows /\ p.total <= n
          /\ \A b \in p.wanted \ p.seen : Place(created, rows, b) > offset
      BY <1>2, <1>9, <1>10 DEF NothingSkipped
    <2>2. EnoughItems(q)
      <3> HIDE DEF items, offset, n, q
      <3> QED
        BY <1>5, <1>6, <1>8, <2>1 DEF EnoughItems, offset
    <2>3. ASSUME NEW b \in p.wanted \ (p.seen \cup items)
          PROVE  /\ ~ (Cardinality(items) < p.limit)
                 /\ Place(created, rows, b) > offset + p.limit
      <3>1. /\ Place(created, rows, b) > offset /\ Place(created, rows, b) \in 1..n
            /\ ~ (Place(created, rows, b) - offset \in 1..p.limit)
        BY <1>6, <1>7, <2>1, <2>3
      <3> HIDE DEF items, offset, n, rows
      <3> QED
        BY <1>6, <1>8, <3>1
    <2> HIDE DEF q, items, offset
    <2> QED
      BY <1>5, <1>9, <2>1, <2>2, <2>3 DEF NothingSkipped
  <1>11. Cardinality(q.items) <= q.limit
    <2> HIDE DEF q, items, offset, n
    <2> QED
      BY <1>5, <1>6, <1>8
  <1>12. QueryOK(q, bookings, created)
    <2> HIDE DEF q
    <2> QED
      BY <1>2, <1>3, <1>5, <1>10, <1>11 DEF QueryOK
  <1> QED
    BY <1>2, <1>5, <1>12, AskKeeps

LEMMA TurnPageKeeps ==
    ASSUME QueryInv, NEW c \in Clients, NextPage(c) \/ LastPage(c)
    PROVE  QueryInv'
  <1>1. PICK p : p = query[c]
    OBVIOUS
  <1> DEFINE next == [p EXCEPT !.stage = "count", !.page = @ + 1,
                               !.total = 0, !.items = {}]
             last == [p EXCEPT !.stage = "done", !.total = 0, !.items = {}]
  <1>2. /\ p.stage = "answered"
        /\ \/ Ask(c, next)
           \/ Cardinality(p.items) < p.limit /\ Ask(c, last)
    BY <1>1 DEF NextPage, LastPage
  <1>3. p \in Query /\ QueryOK(p, bookings, created)
    BY <1>1, <1>2, AskedQuery
  <1>4. /\ p.limit \in Nat /\ p.page \in Nat \ {0} /\ p.page + 1 \in Nat \ {0}
        /\ Cardinality({}) = 0
    BY <1>3, QueryTypes, FS_EmptySet
  <1>5. next \in Query /\ QueryOK(next, bookings, created)
    <2>1. /\ next \in Query /\ next.stage = "count" /\ next.page = p.page + 1
          /\ next.list = p.list /\ next.limit = p.limit /\ next.items = {}
          /\ next.seen = p.seen /\ next.wanted = p.wanted /\ next.left = p.left
      BY <1>3, <1>4 DEF Query
    <2> HIDE DEF next
    <2>2. ReadTo(next) = ReadTo(p)
      BY <1>2, <2>1 DEF ReadTo
    <2>3. NothingSkipped(p, bookings, created) => NothingSkipped(next, bookings, created)
      BY <1>2, <2>1, <2>2 DEF NothingSkipped
    <2> QED
      BY <1>2, <1>3, <1>4, <2>1, <2>3 DEF QueryOK
  <1>6. ASSUME Cardinality(p.items) < p.limit
        PROVE  last \in Query /\ QueryOK(last, bookings, created)
    <2>1. /\ last \in Query /\ last.stage = "done" /\ last.list = p.list
          /\ last.limit = p.limit /\ last.items = {} /\ last.seen = p.seen
          /\ last.wanted = p.wanted /\ last.left = p.left
      BY <1>3 DEF Query
    <2> HIDE DEF last
    <2>2. NothingSkipped(p, bookings, created) => NothingSkipped(last, bookings, created)
      BY <1>2, <1>6, <2>1 DEF NothingSkipped
    <2> QED
      BY <1>2, <1>3, <1>4, <2>1, <2>2 DEF QueryOK
  <1> QED
    BY <1>2, <1>5, <1>6, AskKeeps

LEMMA WriteKeeps == QueryInv /\ Write => QueryInv'
  <1> SUFFICES ASSUME QueryInv, Write PROVE QueryInv'
    OBVIOUS
  <1>1. /\ TableOK(bookings, created) /\ TableOK(bookings', created')
        /\ Keeps(bookings, created, bookings', created')
    BY WriteKeepsRows DEF QueryInv
  <1>2. query' = [c \in Clients |-> Notice(query[c])]
    BY DEF Write
  <1>3. ASSUME NEW c \in Clients
        PROVE  /\ query'[c] \in {NoQuery} \cup Query
               /\ QueryOK(query'[c], bookings', created')
    <2>1. PICK q : q = query[c]
      OBVIOUS
    <2>2. q \in {NoQuery} \cup Query /\ QueryOK(q, bookings, created)
      BY <2>1 DEF QueryInv
    <2>3. CASE q = NoQuery
      <3>1. query'[c] = NoQuery
        BY <1>2, <2>1, <2>3 DEF Notice, NoQuery
      <3> QED
        BY <3>1 DEF QueryOK, NoQuery
    <2>4. CASE q \in Query
      <3> DEFINE gone == Listed(bookings, q.list) \ Listed(bookings', q.list)
      <3>1. query'[c] = [q EXCEPT !.wanted = @ \ gone, !.left = @ \/ gone # {}]
        BY <1>2, <2>1, <2>4, QueryTypes DEF Notice
      <3>2. LET n == [q EXCEPT !.wanted = @ \ gone, !.left = @ \/ gone # {}]
            IN  n \in Query /\ QueryOK(n, bookings', created')
        BY <1>1, <2>2, <2>4, NoticeKeeps
      <3> QED
        BY <3>1, <3>2
    <2> QED
      BY <2>2, <2>3, <2>4
  <1>4. query' \in [Clients -> {NoQuery} \cup Query]
    BY <1>2, <1>3
  <1> QED
    BY <1>1, <1>3, <1>4 DEF QueryInv

LEMMA QueryStep == QueryInv /\ [QueryNext]_listVars => QueryInv'
  <1> SUFFICES ASSUME QueryInv, [QueryNext]_listVars PROVE QueryInv'
    OBVIOUS
  <1>1. CASE Write
    BY <1>1, WriteKeeps
  <1>2. ASSUME NEW c \in Clients, Read(c) PROVE QueryInv'
    BY <1>2, ListBookingsKeeps, CountKeeps, ReadPageKeeps, TurnPageKeeps DEF Read
  <1>3. CASE UNCHANGED listVars
    BY <1>3 DEF listVars, vars, queryVars, QueryInv
  <1> QED
    BY <1>1, <1>2, <1>3 DEF QueryNext

LEMMA QueryInitHolds == QueryInit => QueryInv
  <1> SUFFICES ASSUME QueryInit PROVE QueryInv
    OBVIOUS
  <1>1. /\ bookings = [b \in Bookings |-> NoBooking]
        /\ created = [b \in Bookings |-> 0]
        /\ query = [c \in Clients |-> NoQuery]
    BY DEF QueryInit, Init
  <1>2. RowsOf(bookings) = {}
    BY <1>1 DEF RowsOf
  <1>3. TableOK(bookings, created)
    BY <1>1, <1>2, FS_EmptySet DEF TableOK
  <1>4. \A c \in Clients : QueryOK(query[c], bookings, created)
    BY <1>1 DEF QueryOK, NoQuery
  <1> QED
    BY <1>1, <1>3, <1>4 DEF QueryInv
-----------------------------------------------------------------------------
(* The inductive invariant of the lists holds in every reachable state.    *)
THEOREM QueriesCorrect == QuerySpec => []QueryInv
  BY QueryInitHolds, QueryStep, PTL DEF QuerySpec

(* No page has more items than its limit, whatever limit was asked for.    *)
THEOREM QueryTypeCorrect == QuerySpec => []QueryTypeOK
  <1>1. QueryInv => QueryTypeOK
    BY DEF QueryInv, TableOK, QueryOK, QueryTypeOK
  <1> QED
    BY <1>1, QueriesCorrect, PTL

(* However many pages a list has, however many clients read it and         *)
(* wherever bookings are inserted meanwhile, a client that reads to the    *)
(* end has seen every booking that was in the list all the time, if no row *)
(* left the list; no row leaves an owner's list, nor the list of all.      *)
THEOREM NoneIsMissed == QuerySpec => []NoneMissed
  <1>1. QueryInv => NoneMissed
    <2> SUFFICES ASSUME QueryInv, NEW c \in Clients, query[c].stage = "done",
                        query[c].list.by = "runner" => ~ query[c].left
                 PROVE  query[c].wanted \subseteq query[c].seen
      BY DEF NoneMissed
    <2>1. QueryOK(query[c], bookings, created)
      BY DEF QueryInv
    <2> QED
      BY <2>1 DEF QueryOK, NothingSkipped
  <1> QED
    BY <1>1, QueriesCorrect, PTL

(* An answer has the items its total promises, though the rows are counted *)
(* and read by two statements, as long as no row leaves the list.          *)
THEOREM AnswersAreFull == QuerySpec => []AnswersFull
  <1>1. QueryInv => AnswersFull
    <2> SUFFICES ASSUME QueryInv, NEW c \in Clients, query[c].stage = "answered",
                        ~ query[c].left
                 PROVE  EnoughItems(query[c])
      BY DEF AnswersFull, EnoughItems
    <2>1. QueryOK(query[c], bookings, created)
      BY DEF QueryInv
    <2> QED
      BY <2>1 DEF QueryOK, NothingSkipped
  <1> QED
    BY <1>1, QueriesCorrect, PTL
-----------------------------------------------------------------------------
(* Each booking is counted in one status.                                  *)
LEMMA TotalCountsRows ==
    QueryInv => TotalBookings = Cardinality(RowsOf(bookings))
  <1> SUFFICES ASSUME QueryInv
               PROVE  TotalBookings = Cardinality(RowsOf(bookings))
    OBVIOUS
  <1> DEFINE In(s) == {b \in Bookings : Exists(b) /\ bookings[b].status = s}
  <1>1. \A s \in Status : IsFiniteSet(In(s)) /\ Cardinality(In(s)) \in Nat
    <2>1. \A s \in Status : In(s) \in SUBSET RowsOf(bookings)
      BY DEF RowsOf, Exists
    <2>2. IsFiniteSet(RowsOf(bookings))
      BY DEF QueryInv, TableOK
    <2> HIDE DEF In
    <2> QED
      BY <2>1, <2>2, FS_Subset, FS_CardinalityType
  <1>2. /\ In("requested") \cap In("accepted") = {}
        /\ (In("requested") \cup In("accepted")) \cap In("in_progress") = {}
        /\ (In("requested") \cup In("accepted") \cup In("in_progress"))
             \cap In("delivered") = {}
        /\ (In("requested") \cup In("accepted") \cup In("in_progress")
             \cup In("delivered")) \cap In("completed") = {}
        /\ (In("requested") \cup In("accepted") \cup In("in_progress")
             \cup In("delivered") \cup In("completed")) \cap In("cancelled") = {}
    OBVIOUS
  <1>3. RowsOf(bookings) = In("requested") \cup In("accepted") \cup In("in_progress")
                             \cup In("delivered") \cup In("completed") \cup In("cancelled")
    <2>1. \A b \in RowsOf(bookings) : bookings[b].status \in Status
      BY DEF QueryInv, TableOK, RowsOf, Booking
    <2> QED
      BY <2>1 DEF RowsOf, Exists, Status
  <1>4. \A s \in Status : CountByStatus[s] = Cardinality(In(s))
    BY DEF CountByStatus
  <1> HIDE DEF In
  <1>5. ASSUME NEW S, NEW T, IsFiniteSet(S), IsFiniteSet(T), S \cap T = {}
        PROVE  /\ IsFiniteSet(S \cup T)
               /\ Cardinality(S \cup T) = Cardinality(S) + Cardinality(T)
    <2>1. /\ IsFiniteSet(S \cup T)
          /\ Cardinality(S \cup T) = Cardinality(S) + Cardinality(T) - Cardinality({})
      BY <1>5, FS_Union
    <2> QED
      BY <1>5, <2>1, FS_EmptySet, FS_CardinalityType
  <1>6. {"requested", "accepted", "in_progress", "delivered", "completed",
         "cancelled"} = Status
    BY DEF Status
  <1>7. TotalBookings = Cardinality(In("requested")) + Cardinality(In("accepted"))
          + Cardinality(In("in_progress")) + Cardinality(In("delivered"))
          + Cardinality(In("completed")) + Cardinality(In("cancelled"))
    BY <1>4, <1>6 DEF TotalBookings
  <1> DEFINE R == In("requested")
             A == R \cup In("accepted")
             I == A \cup In("in_progress")
             D == I \cup In("delivered")
             C == D \cup In("completed")
             L == C \cup In("cancelled")
  <1>8. /\ IsFiniteSet(A)
        /\ Cardinality(A) = Cardinality(R) + Cardinality(In("accepted"))
    BY <1>1, <1>2, <1>5 DEF Status
  <1>9. /\ IsFiniteSet(I)
        /\ Cardinality(I) = Cardinality(A) + Cardinality(In("in_progress"))
    <2> HIDE DEF A
    <2> QED
      BY <1>1, <1>2, <1>5, <1>8 DEF Status, A
  <1>10. /\ IsFiniteSet(D)
         /\ Cardinality(D) = Cardinality(I) + Cardinality(In("delivered"))
    BY <1>1, <1>2, <1>5, <1>9 DEF Status
  <1>11. /\ IsFiniteSet(C)
         /\ Cardinality(C) = Cardinality(D) + Cardinality(In("completed"))
    BY <1>1, <1>2, <1>5, <1>10 DEF Status
  <1>12. Cardinality(L) = Cardinality(C) + Cardinality(In("cancelled"))
    BY <1>1, <1>2, <1>5, <1>11 DEF Status
  <1>13. TotalBookings = Cardinality(L)
    <2> HIDE DEF A, I, D, C, L
    <2> QED
      BY <1>6, <1>7, <1>8, <1>9, <1>10, <1>11, <1>12 DEF R
  <1> QED
    BY <1>3, <1>13

(* The total of the statistics never drops, in no step of any number of    *)
(* bookings and clients: it is the number of rows, and none is deleted.    *)
THEOREM TotalNeverDrops == QuerySpec => StatsNeverDrop
  <1>1. ASSUME QueryInv, QueryInv', [QueryNext]_listVars
        PROVE  [TotalBookings' >= TotalBookings]_listVars
    <2>1. /\ TotalBookings = Cardinality(RowsOf(bookings))
          /\ TotalBookings' = Cardinality(RowsOf(bookings'))
      <3>1. (QueryInv => TotalBookings = Cardinality(RowsOf(bookings)))'
        BY TotalCountsRows, PTL
      <3> QED
        BY <1>1, <3>1, TotalCountsRows
    <2>2. IsFiniteSet(RowsOf(bookings')) /\ IsFiniteSet(RowsOf(bookings))
      BY <1>1 DEF QueryInv, TableOK
    <2>3. CASE Write
      <3>1. RowsOf(bookings) \in SUBSET RowsOf(bookings')
        BY <1>1, <2>3, WriteKeepsRows DEF QueryInv, Keeps
      <3> QED
        BY <2>1, <2>2, <3>1, FS_Subset, FS_CardinalityType
    <2>4. CASE UNCHANGED bookings
      BY <2>1, <2>2, <2>4, FS_CardinalityType
    <2>5. Write \/ UNCHANGED bookings
      BY <1>1 DEF QueryNext, Read, ListBookings, Count, ReadPage, NextPage, LastPage,
                  Ask, vars, listVars
    <2> QED
      BY <2>3, <2>4, <2>5
  <1>2. QueryInv /\ QueryInv' /\ [QueryNext]_listVars
          => [TotalBookings' >= TotalBookings]_listVars
    BY <1>1
  <1> QED
    BY <1>2, QueriesCorrect, PTL DEF QuerySpec, StatsNeverDrop
=============================================================================
