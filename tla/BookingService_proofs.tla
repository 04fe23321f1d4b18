----------------------- MODULE BookingService_proofs -----------------------
(***************************************************************************)
(* Proofs about BookingService, for every value of its constants.          *)
(***************************************************************************)
EXTENDS BookingService, TLAPS

(* The constructor of a valid request makes a booking.                     *)
LEMMA NewBookingType ==
    ASSUME NEW o \in Owners, NEW n \in Numbers, NEW s, MayCreate(s)
    PROVE  NewBooking(o, n, s) \in Booking
  <1>1. s \in Specs /\ Quote[s] \in Nat \ {0}
    BY AggregateAssumption DEF MayCreate
  <1> QED
    BY <1>1 DEF NewBooking, Booking, Status

(* The methods of the aggregate make bookings of bookings.                 *)
LEMMA MethodTypes ==
    ASSUME NEW bk \in Booking
    PROVE  /\ \A r \in Runners : AfterAccept(bk, r) \in Booking
           /\ AfterStartDelivery(bk) \in Booking
           /\ AfterConfirmDelivery(bk) \in Booking
           /\ AfterComplete(bk, bk.estimatedPrice) \in Booking
           /\ AfterCancel(bk) \in Booking
           /\ AfterDecline(bk) \in Booking
  BY DEF Booking, Status, AfterAccept, AfterStartDelivery, AfterConfirmDelivery,
         AfterComplete, AfterCancel, AfterDecline

(* Events of committed changes have the type of an event.                  *)
LEMMA EventTypes ==
    /\ \A b \in Bookings : RequestedEvent(b) \in Event
    /\ \A q \in UpdateRequest : q.op # "decline" => EventOf(q) \in Event
  BY DEF RequestedEvent, EventOf, Event, UpdateRequest, Booking, Operations

(* A worker that takes a request of the right type keeps TypeOK's conjunct *)
(* about requests.                                                         *)
LEMMA HoldType ==
    ASSUME TypeOK, NEW w \in Workers, NEW q \in AnyRequest, Hold(w, q),
           q.stage = "update" /\ q.op = "decline" => q.caller \in Runners
    PROVE  /\ request' \in [Workers -> AnyRequest]
           /\ \A v \in Workers :
                request'[v].stage = "update" /\ request'[v].op = "decline"
                    => request'[v].caller \in Runners
  BY DEF TypeOK, Hold

LEMMA IdleType == Idle \in AnyRequest /\ Idle.stage = "idle"
  BY DEF AnyRequest, Idle

(* What a stage says of the request that is in it.                         *)
LEMMA StageTypes ==
    ASSUME NEW q \in AnyRequest
    PROVE  /\ q.stage = "save" => q \in SaveRequest
           /\ q.stage = "update" => q \in UpdateRequest
           /\ q.stage = "publish" => q \in PublishRequest
  BY DEF AnyRequest, Idle, SaveRequest, UpdateRequest, PublishRequest

(* The two ways to write a row.                                            *)
LEMMA InsertType ==
    ASSUME TypeOK, NEW q \in SaveRequest, Insert(q)
    PROVE  /\ rows' \in [Bookings -> Row]
           /\ \A b \in Bookings : Present(b)' <=> rows'[b].bk # NoBooking
  BY AggregateAssumption DEF TypeOK, Insert, SaveRequest, Row, Present

LEMMA WriteType ==
    ASSUME TypeOK, NEW q \in UpdateRequest, Write(q),
           q.op = "decline" => q.caller \in Runners
    PROVE  /\ rows' \in [Bookings -> Row]
           /\ \A b \in Bookings : Present(b)' <=> rows'[b].bk # NoBooking
           /\ declines' \in [Bookings -> Seq(Runners)]
  <1>1. q.id \in Bookings /\ q.bk \in Booking /\ q.version \in Nat
    BY DEF UpdateRequest
  <1>2. q.version > 0
    BY <1>1 DEF TypeOK, Row, Write, Matches
  <1>3. rows' = [rows EXCEPT ![q.id] = [bk |-> q.bk, version |-> q.version]]
    BY DEF Write, WriteRow
  <1>4. rows' \in [Bookings -> Row]
    BY <1>1, <1>3 DEF TypeOK, Row
  <1>5. \A b \in Bookings : Present(b)' <=> rows'[b].bk # NoBooking
    BY <1>1, <1>2, <1>3, AggregateAssumption DEF TypeOK, Row, Present
  <1>6. declines' \in [Bookings -> Seq(Runners)]
    <2>1. CASE q.op = "decline"
      <3>1. q.caller \in Runners
        BY <2>1
      <3>2. declines \in [Bookings -> Seq(Runners)]
        BY DEF TypeOK
      <3>3. Append(declines[q.id], q.caller) \in Seq(Runners)
        BY <1>1, <3>1, <3>2
      <3>4. declines' = [declines EXCEPT ![q.id] = Append(declines[q.id], q.caller)]
        BY <2>1 DEF Write, RecordDecline
      <3> QED
        BY <1>1, <3>2, <3>3, <3>4
    <2>2. CASE q.op # "decline"
      BY <2>2 DEF TypeOK, Write
    <2> QED
      BY <2>1, <2>2
  <1> QED
    BY <1>4, <1>5, <1>6

(* The start of every handler but the two that create a booking.           *)
LEMMA HoldChangeType ==
    ASSUME TypeOK, NEW w \in Workers, NEW b \in Bookings, NEW op \in Operations,
           NEW r \in Runners \cup {None}, op = "decline" => r \in Runners,
           NEW bk \in Booking, HoldChange(w, b, op, r, bk)
    PROVE  TypeOK'
  <1> DEFINE q == [stage |-> "update", op |-> op, id |-> b, caller |-> r,
                   bk |-> bk, version |-> rows[b].version + 1]
  <1>1. q \in UpdateRequest /\ q.op = op /\ q.caller = r
    BY DEF TypeOK, Row, UpdateRequest
  <1>2. q \in AnyRequest
    BY <1>1 DEF AnyRequest
  <1>3. Hold(w, q) /\ UNCHANGED <<rows, declines, published, faults>>
    BY DEF HoldChange
  <1> HIDE DEF q
  <1> QED
    BY <1>1, <1>2, <1>3, HoldType DEF TypeOK, Present

(* Every step keeps the types.                                             *)
LEMMA TypeStep == TypeOK /\ [Next]_vars => TypeOK'
  <1> SUFFICES ASSUME TypeOK, [Next]_vars PROVE TypeOK'
    OBVIOUS
  <1>1. ASSUME NEW w \in Workers, NEW o \in Owners, NEW s, StartCreate(w, o, s)
        PROVE  TypeOK'
    <2>1. PICK b \in Bookings, n \in Numbers :
             Hold(w, [stage |-> "save", id |-> b, bk |-> NewBooking(o, n, s)])
      BY <1>1 DEF StartCreate
    <2> DEFINE q == [stage |-> "save", id |-> b, bk |-> NewBooking(o, n, s)]
    <2>2. NewBooking(o, n, s) \in Booking
      BY <1>1, NewBookingType DEF StartCreate
    <2>3. q \in AnyRequest /\ q.stage = "save"
      BY <2>2 DEF AnyRequest, SaveRequest
    <2>4. Hold(w, q) /\ UNCHANGED <<rows, declines, published, faults>>
      BY <1>1, <2>1 DEF StartCreate
    <2> HIDE DEF q
    <2> QED
      BY <2>3, <2>4, HoldType DEF TypeOK, Present
  <1>2. ASSUME NEW w \in Workers, CreateBooking(w) PROVE TypeOK'
    BY <1>1, <1>2 DEF CreateBooking
  <1>3. ASSUME NEW w \in Workers, NEW b \in Bookings, Handle(w, b) PROVE TypeOK'
    <2>1. CASE RebookBooking(w, b)
      BY <1>1, <2>1 DEF RebookBooking
    <2>2. ASSUME Loads(w, b) PROVE rows[b].bk \in Booking
      BY <2>2 DEF Loads, TypeOK, Row
    <2>3. ASSUME NEW r \in Runners, AcceptBooking(w, b, r) PROVE TypeOK'
      BY <2>2, <2>3, MethodTypes, HoldChangeType DEF AcceptBooking, Operations
    <2>4. ASSUME NEW r \in Runners, DeclineBooking(w, b, r) PROVE TypeOK'
      BY <2>2, <2>4, MethodTypes, HoldChangeType DEF DeclineBooking, Operations
    <2>5. CASE StartDelivery(w, b)
      BY <2>2, <2>5, MethodTypes, HoldChangeType DEF StartDelivery, Operations
    <2>6. CASE ConfirmDelivery(w, b)
      BY <2>2, <2>6, MethodTypes, HoldChangeType DEF ConfirmDelivery, Operations
    <2>7. CASE CompleteBooking(w, b)
      BY <2>2, <2>7, MethodTypes, HoldChangeType DEF CompleteBooking, Operations
    <2>8. CASE CancelBooking(w, b)
      BY <2>2, <2>8, MethodTypes, HoldChangeType DEF CancelBooking, Operations
    <2> QED
      BY <1>3, <2>1, <2>3, <2>4, <2>5, <2>6, <2>7, <2>8 DEF Handle
  <1>4. ASSUME NEW w \in Workers, Save(w) PROVE TypeOK'
    <2>1. request[w] \in SaveRequest
      BY <1>4, StageTypes DEF Save, TypeOK
    <2> DEFINE q == [stage |-> "publish", event |-> RequestedEvent(request[w].id)]
    <2>2. q \in AnyRequest /\ q.stage = "publish"
      BY <2>1, EventTypes DEF SaveRequest, PublishRequest, AnyRequest
    <2>3. Hold(w, q) /\ Insert(request[w]) /\ UNCHANGED <<declines, published, faults>>
      BY <1>4 DEF Save
    <2> HIDE DEF q
    <2> QED
      BY <2>1, <2>2, <2>3, HoldType, InsertType DEF TypeOK
  <1>5. ASSUME NEW w \in Workers, Hold(w, Idle),
               UNCHANGED <<rows, declines, published>>, faults' \in 0..MaxFaults
        PROVE  TypeOK'
    BY <1>5, IdleType, HoldType DEF TypeOK, Present
  <1>6. ASSUME NEW w \in Workers, request[w].stage = "update", Write(request[w])
        PROVE  /\ request[w] \in UpdateRequest
               /\ rows' \in [Bookings -> Row]
               /\ \A b \in Bookings : Present(b)' <=> rows'[b].bk # NoBooking
               /\ declines' \in [Bookings -> Seq(Runners)]
    <2>1. request[w] \in UpdateRequest
      BY <1>6, StageTypes DEF TypeOK
    <2>2. request[w].op = "decline" => request[w].caller \in Runners
      BY <1>6 DEF TypeOK
    <2> QED
      BY <1>6, <2>1, <2>2, WriteType
  <1>7. ASSUME NEW w \in Workers, Commit(w) PROVE TypeOK'
    <2> DEFINE q == IF request[w].op = "decline" THEN Idle
                    ELSE [stage |-> "publish", event |-> EventOf(request[w])]
    <2>1. request[w].stage = "update" /\ Write(request[w])
      BY <1>7 DEF Commit
    <2>2. request[w].op # "decline" => EventOf(request[w]) \in Event
      BY <1>6, <2>1, EventTypes
    <2>3. q \in AnyRequest /\ q.stage # "update"
      BY <2>2, IdleType DEF PublishRequest, AnyRequest
    <2>4. Hold(w, q) /\ UNCHANGED <<published, faults>>
      BY <1>7 DEF Commit
    <2> HIDE DEF q
    <2> QED
      BY <1>6, <2>1, <2>3, <2>4, HoldType DEF TypeOK
  <1>8. ASSUME NEW w \in Workers, Publish(w) PROVE TypeOK'
    <2>1. request[w].event \in Event
      BY <1>8, StageTypes DEF Publish, TypeOK, PublishRequest
    <2> QED
      BY <1>8, <2>1, IdleType, HoldType DEF Publish, TypeOK, Present
  <1>9. ASSUME NEW w \in Workers, SaveDuplicate(w) \/ Conflict(w) PROVE TypeOK'
    BY <1>5, <1>9 DEF SaveDuplicate, Conflict, TypeOK
  <1>10. ASSUME Fault PROVE faults' \in 0..MaxFaults
    BY <1>10, ServiceAssumption DEF Fault, TypeOK
  <1>11. ASSUME NEW w \in Workers, DatabaseError(w) \/ PublishError(w) PROVE TypeOK'
    BY <1>5, <1>10, <1>11 DEF DatabaseError, PublishError
  <1>12. ASSUME NEW w \in Workers, CommitUnacknowledged(w) PROVE TypeOK'
    <2>1. /\ request' \in [Workers -> AnyRequest]
          /\ \A v \in Workers :
               request'[v].stage = "update" /\ request'[v].op = "decline"
                   => request'[v].caller \in Runners
      BY <1>12, IdleType, HoldType DEF CommitUnacknowledged
    <2>2. published' = published /\ faults' \in 0..MaxFaults
      BY <1>10, <1>12 DEF CommitUnacknowledged
    <2>3. CASE request[w].stage = "save" /\ Insert(request[w]) /\ UNCHANGED declines
      <3>1. request[w] \in SaveRequest
        BY <2>3, StageTypes DEF TypeOK
      <3> QED
        BY <2>1, <2>2, <2>3, <3>1, InsertType DEF TypeOK
    <2>4. CASE request[w].stage = "update" /\ Write(request[w])
      BY <1>6, <2>1, <2>2, <2>4 DEF TypeOK
    <2> QED
      BY <1>12, <2>3, <2>4 DEF CommitUnacknowledged
  <1>13. ASSUME NEW S \in SUBSET Workers, Crash(S) PROVE TypeOK'
    BY <1>10, <1>13, IdleType DEF Crash, TypeOK, Present
  <1>14. CASE UNCHANGED vars
    BY <1>14 DEF vars, TypeOK, Present
  <1>15. ASSUME NEW w \in Workers, Progress(w) \/ Fail(w) PROVE TypeOK'
    BY <1>4, <1>7, <1>8, <1>9, <1>11, <1>12, <1>15 DEF Progress, Fail
  <1> QED
    BY <1>2, <1>3, <1>13, <1>14, <1>15 DEF Next

(* Types hold in every reachable state.                                    *)
THEOREM TypeCorrect == Spec => []TypeOK
  <1>1. Init => TypeOK
    BY ServiceAssumption, IdleType DEF Init, TypeOK, Row, Present
  <1> QED
    BY <1>1, TypeStep, PTL DEF Spec
-----------------------------------------------------------------------------
(* The inductive invariant behind the optimistic lock.  What a change does *)
(* to the columns of a row is known for the row the worker loaded; that it *)
(* is still this row when the WHERE clause matches is HeldChangesApply,    *)
(* which holds because every write moves the version on.                   *)
LockInv ==
    /\ TypeOK
    /\ RowsConsistent
    /\ VersionCountsChanges
    /\ HeldChangesApply

(* A new booking has no optional column set.                               *)
LEMMA NewBookingFields ==
    ASSUME NEW o \in Owners, NEW n \in Numbers, NEW s \in Specs
    PROVE  /\ FieldsMatchStatus(NewBooking(o, n, s))
           /\ FieldsSet(NewBooking(o, n, s)) = 0
  BY DEF NewBooking, FieldsMatchStatus, FieldsSet, BoolToNat

(* Every change keeps the columns in agreement with the status, and sets   *)
(* one more of them, but for a decline, which clears one.                  *)
LEMMA ChangeFields ==
    ASSUME NEW bk \in Booking, NEW new \in Booking, NEW op \in Operations,
           NEW r, FieldsMatchStatus(bk), Change(op, r, bk, new)
    PROVE  /\ FieldsMatchStatus(new)
           /\ FieldsSet(new) = IF op = "decline" THEN FieldsSet(bk) - 1
                                                 ELSE FieldsSet(bk) + 1
  <1>0. /\ bk.pickedUpAt \in BOOLEAN /\ bk.deliveredAt \in BOOLEAN
        /\ bk.cancelledAt \in BOOLEAN /\ bk.estimatedPrice # None
        /\ bk.runner \in Runners \cup {None} /\ None \notin Runners
    BY AggregateAssumption DEF Booking
  <1>1. CASE op = "accept"
    <2>1. bk.status = "requested" /\ r \in Runners /\ new = AfterAccept(bk, r)
      BY <1>1 DEF Change, MayAccept, CanTransitionTo, validTransitions
    <2>2. /\ new.status = "accepted" /\ new.runner = r
          /\ new.pickedUpAt = bk.pickedUpAt /\ new.deliveredAt = bk.deliveredAt
          /\ new.cancelledAt = bk.cancelledAt /\ new.finalPrice = bk.finalPrice
          /\ new.estimatedPrice = bk.estimatedPrice
      BY <2>1 DEF AfterAccept, Booking
    <2>3. /\ bk.runner = None /\ ~ bk.pickedUpAt /\ ~ bk.deliveredAt
          /\ ~ bk.cancelledAt /\ bk.finalPrice = None
      BY <1>0, <2>1 DEF FieldsMatchStatus
    <2>4. FieldsMatchStatus(new)
      BY <1>0, <2>1, <2>2, <2>3 DEF FieldsMatchStatus
    <2>5. FieldsSet(bk) = 0 /\ FieldsSet(new) = 1
      BY <1>0, <2>1, <2>2, <2>3 DEF FieldsSet, BoolToNat
    <2> QED
      BY <1>1, <2>4, <2>5
  <1>2. CASE op = "pickup"
    <2>1. bk.status = "accepted" /\ new = AfterStartDelivery(bk)
      BY <1>2 DEF Change, MayStartDelivery, CanTransitionTo, validTransitions
    <2>2. /\ new.status = "in_progress" /\ new.runner = bk.runner
          /\ new.pickedUpAt = TRUE /\ new.deliveredAt = bk.deliveredAt
          /\ new.cancelledAt = bk.cancelledAt /\ new.finalPrice = bk.finalPrice
          /\ new.estimatedPrice = bk.estimatedPrice
      BY <2>1 DEF AfterStartDelivery, Booking
    <2>3. /\ bk.runner # None /\ ~ bk.pickedUpAt /\ ~ bk.deliveredAt
          /\ ~ bk.cancelledAt /\ bk.finalPrice = None
      BY <1>0, <2>1 DEF FieldsMatchStatus
    <2>4. FieldsMatchStatus(new)
      BY <1>0, <2>1, <2>2, <2>3 DEF FieldsMatchStatus
    <2>5. FieldsSet(bk) = 1 /\ FieldsSet(new) = 2
      BY <1>0, <2>1, <2>2, <2>3 DEF FieldsSet, BoolToNat
    <2> QED
      BY <1>2, <2>4, <2>5
  <1>3. CASE op = "deliver"
    <2>1. bk.status = "in_progress" /\ new = AfterConfirmDelivery(bk)
      BY <1>3 DEF Change, MayConfirmDelivery, CanTransitionTo, validTransitions
    <2>2. /\ new.status = "delivered" /\ new.runner = bk.runner
          /\ new.pickedUpAt = bk.pickedUpAt /\ new.deliveredAt = TRUE
          /\ new.cancelledAt = bk.cancelledAt /\ new.finalPrice = bk.finalPrice
          /\ new.estimatedPrice = bk.estimatedPrice
      BY <2>1 DEF AfterConfirmDelivery, Booking
    <2>3. /\ bk.runner # None /\ bk.pickedUpAt /\ ~ bk.deliveredAt
          /\ ~ bk.cancelledAt /\ bk.finalPrice = None
      BY <1>0, <2>1 DEF FieldsMatchStatus
    <2>4. FieldsMatchStatus(new)
      BY <1>0, <2>1, <2>2, <2>3 DEF FieldsMatchStatus
    <2>5. FieldsSet(bk) = 2 /\ FieldsSet(new) = 3
      BY <1>0, <2>1, <2>2, <2>3 DEF FieldsSet, BoolToNat
    <2> QED
      BY <1>3, <2>4, <2>5
  <1>4. CASE op = "complete"
    <2>1. bk.status = "delivered" /\ new = AfterComplete(bk, bk.estimatedPrice)
      BY <1>4 DEF Change, MayComplete, CanTransitionTo, validTransitions
    <2>2. /\ new.status = "completed" /\ new.runner = bk.runner
          /\ new.pickedUpAt = bk.pickedUpAt /\ new.deliveredAt = bk.deliveredAt
          /\ new.cancelledAt = bk.cancelledAt /\ new.finalPrice = bk.estimatedPrice
          /\ new.estimatedPrice = bk.estimatedPrice
      BY <2>1 DEF AfterComplete, Booking
    <2>3. /\ bk.runner # None /\ bk.pickedUpAt /\ bk.deliveredAt
          /\ ~ bk.cancelledAt /\ bk.finalPrice = None
      BY <1>0, <2>1 DEF FieldsMatchStatus
    <2>4. FieldsMatchStatus(new)
      BY <1>0, <2>1, <2>2, <2>3 DEF FieldsMatchStatus
    <2>5. FieldsSet(bk) = 3 /\ FieldsSet(new) = 4
      BY <1>0, <2>1, <2>2, <2>3 DEF FieldsSet, BoolToNat
    <2> QED
      BY <1>4, <2>4, <2>5
  <1>5. CASE op = "cancel"
    <2>1. /\ bk.status \in {"requested", "accepted", "in_progress"}
          /\ new = AfterCancel(bk)
      BY <1>5 DEF Change, MayCancel, CanBeCancelled, CanTransitionTo, validTransitions
    <2>2. /\ new.status = "cancelled" /\ new.runner = bk.runner
          /\ new.pickedUpAt = bk.pickedUpAt /\ new.deliveredAt = bk.deliveredAt
          /\ new.cancelledAt = TRUE /\ new.finalPrice = bk.finalPrice
          /\ new.estimatedPrice = bk.estimatedPrice
      BY <2>1 DEF AfterCancel, Booking
    <2>3. /\ bk.pickedUpAt => bk.runner # None
          /\ ~ bk.deliveredAt /\ ~ bk.cancelledAt /\ bk.finalPrice = None
      BY <1>0, <2>1 DEF FieldsMatchStatus
    <2>4. FieldsMatchStatus(new)
      BY <1>0, <2>1, <2>2, <2>3 DEF FieldsMatchStatus
    <2>5. FieldsSet(new) = FieldsSet(bk) + 1
      BY <1>0, <2>1, <2>2, <2>3 DEF FieldsSet, BoolToNat
    <2> QED
      BY <1>5, <2>4, <2>5
  <1>6. CASE op = "decline"
    <2>1. bk.status = "accepted" /\ new = AfterDecline(bk)
      BY <1>6 DEF Change, MayDecline, CanTransitionTo, validTransitions
    <2>2. /\ new.status = "requested" /\ new.runner = None
          /\ new.pickedUpAt = bk.pickedUpAt /\ new.deliveredAt = bk.deliveredAt
          /\ new.cancelledAt = bk.cancelledAt /\ new.finalPrice = bk.finalPrice
          /\ new.estimatedPrice = bk.estimatedPrice
      BY <2>1 DEF AfterDecline, Booking
    <2>3. /\ bk.runner # None /\ ~ bk.pickedUpAt /\ ~ bk.deliveredAt
          /\ ~ bk.cancelledAt /\ bk.finalPrice = None
      BY <1>0, <2>1 DEF FieldsMatchStatus
    <2>4. FieldsMatchStatus(new)
      BY <1>0, <2>1, <2>2, <2>3 DEF FieldsMatchStatus
    <2>5. FieldsSet(bk) = 1 /\ FieldsSet(new) = 0
      BY <1>0, <2>1, <2>2, <2>3 DEF FieldsSet, BoolToNat
    <2> QED
      BY <1>6, <2>4, <2>5
  <1> QED
    BY <1>1, <1>2, <1>3, <1>4, <1>5, <1>6 DEF Operations

(* What LockInv says of rows and the log, without the requests.            *)
RowsSound == RowsConsistent /\ VersionCountsChanges

(* A booking row, if present, is a booking; if absent its version is 0.    *)
LEMMA RowTypes ==
    ASSUME TypeOK, NEW b \in Bookings
    PROVE  /\ rows[b].version \in Nat
           /\ Present(b) => rows[b].bk \in Booking
           /\ ~ Present(b) => rows[b].version = 0
  BY DEF TypeOK, Row, Present

(* Worker w starts a request that applies; nothing else changes.           *)
LEMMA HoldKeeps ==
    ASSUME LockInv, TypeOK', NEW w \in Workers, NEW q, Hold(w, q),
           UNCHANGED <<rows, declines>>,
           q.stage = "save" => HeldCreationApplies(q),
           q.stage = "update" => HeldChangeApplies(q)
    PROVE  LockInv'
  <1>1. RowsSound'
    BY DEF LockInv, RowsSound, RowsConsistent, VersionCountsChanges, Present
  <1>2. request \in [Workers -> AnyRequest]
    BY DEF LockInv, TypeOK
  <1>3. ASSUME NEW v \in Workers PROVE HeldApplies(v)'
    <2>1. CASE v = w
      <3>1. request'[v] = q
        BY <1>2, <2>1 DEF Hold
      <3> QED
        BY <3>1 DEF HeldApplies, HeldCreationApplies, HeldChangeApplies, Matches
    <2>2. CASE v # w
      <3>1. request'[v] = request[v]
        BY <1>2, <2>2 DEF Hold
      <3>2. HeldApplies(v)
        BY DEF LockInv, HeldChangesApply
      <3> QED
        BY <3>1, <3>2 DEF HeldApplies, HeldCreationApplies, HeldChangeApplies, Matches
    <2> QED
      BY <2>1, <2>2
  <1> QED
    BY <1>1, <1>3 DEF LockInv, RowsSound, HeldChangesApply

(* Workers that drop their requests, all at once or one at a time.         *)
LEMMA DropKeeps ==
    ASSUME LockInv, TypeOK', UNCHANGED <<rows, declines>>,
           \A v \in Workers : \/ request'[v] = request[v]
                              \/ request'[v].stage \notin {"save", "update"}
    PROVE  LockInv'
  <1>1. RowsSound'
    BY DEF LockInv, RowsSound, RowsConsistent, VersionCountsChanges, Present
  <1>2. ASSUME NEW v \in Workers PROVE HeldApplies(v)'
    <2>1. HeldApplies(v)
      BY DEF LockInv, HeldChangesApply
    <2> QED
      BY <2>1 DEF HeldApplies, HeldCreationApplies, HeldChangeApplies, Matches
  <1> QED
    BY <1>1, <1>2 DEF LockInv, RowsSound, HeldChangesApply

(* A row that appears, or whose version moves on, leaves every held change *)
(* of it out of date.                                                      *)
LEMMA VersionsMoveOn ==
    ASSUME LockInv, NEW v \in Workers, request'[v] = request[v],
           NEW c \in Bookings, NEW new, NEW n \in Nat, n > rows[c].version,
           rows' = [rows EXCEPT ![c] = [bk |-> new, version |-> n]]
    PROVE  HeldApplies(v)'
  <1>1. HeldApplies(v)
    BY DEF LockInv, HeldChangesApply
  <1>2. CASE request[v].stage # "update"
    BY <1>1, <1>2 DEF HeldApplies, HeldCreationApplies
  <1>3. CASE request[v].stage = "update"
    <2>1. request[v] \in UpdateRequest
      BY <1>3, StageTypes DEF LockInv, TypeOK
    <2>2. /\ request[v].id \in Bookings /\ request[v].version \in Nat
          /\ rows \in [Bookings -> Row]
          /\ rows[c].version \in Nat
      BY <2>1 DEF UpdateRequest, LockInv, TypeOK, Row
    <2>3. HeldChangeApplies(request[v])
      BY <1>1, <1>3 DEF HeldApplies
    <2>4. CASE request[v].id = c
      <3>1. rows'[c].version = n
        BY <2>2
      <3> QED
        BY <1>3, <2>2, <2>3, <2>4, <3>1 DEF HeldApplies, HeldChangeApplies, Matches
    <2>5. CASE request[v].id # c
      <3>1. rows'[request[v].id] = rows[request[v].id]
        BY <2>2, <2>5
      <3> QED
        BY <1>3, <2>3, <3>1 DEF HeldApplies, HeldChangeApplies, Matches
    <2> QED
      BY <2>4, <2>5
  <1> QED
    BY <1>2, <1>3

(* A worker's update that goes through.                                    *)
LEMMA WriteKeeps ==
    ASSUME LockInv, TypeOK', NEW w \in Workers, request[w].stage = "update",
           Write(request[w]), request'[w].stage \notin {"save", "update"},
           \A v \in Workers \ {w} : request'[v] = request[v]
    PROVE  LockInv'
  <1> DEFINE q == request[w]
             b == q.id
  <1>1. q \in UpdateRequest
    BY StageTypes DEF LockInv, TypeOK
  <1>2. /\ b \in Bookings /\ q.bk \in Booking /\ q.version \in Nat
        /\ q.op \in Operations
    BY <1>1 DEF UpdateRequest
  <1>3. q.version - 1 = rows[b].version /\ 2 <= q.version
        /\ Change(q.op, q.caller, rows[b].bk, q.bk)
    BY DEF LockInv, HeldChangesApply, HeldApplies, HeldChangeApplies, Write, Matches
  <1>4. rows' = [rows EXCEPT ![b] = [bk |-> q.bk, version |-> q.version]]
    BY DEF Write, WriteRow
  <1>5. /\ rows \in [Bookings -> Row] /\ declines \in [Bookings -> Seq(Runners)]
        /\ rows[b].version \in Nat
    BY <1>2 DEF LockInv, TypeOK, Row
  <1>6. rows[b].bk \in Booking /\ Present(b)
    BY <1>2, <1>3, <1>5, RowTypes DEF LockInv, Present
  <1>7. /\ FieldsMatchStatus(rows[b].bk)
        /\ rows[b].version = 1 + FieldsSet(rows[b].bk) + 2 * Len(declines[b])
    BY <1>2, <1>6 DEF LockInv, RowsConsistent, VersionCountsChanges
  <1>8. /\ FieldsMatchStatus(q.bk)
        /\ FieldsSet(q.bk) = IF q.op = "decline" THEN FieldsSet(rows[b].bk) - 1
                                                 ELSE FieldsSet(rows[b].bk) + 1
    BY <1>2, <1>3, <1>6, <1>7, ChangeFields
  <1>9. Len(declines'[b]) = Len(declines[b]) + (IF q.op = "decline" THEN 1 ELSE 0)
    <2>1. declines[b] \in Seq(Runners) /\ Len(declines[b]) \in Nat
      BY <1>2, <1>5
    <2>2. CASE q.op = "decline"
      <3>1. declines'[b] = Append(declines[b], q.caller)
        BY <1>2, <1>5, <2>2 DEF Write, RecordDecline
      <3>2. q.caller \in Runners
        BY <2>2 DEF LockInv, TypeOK
      <3> QED
        BY <2>1, <2>2, <3>1, <3>2
    <2>3. CASE q.op # "decline"
      BY <2>1, <2>3 DEF Write
    <2> QED
      BY <2>2, <2>3
  <1>10. FieldsSet(rows[b].bk) \in Int /\ Len(declines[b]) \in Nat
    BY <1>2, <1>5 DEF FieldsSet, BoolToNat
  <1>11. ASSUME NEW c \in Bookings, c # b
         PROVE  rows'[c] = rows[c] /\ declines'[c] = declines[c]
    BY <1>2, <1>4, <1>5, <1>11 DEF Write, RecordDecline
  <1>12. rows'[b].bk = q.bk /\ rows'[b].version = q.version
    BY <1>2, <1>4, <1>5
  <1>13. RowsConsistent'
    BY <1>8, <1>11, <1>12 DEF LockInv, RowsConsistent, Present
  <1>14. VersionCountsChanges'
    <2>1. rows'[b].version = 1 + FieldsSet(rows'[b].bk) + 2 * Len(declines'[b])
      <3>1. FieldsSet(rows'[b].bk) = FieldsSet(q.bk)
        BY <1>12
      <3>2. q.version = rows[b].version + 1
        <4>1. q.version - 1 = rows[b].version
          BY <1>3
        <4> HIDE DEF q, b
        <4> QED
          BY <1>2, <1>5, <4>1
      <3>3. q.version = 1 + FieldsSet(q.bk) + 2 * Len(declines'[b])
        <4> HIDE DEF q, b
        <4>1. CASE q.op = "decline"
          BY <1>7, <1>8, <1>9, <1>10, <3>2, <4>1
        <4>2. CASE q.op # "decline"
          BY <1>7, <1>8, <1>9, <1>10, <3>2, <4>2
        <4> QED
          BY <4>1, <4>2
      <3> QED
        BY <1>12, <3>1, <3>3
    <2>2. rows'[b].version > 0
      <3> HIDE DEF q, b
      <3> QED
        BY <1>2, <1>3, <1>12
    <2>3. \A c \in Bookings :
            IF rows'[c].version > 0
              THEN rows'[c].version
                     = 1 + FieldsSet(rows'[c].bk) + 2 * Len(declines'[c])
              ELSE declines'[c] = <<>>
      <3> HIDE DEF q, b
      <3> QED
        BY <1>11, <2>1, <2>2 DEF LockInv, VersionCountsChanges, Present
    <2> QED
      BY <2>3 DEF VersionCountsChanges, Present
  <1>15. ASSUME NEW v \in Workers PROVE HeldApplies(v)'
    <2>1. CASE v = w
      BY <2>1 DEF HeldApplies
    <2>2. CASE v # w
      <3>1. request'[v] = request[v]
        BY <2>2
      <3>2. q.version > rows[b].version
        BY <1>2, <1>3, <1>5
      <3> QED
        BY <1>2, <1>4, <3>1, <3>2, VersionsMoveOn
    <2> QED
      BY <2>1, <2>2
  <1> QED
    BY <1>13, <1>14, <1>15 DEF LockInv, HeldChangesApply

(* A worker's insertion that goes through.                                 *)
LEMMA InsertKeeps ==
    ASSUME LockInv, TypeOK', NEW w \in Workers, request[w].stage = "save",
           Insertable(request[w]), Insert(request[w]), UNCHANGED declines,
           request'[w].stage \notin {"save", "update"},
           \A v \in Workers \ {w} : request'[v] = request[v]
    PROVE  LockInv'
  <1> DEFINE q == request[w]
             b == q.id
  <1>1. q \in SaveRequest
    BY StageTypes DEF LockInv, TypeOK
  <1>2. b \in Bookings /\ q.bk \in Booking
    BY <1>1 DEF SaveRequest
  <1>3. rows[b].version = 0 /\ ~ Present(b)
    BY <1>2, RowTypes DEF Insertable, LockInv
  <1>4. rows' = [rows EXCEPT ![b] = [bk |-> q.bk, version |-> 1]]
    BY DEF Insert
  <1>5. FieldsMatchStatus(q.bk) /\ FieldsSet(q.bk) = 0
    <2>1. HeldCreationApplies(q)
      BY DEF LockInv, HeldChangesApply, HeldApplies
    <2> QED
      BY <2>1, NewBookingFields DEF HeldCreationApplies
  <1>6. rows \in [Bookings -> Row]
    BY DEF LockInv, TypeOK
  <1>7. rows'[b].bk = q.bk /\ rows'[b].version = 1
    BY <1>2, <1>4, <1>6
  <1>8. ASSUME NEW c \in Bookings, c # b PROVE rows'[c] = rows[c]
    BY <1>2, <1>4, <1>6, <1>8
  <1>9. RowsConsistent'
    BY <1>5, <1>7, <1>8 DEF LockInv, RowsConsistent, Present
  <1>10. VersionCountsChanges'
    <2>1. declines'[b] = <<>>
      BY <1>2, <1>3 DEF LockInv, VersionCountsChanges
    <2>2. FieldsSet(rows'[b].bk) = 0
      BY <1>5, <1>7
    <2>3. rows'[b].version = 1 + FieldsSet(rows'[b].bk) + 2 * Len(declines'[b])
      BY <1>7, <2>1, <2>2
    <2>4. \A c \in Bookings :
            IF rows'[c].version > 0
              THEN rows'[c].version
                     = 1 + FieldsSet(rows'[c].bk) + 2 * Len(declines'[c])
              ELSE declines'[c] = <<>>
      <3> HIDE DEF q, b
      <3> QED
        BY <1>7, <1>8, <2>3 DEF LockInv, VersionCountsChanges, Present
    <2> QED
      BY <2>4 DEF VersionCountsChanges, Present
  <1>11. ASSUME NEW v \in Workers PROVE HeldApplies(v)'
    <2>1. CASE v = w
      BY <2>1 DEF HeldApplies
    <2>2. CASE v # w
      <3>1. request'[v] = request[v]
        BY <2>2
      <3> QED
        <4>1. 1 \in Nat /\ 1 > rows[b].version
          BY <1>3
        <4> QED
          BY <1>2, <1>4, <3>1, <4>1, VersionsMoveOn
    <2> QED
      BY <2>1, <2>2
  <1> QED
    BY <1>9, <1>10, <1>11 DEF LockInv, HeldChangesApply

(* A handler that applied a method to the row it loaded.                   *)
LEMMA HoldChangeKeeps ==
    ASSUME LockInv, TypeOK', NEW w \in Workers, NEW b \in Bookings,
           NEW op, NEW r, NEW bk, Loads(w, b),
           HoldChange(w, b, op, r, bk), Change(op, r, rows[b].bk, bk)
    PROVE  LockInv'
  <1> DEFINE q == [stage |-> "update", op |-> op, id |-> b, caller |-> r,
                   bk |-> bk, version |-> rows[b].version + 1]
  <1>1. rows[b].version \in Nat /\ rows[b].version > 0
    BY RowTypes DEF LockInv, Loads, Present
  <1>2. HeldChangeApplies(q)
    BY <1>1 DEF HeldChangeApplies, Matches
  <1>3. Hold(w, q) /\ UNCHANGED <<rows, declines>> /\ q.stage = "update"
    BY DEF HoldChange
  <1> HIDE DEF q
  <1> QED
    BY <1>2, <1>3, HoldKeeps

(* Every step keeps the lock's invariant.                                  *)
LEMMA LockStep == LockInv /\ [Next]_vars => LockInv'
  <1> SUFFICES ASSUME LockInv, [Next]_vars PROVE LockInv'
    OBVIOUS
  <1>0. TypeOK /\ TypeOK' /\ request \in [Workers -> AnyRequest]
    BY TypeStep DEF LockInv, TypeOK
  <1>1. ASSUME NEW w \in Workers, NEW o \in Owners, NEW s, StartCreate(w, o, s)
        PROVE  LockInv'
    <2>1. PICK b \in Bookings, n \in Numbers :
             Hold(w, [stage |-> "save", id |-> b, bk |-> NewBooking(o, n, s)])
      BY <1>1 DEF StartCreate
    <2> DEFINE q == [stage |-> "save", id |-> b, bk |-> NewBooking(o, n, s)]
    <2>2. s \in Specs /\ MayCreate(s)
      BY <1>1 DEF StartCreate, MayCreate
    <2>3. HeldCreationApplies(q)
      BY <2>2 DEF HeldCreationApplies
    <2>4. Hold(w, q) /\ UNCHANGED <<rows, declines>> /\ q.stage = "save"
      BY <1>1, <2>1 DEF StartCreate
    <2> HIDE DEF q
    <2> QED
      BY <1>0, <2>3, <2>4, HoldKeeps
  <1>2. ASSUME NEW w \in Workers, CreateBooking(w) PROVE LockInv'
    BY <1>1, <1>2 DEF CreateBooking
  <1>3. ASSUME NEW w \in Workers, NEW b \in Bookings, Handle(w, b) PROVE LockInv'
    <2>1. CASE RebookBooking(w, b)
      BY <1>1, <2>1 DEF RebookBooking
    <2>2. ASSUME NEW r \in Runners, AcceptBooking(w, b, r) PROVE LockInv'
      BY <1>0, <2>2, HoldChangeKeeps DEF AcceptBooking, Change
    <2>3. ASSUME NEW r \in Runners, DeclineBooking(w, b, r) PROVE LockInv'
      BY <1>0, <2>3, HoldChangeKeeps DEF DeclineBooking, Change
    <2>4. CASE StartDelivery(w, b)
      BY <1>0, <2>4, HoldChangeKeeps DEF StartDelivery, Change
    <2>5. CASE ConfirmDelivery(w, b)
      BY <1>0, <2>5, HoldChangeKeeps DEF ConfirmDelivery, Change
    <2>6. CASE CompleteBooking(w, b)
      BY <1>0, <2>6, HoldChangeKeeps DEF CompleteBooking, Change
    <2>7. CASE CancelBooking(w, b)
      BY <1>0, <2>7, HoldChangeKeeps DEF CancelBooking, Change
    <2> QED
      BY <1>3, <2>1, <2>2, <2>3, <2>4, <2>5, <2>6, <2>7 DEF Handle
  <1>4. ASSUME NEW w \in Workers, NEW q, q.stage \notin {"save", "update"},
               Hold(w, q)
        PROVE  /\ request'[w].stage \notin {"save", "update"}
               /\ \A v \in Workers \ {w} : request'[v] = request[v]
    BY <1>0, <1>4 DEF Hold
  <1>5. ASSUME NEW w \in Workers, NEW q, q.stage \notin {"save", "update"},
               Hold(w, q), UNCHANGED <<rows, declines>>
        PROVE  LockInv'
    BY <1>0, <1>4, <1>5, DropKeeps
  <1>6. ASSUME NEW w \in Workers, NEW q, q.stage \notin {"save", "update"},
               Hold(w, q), request[w].stage = "save", Insertable(request[w]),
               Insert(request[w]), UNCHANGED declines
        PROVE  LockInv'
    BY <1>0, <1>4, <1>6, InsertKeeps
  <1>7. ASSUME NEW w \in Workers, NEW q, q.stage \notin {"save", "update"},
               Hold(w, q), request[w].stage = "update", Write(request[w])
        PROVE  LockInv'
    BY <1>0, <1>4, <1>7, WriteKeeps
  <1>8. ASSUME NEW w \in Workers, Save(w) PROVE LockInv'
    <2> DEFINE q == [stage |-> "publish", event |-> RequestedEvent(request[w].id)]
    <2>1. q.stage \notin {"save", "update"}
      OBVIOUS
    <2>2. /\ Hold(w, q) /\ request[w].stage = "save" /\ Insertable(request[w])
          /\ Insert(request[w]) /\ UNCHANGED declines
      BY <1>8 DEF Save
    <2> HIDE DEF q
    <2> QED
      BY <1>6, <2>1, <2>2
  <1>9. ASSUME NEW w \in Workers, Commit(w) PROVE LockInv'
    <2> DEFINE q == IF request[w].op = "decline" THEN Idle
                    ELSE [stage |-> "publish", event |-> EventOf(request[w])]
    <2>1. q.stage \notin {"save", "update"}
      BY IdleType
    <2>2. Hold(w, q) /\ request[w].stage = "update" /\ Write(request[w])
      BY <1>9 DEF Commit
    <2> HIDE DEF q
    <2> QED
      BY <1>7, <2>1, <2>2
  <1>10. ASSUME NEW w \in Workers, SaveDuplicate(w) \/ Conflict(w) \/ Publish(w)
                  \/ DatabaseError(w) \/ PublishError(w)
         PROVE  LockInv'
    <2>1. Hold(w, Idle) /\ UNCHANGED <<rows, declines>>
      BY <1>10 DEF SaveDuplicate, Conflict, Publish, DatabaseError, PublishError
    <2> QED
      BY <1>5, <2>1, IdleType
  <1>11. ASSUME NEW w \in Workers, CommitUnacknowledged(w) PROVE LockInv'
    BY <1>6, <1>7, <1>11, IdleType DEF CommitUnacknowledged
  <1>12. ASSUME NEW S \in SUBSET Workers, Crash(S) PROVE LockInv'
    <2>1. \A v \in Workers : request'[v] = request[v] \/ request'[v] = Idle
      BY <1>12 DEF Crash
    <2>2. UNCHANGED <<rows, declines>>
      BY <1>12 DEF Crash
    <2> QED
      BY <1>0, <2>1, <2>2, DropKeeps, IdleType
  <1>13. CASE UNCHANGED vars
    <2>1. UNCHANGED <<rows, declines, request>>
      BY <1>13 DEF vars
    <2> QED
      BY <1>0, <2>1, DropKeeps
  <1>14. ASSUME NEW w \in Workers, Progress(w) \/ Fail(w) PROVE LockInv'
    BY <1>8, <1>9, <1>10, <1>11, <1>14 DEF Progress, Fail
  <1> QED
    BY <1>2, <1>3, <1>12, <1>13, <1>14 DEF Next

LEMMA LockInit == Init => LockInv
  <1> SUFFICES ASSUME Init PROVE LockInv
    OBVIOUS
  <1>1. TypeOK
    BY ServiceAssumption, IdleType DEF Init, TypeOK, Row, Present
  <1>2. \A w \in Workers : request[w].stage = "idle"
    BY IdleType DEF Init
  <1>3. \A b \in Bookings : ~ Present(b) /\ declines[b] = <<>>
    BY DEF Init, Present
  <1> QED
    BY <1>1, <1>2, <1>3
    DEF LockInv, RowsConsistent, VersionCountsChanges, HeldChangesApply, HeldApplies

(* The lock's invariant holds in every reachable state.                    *)
THEOREM LockCorrect == Spec => []LockInv
  BY LockInit, LockStep, PTL DEF Spec

(* The columns of every row agree with its status.                         *)
THEOREM RowsStayConsistent == Spec => []RowsConsistent
  <1>1. LockInv => RowsConsistent
    BY DEF LockInv
  <1> QED
    BY <1>1, LockCorrect, PTL

(* No update is lost: versions count the changes that can be seen.         *)
THEOREM NoLostUpdate == Spec => []VersionCountsChanges
  <1>1. LockInv => VersionCountsChanges
    BY DEF LockInv
  <1> QED
    BY <1>1, LockCorrect, PTL

(* A request in progress is out of date, or applies to the row as it is.   *)
THEOREM HeldChangesStayApplicable == Spec => []HeldChangesApply
  <1>1. LockInv => HeldChangesApply
    BY DEF LockInv
  <1> QED
    BY <1>1, LockCorrect, PTL
-----------------------------------------------------------------------------
(* The only steps that touch the tables: an insertion of a valid booking,  *)
(* and a change that applies to the row as it is.                          *)
Inserts(q) ==
    /\ q \in SaveRequest
    /\ HeldCreationApplies(q)
    /\ Insertable(q)
    /\ Insert(q)
    /\ UNCHANGED declines

Updates(q) ==
    /\ q \in UpdateRequest
    /\ Present(q.id)
    /\ Change(q.op, q.caller, rows[q.id].bk, q.bk)
    /\ Write(q)

TableStep ==
    \/ UNCHANGED <<rows, declines>>
    \/ \E q \in SaveRequest : Inserts(q)
    \/ \E q \in UpdateRequest : Updates(q)

(* The two of them, for a request that a worker holds.                     *)
LEMMA HeldInserts ==
    ASSUME LockInv, NEW w \in Workers, request[w].stage = "save",
           Insertable(request[w]), Insert(request[w]), UNCHANGED declines
    PROVE  TableStep
  <1>1. request[w] \in SaveRequest
    BY StageTypes DEF LockInv, TypeOK
  <1>2. HeldCreationApplies(request[w])
    BY DEF LockInv, HeldChangesApply, HeldApplies
  <1> QED
    BY <1>1, <1>2 DEF Inserts, TableStep

LEMMA HeldUpdates ==
    ASSUME LockInv, NEW w \in Workers, request[w].stage = "update", Write(request[w])
    PROVE  request[w] \in UpdateRequest /\ Updates(request[w])
  <1>1. request[w] \in UpdateRequest
    BY StageTypes DEF LockInv, TypeOK
  <1>2. HeldChangeApplies(request[w]) /\ Matches(request[w])
    BY DEF LockInv, HeldChangesApply, HeldApplies, Write
  <1>3. Present(request[w].id)
    <2>1. request[w].id \in Bookings /\ request[w].version \in Nat
      BY <1>1 DEF UpdateRequest
    <2>2. rows[request[w].id].version = request[w].version - 1
          /\ 2 <= request[w].version
      BY <1>2 DEF HeldChangeApplies, Matches
    <2> QED
      BY <2>1, <2>2 DEF Present
  <1> QED
    BY <1>1, <1>2, <1>3 DEF Updates, HeldChangeApplies

LEMMA TableSteps ==
    ASSUME LockInv, [Next]_vars
    PROVE  TableStep
  <1>1. ASSUME NEW w \in Workers, request[w].stage = "save",
               Insertable(request[w]), Insert(request[w]), UNCHANGED declines
        PROVE  TableStep
    BY <1>1, HeldInserts
  <1>2. ASSUME NEW w \in Workers, request[w].stage = "update", Write(request[w])
        PROVE  TableStep
    BY <1>2, HeldUpdates DEF TableStep
  <1>3. ASSUME NEW w \in Workers, NEW b \in Bookings, Handle(w, b)
        PROVE  UNCHANGED <<rows, declines>>
    BY <1>3 DEF Handle, RebookBooking, StartCreate, AcceptBooking, DeclineBooking,
                StartDelivery, ConfirmDelivery, CompleteBooking, CancelBooking,
                HoldChange
  <1>4. ASSUME NEW w \in Workers, CreateBooking(w) PROVE UNCHANGED <<rows, declines>>
    BY <1>4 DEF CreateBooking, StartCreate
  <1>5. ASSUME NEW w \in Workers, Progress(w) \/ Fail(w)
        PROVE  TableStep
    BY <1>1, <1>2, <1>5 DEF Progress, Fail, Save, SaveDuplicate, Commit, Conflict,
         Publish, DatabaseError, CommitUnacknowledged, PublishError, TableStep
  <1>6. ASSUME NEW S \in SUBSET Workers, Crash(S) PROVE UNCHANGED <<rows, declines>>
    BY <1>6 DEF Crash
  <1>7. CASE UNCHANGED vars
    BY <1>7 DEF vars, TableStep
  <1> QED
    BY <1>3, <1>4, <1>5, <1>6, <1>7 DEF Next, TableStep

(* What an update does to its row and to the others.                       *)
LEMMA UpdateEffect ==
    ASSUME TypeOK, NEW q \in UpdateRequest, Updates(q)
    PROVE  /\ q.id \in Bookings
           /\ rows'[q.id].bk = q.bk
           /\ q.op = "decline" => declines'
                = [declines EXCEPT ![q.id] = Append(declines[q.id], q.caller)]
           /\ q.op # "decline" => declines' = declines
           /\ \A b \in Bookings \ {q.id} : rows'[b] = rows[b]
           /\ rows \in [Bookings -> Row] /\ declines \in [Bookings -> Seq(Runners)]
           /\ rows' = [rows EXCEPT ![q.id] = [bk |-> q.bk, version |-> q.version]]
  <1>1. q.id \in Bookings
    BY DEF UpdateRequest
  <1>2. rows \in [Bookings -> Row] /\ declines \in [Bookings -> Seq(Runners)]
    BY DEF TypeOK
  <1>3. rows' = [rows EXCEPT ![q.id] = [bk |-> q.bk, version |-> q.version]]
    BY DEF Updates, Write, WriteRow
  <1>4. /\ q.op = "decline" => declines'
             = [declines EXCEPT ![q.id] = Append(declines[q.id], q.caller)]
        /\ q.op # "decline" => declines' = declines
    BY DEF Updates, Write, RecordDecline
  <1> QED
    BY <1>1, <1>2, <1>3, <1>4

(* No change applies to a completed or a cancelled booking.                *)
LEMMA TerminalStuck ==
    ASSUME NEW bk, NEW new, NEW op, NEW r, Change(op, r, bk, new)
    PROVE  bk.status \notin {"completed", "cancelled"}
  BY DEF Change, MayAccept, MayStartDelivery, MayConfirmDelivery, MayComplete,
         MayCancel, MayDecline, CanBeCancelled, CanTransitionTo, validTransitions

(* No step changes a completed or a cancelled booking.                     *)
LEMMA TerminalKept ==
    ASSUME LockInv, TableStep
    PROVE  TerminalUntouched
  <1>1. CASE UNCHANGED <<rows, declines>>
    BY <1>1 DEF TerminalUntouched
  <1>2. ASSUME NEW q \in SaveRequest, Inserts(q) PROVE TerminalUntouched
    <2>1. rows' = [rows EXCEPT ![q.id] = [bk |-> q.bk, version |-> 1]]
          /\ ~ Present(q.id)
      BY <1>2 DEF Inserts, Insert, Insertable
    <2> QED
      BY <2>1 DEF TerminalUntouched, LockInv, TypeOK
  <1>3. ASSUME NEW q \in UpdateRequest, Updates(q) PROVE TerminalUntouched
    <2>1. rows[q.id].bk.status \notin {"completed", "cancelled"}
      BY <1>3, TerminalStuck DEF Updates
    <2> QED
      BY <1>3, <2>1, UpdateEffect DEF TerminalUntouched, LockInv
  <1> QED
    BY <1>1, <1>2, <1>3 DEF TableStep

LEMMA TerminalStep == LockInv /\ [Next]_vars => TerminalUntouched
  BY TableSteps, TerminalKept

(* Completed and cancelled bookings never change.                          *)
THEOREM TerminalStaysFinal == Spec => TerminalIsFinal
  <1>1. LockInv /\ [Next]_vars => [TerminalUntouched]_vars
    BY TerminalStep
  <1> QED
    BY <1>1, LockCorrect, PTL DEF Spec, TerminalIsFinal

(* A change of the runner is an acceptance of a booking that has none, or  *)
(* a decline of the runner it is accepted by.                              *)
LEMMA RunnerChanges ==
    ASSUME NEW bk \in Booking, NEW new, NEW op, NEW r, FieldsMatchStatus(bk),
           Change(op, r, bk, new), new.runner # bk.runner
    PROVE  \/ bk.runner = None
           \/ /\ op = "decline" /\ r = bk.runner /\ bk.status = "accepted"
              /\ new.runner = None
  <1>1. CASE op = "accept"
    <2>1. bk.status = "requested"
      BY <1>1 DEF Change, MayAccept, CanTransitionTo, validTransitions
    <2> QED
      BY <2>1 DEF FieldsMatchStatus
  <1>2. CASE op = "decline"
    BY <1>2 DEF Change, MayDecline, AfterDecline, Booking
  <1>3. CASE op \notin {"accept", "decline"}
    BY <1>3 DEF Change, Booking, AfterStartDelivery, AfterConfirmDelivery,
                AfterComplete, AfterCancel
  <1> QED
    BY <1>1, <1>2, <1>3

(* A runner keeps the booking until he declines it himself.                *)
LEMMA HandsKept ==
    ASSUME LockInv, TableStep
    PROVE  HandsChangeByRules
  <1>1. CASE UNCHANGED <<rows, declines>>
    BY <1>1 DEF HandsChangeByRules
  <1>2. ASSUME NEW q \in SaveRequest, Inserts(q) PROVE HandsChangeByRules
    <2>1. rows' = [rows EXCEPT ![q.id] = [bk |-> q.bk, version |-> 1]]
          /\ ~ Present(q.id)
      BY <1>2 DEF Inserts, Insert, Insertable
    <2> QED
      BY <2>1 DEF HandsChangeByRules, LockInv, TypeOK
  <1>3. ASSUME NEW q \in UpdateRequest, Updates(q) PROVE HandsChangeByRules
    <2> DEFINE b == q.id
    <2>1. /\ b \in Bookings /\ rows'[b].bk = q.bk
          /\ \A c \in Bookings \ {b} : rows'[c] = rows[c]
          /\ declines \in [Bookings -> Seq(Runners)]
          /\ q.op = "decline" => declines'
               = [declines EXCEPT ![b] = Append(declines[b], q.caller)]
      BY <1>3, UpdateEffect DEF LockInv
    <2>2. /\ Change(q.op, q.caller, rows[b].bk, q.bk)
          /\ rows[b].bk \in Booking /\ FieldsMatchStatus(rows[b].bk)
      BY <1>3, <2>1, RowTypes DEF LockInv, Updates, RowsConsistent
    <2>3. ASSUME rows'[b].bk.runner # rows[b].bk.runner
          PROVE  \/ rows[b].bk.runner = None
                 \/ /\ rows'[b].bk.runner = None
                    /\ rows[b].bk.status = "accepted"
                    /\ declines'[b] = Append(declines[b], rows[b].bk.runner)
      <3>1. CASE rows[b].bk.runner = None
        BY <3>1
      <3>2. CASE /\ q.op = "decline" /\ q.caller = rows[b].bk.runner
                 /\ rows[b].bk.status = "accepted" /\ q.bk.runner = None
        BY <2>1, <3>2
      <3> QED
        BY <2>1, <2>2, <2>3, <3>1, <3>2, RunnerChanges
    <2> QED
      BY <2>1, <2>3 DEF HandsChangeByRules
  <1> QED
    BY <1>1, <1>2, <1>3 DEF TableStep

(* The same, of every behaviour of the service.                            *)
THEOREM RunnerStaysKept == Spec => RunnerKept
  <1>1. LockInv /\ [Next]_vars => [HandsChangeByRules]_vars
    BY TableSteps, HandsKept
  <1> QED
    BY <1>1, LockCorrect, PTL DEF Spec, RunnerKept

(* No change gives a booking another number.                               *)
LEMMA NumbersKept ==
    ASSUME NEW bk \in Booking, NEW new, NEW op, NEW r, Change(op, r, bk, new)
    PROVE  new.number = bk.number
  BY DEF Change, Booking, AfterAccept, AfterStartDelivery, AfterConfirmDelivery,
         AfterComplete, AfterCancel, AfterDecline

(* A booking number names one booking.                                     *)
LEMMA NumbersKeptUnique ==
    ASSUME LockInv, NumbersUnique, TableStep
    PROVE  NumbersUnique'
  <1>1. CASE UNCHANGED <<rows, declines>>
    BY <1>1 DEF NumbersUnique, Present
  <1>2. ASSUME NEW q \in SaveRequest, Inserts(q) PROVE NumbersUnique'
    <2>1. /\ rows' = [rows EXCEPT ![q.id] = [bk |-> q.bk, version |-> 1]]
          /\ q.id \in Bookings /\ rows \in [Bookings -> Row]
      BY <1>2 DEF Inserts, Insert, SaveRequest, LockInv, TypeOK
    <2>2. /\ rows'[q.id].bk = q.bk
          /\ \A c \in Bookings \ {q.id} : rows'[c] = rows[c]
      BY <2>1
    <2>3. \A c \in Bookings \ {q.id} :
            rows'[c].version > 0 => rows'[c].bk.number # q.bk.number
      BY <1>2, <2>2 DEF Inserts, Insertable, Present
    <2> QED
      BY <2>2, <2>3 DEF NumbersUnique, Present
  <1>3. ASSUME NEW q \in UpdateRequest, Updates(q) PROVE NumbersUnique'
    <2>1. /\ q.id \in Bookings /\ rows'[q.id].bk = q.bk
          /\ \A c \in Bookings \ {q.id} : rows'[c] = rows[c]
      BY <1>3, UpdateEffect DEF LockInv
    <2>2. Present(q.id) /\ q.bk.number = rows[q.id].bk.number
      BY <1>3, <2>1, RowTypes, NumbersKept DEF Updates, LockInv
    <2> QED
      BY <2>1, <2>2 DEF NumbersUnique, Present
  <1> QED
    BY <1>1, <1>2, <1>3 DEF TableStep

(* The same, of every behaviour of the service.                            *)
THEOREM NumbersStayUnique == Spec => []NumbersUnique
  <1>1. Init => NumbersUnique
    BY DEF Init, NumbersUnique, Present
  <1>2. LockInv /\ NumbersUnique /\ [Next]_vars => NumbersUnique'
    BY TableSteps, NumbersKeptUnique
  <1> QED
    BY <1>1, <1>2, LockCorrect, PTL DEF Spec
-----------------------------------------------------------------------------
(* The table as the lifecycle sees it.                                     *)
Contents == [b \in Bookings |-> rows[b].bk]

(* Writing one row changes one booking of the lifecycle.                   *)
LEMMA ContentsAfter ==
    ASSUME NEW b \in Bookings, NEW bk, rows'[b].bk = bk,
           \A c \in Bookings \ {b} : rows'[c] = rows[c]
    PROVE  Contents' = [Contents EXCEPT ![b] = bk]
  BY DEF Contents

(* The lifecycle's methods are the service's.                              *)
LEMMA SameGuards ==
    /\ \A s : Lifecycle!MayCreate(s) <=> MayCreate(s)
    /\ \A bk : /\ Lifecycle!MayAccept(bk) <=> MayAccept(bk)
               /\ Lifecycle!MayStartDelivery(bk) <=> MayStartDelivery(bk)
               /\ Lifecycle!MayConfirmDelivery(bk) <=> MayConfirmDelivery(bk)
               /\ Lifecycle!MayComplete(bk) <=> MayComplete(bk)
               /\ Lifecycle!MayCancel(bk) <=> MayCancel(bk)
    /\ \A bk, r : Lifecycle!MayDecline(bk, r) <=> MayDecline(bk, r)
  BY DEF Lifecycle!MayCreate, MayCreate, Lifecycle!MayAccept, MayAccept,
         Lifecycle!MayStartDelivery, MayStartDelivery,
         Lifecycle!MayConfirmDelivery, MayConfirmDelivery,
         Lifecycle!MayComplete, MayComplete, Lifecycle!MayCancel, MayCancel,
         Lifecycle!MayDecline, MayDecline,
         Lifecycle!CanBeCancelled, CanBeCancelled,
         Lifecycle!CanTransitionTo, CanTransitionTo,
         Lifecycle!validTransitions, validTransitions

LEMMA SameEffects ==
    /\ \A o, n, s : Lifecycle!NewBooking(o, n, s) = NewBooking(o, n, s)
    /\ \A bk, x : /\ Lifecycle!AfterAccept(bk, x) = AfterAccept(bk, x)
                  /\ Lifecycle!AfterComplete(bk, x) = AfterComplete(bk, x)
    /\ \A bk : /\ Lifecycle!AfterStartDelivery(bk) = AfterStartDelivery(bk)
               /\ Lifecycle!AfterConfirmDelivery(bk) = AfterConfirmDelivery(bk)
               /\ Lifecycle!AfterCancel(bk) = AfterCancel(bk)
               /\ Lifecycle!AfterDecline(bk) = AfterDecline(bk)
  BY DEF Lifecycle!NewBooking, NewBooking, Lifecycle!AfterAccept, AfterAccept,
         Lifecycle!AfterComplete, AfterComplete,
         Lifecycle!AfterStartDelivery, AfterStartDelivery,
         Lifecycle!AfterConfirmDelivery, AfterConfirmDelivery,
         Lifecycle!AfterCancel, AfterCancel, Lifecycle!AfterDecline, AfterDecline

(* An insertion creates a booking.                                         *)
LEMMA InsertRefines ==
    ASSUME LockInv, NEW q \in SaveRequest, Inserts(q)
    PROVE  Lifecycle!Next
  <1> DEFINE b == q.id
  <1>1. b \in Bookings /\ rows \in [Bookings -> Row]
    BY DEF SaveRequest, LockInv, TypeOK
  <1>2. rows' = [rows EXCEPT ![b] = [bk |-> q.bk, version |-> 1]]
    BY DEF Inserts, Insert
  <1>3. PICK o \in Owners, n \in Numbers, s \in Specs :
          MayCreate(s) /\ q.bk = NewBooking(o, n, s)
    BY DEF Inserts, HeldCreationApplies
  <1>4. Contents' = [Contents EXCEPT ![b] = NewBooking(o, n, s)]
    <2>1. rows'[b].bk = q.bk /\ \A c \in Bookings \ {b} : rows'[c] = rows[c]
      BY <1>1, <1>2
    <2> QED
      BY <1>1, <1>3, <2>1, ContentsAfter
  <1>5. \A c \in Bookings : Present(c) <=> Contents[c] # NoBooking
    BY DEF Contents, LockInv, TypeOK
  <1>6. \A c \in Bookings : Contents[c] # NoBooking => Contents[c].number # n
    <2>1. q.bk.number = n
      BY <1>3 DEF NewBooking
    <2> QED
      BY <1>5, <2>1 DEF Inserts, Insertable, Contents
  <1>7. Contents[b] = NoBooking
    BY <1>1, <1>5 DEF Inserts, Insertable
  <1>8. declines' = declines
    BY DEF Inserts
  <1>9. Lifecycle!Create(b)
    BY <1>3, <1>4, <1>6, <1>7, <1>8, SameGuards, SameEffects
    DEF Lifecycle!Create, Lifecycle!Exists, Contents
  <1> QED
    BY <1>1, <1>9 DEF Lifecycle!Next

(* An update is a method of the lifecycle.                                 *)
LEMMA UpdateRefines ==
    ASSUME LockInv, NEW q \in UpdateRequest, Updates(q)
    PROVE  Lifecycle!Next
  <1> DEFINE b == q.id
             bk == rows[b].bk
  <1>1. /\ b \in Bookings /\ rows'[b].bk = q.bk
        /\ \A c \in Bookings \ {b} : rows'[c] = rows[c]
        /\ q.op = "decline" => declines'
             = [declines EXCEPT ![b] = Append(declines[b], q.caller)]
        /\ q.op # "decline" => declines' = declines
    BY UpdateEffect DEF LockInv
  <1>2. Contents' = [Contents EXCEPT ![b] = q.bk]
    BY <1>1, ContentsAfter
  <1>3. Contents[b] = bk /\ bk # NoBooking
    BY <1>1 DEF Contents, Updates, LockInv, TypeOK
  <1>4. Change(q.op, q.caller, bk, q.bk) /\ q.op \in Operations
    BY DEF Updates, UpdateRequest
  <1>5. [c \in Bookings |-> rows[c].bk]'
          = [[c \in Bookings |-> rows[c].bk] EXCEPT ![b] = q.bk]
    BY <1>2 DEF Contents
  <1>6. [c \in Bookings |-> rows[c].bk][b] = bk /\ bk # NoBooking
    BY <1>1, <1>3
  <1> HIDE DEF bk, b
  <1>7. CASE q.op = "accept"
    <2>1. /\ q.caller \in Runners
          /\ Lifecycle!MayAccept(bk) /\ q.bk = Lifecycle!AfterAccept(bk, q.caller)
      BY <1>4, <1>7, SameGuards, SameEffects DEF Change
    <2>2. Lifecycle!Accept(b, q.caller)
      BY <1>1, <1>5, <1>6, <1>7, <2>1
      DEF Lifecycle!Accept, Lifecycle!Becomes, Lifecycle!Exists
    <2> QED
      BY <1>1, <2>1, <2>2 DEF Lifecycle!Next
  <1>8. CASE q.op = "pickup"
    <2>1. Lifecycle!MayStartDelivery(bk) /\ q.bk = Lifecycle!AfterStartDelivery(bk)
      BY <1>4, <1>8, SameGuards, SameEffects DEF Change
    <2>2. Lifecycle!StartDelivery(b)
      BY <1>1, <1>5, <1>6, <1>8, <2>1
      DEF Lifecycle!StartDelivery, Lifecycle!Becomes, Lifecycle!Exists
    <2> QED
      BY <1>1, <2>2 DEF Lifecycle!Next
  <1>9. CASE q.op = "deliver"
    <2>1. Lifecycle!MayConfirmDelivery(bk) /\ q.bk = Lifecycle!AfterConfirmDelivery(bk)
      BY <1>4, <1>9, SameGuards, SameEffects DEF Change
    <2>2. Lifecycle!ConfirmDelivery(b)
      BY <1>1, <1>5, <1>6, <1>9, <2>1
      DEF Lifecycle!ConfirmDelivery, Lifecycle!Becomes, Lifecycle!Exists
    <2> QED
      BY <1>1, <2>2 DEF Lifecycle!Next
  <1>10. CASE q.op = "complete"
    <2>1. Lifecycle!MayComplete(bk) /\ q.bk = Lifecycle!AfterComplete(bk, bk.estimatedPrice)
      BY <1>4, <1>10, SameGuards, SameEffects DEF Change
    <2>2. Lifecycle!Complete(b)
      BY <1>1, <1>5, <1>6, <1>10, <2>1
      DEF Lifecycle!Complete, Lifecycle!Becomes, Lifecycle!Exists
    <2> QED
      BY <1>1, <2>2 DEF Lifecycle!Next
  <1>11. CASE q.op = "cancel"
    <2>1. Lifecycle!MayCancel(bk) /\ q.bk = Lifecycle!AfterCancel(bk)
      BY <1>4, <1>11, SameGuards, SameEffects DEF Change
    <2>2. Lifecycle!Cancel(b)
      BY <1>1, <1>5, <1>6, <1>11, <2>1
      DEF Lifecycle!Cancel, Lifecycle!Becomes, Lifecycle!Exists
    <2> QED
      BY <1>1, <2>2 DEF Lifecycle!Next
  <1>12. CASE q.op = "decline"
    <2>1. /\ Lifecycle!MayDecline(bk, q.caller) /\ q.bk = Lifecycle!AfterDecline(bk)
          /\ q.caller = bk.runner /\ q.caller # None
      BY <1>4, <1>12, SameGuards, SameEffects DEF Change, MayDecline
    <2>2. q.caller \in Runners
      <3>1. bk \in Booking
        BY <1>1, RowTypes DEF bk, b, LockInv, Updates
      <3> QED
        BY <2>1, <3>1 DEF Booking
    <2>3. Lifecycle!Decline(b, q.caller)
      BY <1>1, <1>5, <1>6, <1>12, <2>1
      DEF Lifecycle!Decline, Lifecycle!Becomes, Lifecycle!Exists
    <2> QED
      BY <1>1, <2>2, <2>3 DEF Lifecycle!Next
  <1> QED
    BY <1>4, <1>7, <1>8, <1>9, <1>10, <1>11, <1>12 DEF Operations

(* A step of the tables is a step of the lifecycle, or invisible to it.    *)
LEMMA TableStepRefines ==
    ASSUME LockInv, TableStep
    PROVE  [Lifecycle!Next]_(Lifecycle!vars)
  <1>1. CASE UNCHANGED <<rows, declines>>
    BY <1>1 DEF Lifecycle!vars
  <1> QED
    BY <1>1, InsertRefines, UpdateRefines DEF TableStep

(* The service implements the lifecycle.                                   *)
THEOREM ServiceImplementsLifecycle == Spec => ImplementsLifecycle
  <1>1. Init => Lifecycle!Init
    BY DEF Init, Lifecycle!Init
  <1>2. LockInv /\ [Next]_vars => [Lifecycle!Next]_(Lifecycle!vars)
    BY TableSteps, TableStepRefines
  <1> QED
    BY <1>1, <1>2, LockCorrect, PTL DEF Spec, ImplementsLifecycle, Lifecycle!Spec
=============================================================================
