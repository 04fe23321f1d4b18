--------------------------- MODULE BookingService ---------------------------
(***************************************************************************)
(* The booking service: workers (HTTP request goroutines and the payment   *)
(* consumer, of one or several server processes) that run the handlers of  *)
(* internal/application/booking_service.go against one bookings table and  *)
(* one Kafka topic.                                                        *)
(*                                                                         *)
(* A handler is cut where other workers can get in between: it loads the   *)
(* row and applies the aggregate's method to its private copy (one step),  *)
(* writes the copy back under the optimistic lock (one step), and then     *)
(* publishes an event (one step).  Each of the last two may fail, and a    *)
(* process may crash between any two of them.                              *)
(***************************************************************************)
EXTENDS BookingAggregate, Sequences, FiniteSets

CONSTANTS Bookings,   \* booking identifiers
          Workers,    \* goroutines that serve requests
          MaxVersion, \* bound: no handler starts on a row at this version
          MaxFaults   \* bound: failed calls and crashes in a behaviour

ASSUME ServiceAssumption ==
    /\ IsFiniteSet(Workers)
    /\ MaxVersion \in Nat /\ MaxFaults \in Nat

VARIABLES rows,       \* the bookings table: content and version column
          declines,   \* the booking_decline_reasons table, in order
          request,    \* what each worker holds between two steps
          published,  \* the events the topic has received
          faults      \* failures so far

vars == <<rows, declines, request, published, faults>>
-----------------------------------------------------------------------------
Row == [bk : Booking \cup {NoBooking}, version : Nat]

(* No row has version 0: a booking is inserted with version 1.             *)
Present(b) == rows[b].version > 0

(* publishEvent drops its key argument, so consumers see the events of one *)
(* booking in no particular order: the topic is a set.  The version is not *)
(* part of the payload; it tags the change the event is about.             *)
Event ==
    [type    : (Operations \ {"decline"}) \cup {"create"},
     booking : Bookings,
     version : Nat,
     runner  : Runners \cup {None}]

Idle == [stage |-> "idle"]

SaveRequest    == [stage : {"save"}, id : Bookings, bk : Booking]
UpdateRequest  == [stage : {"update"}, op : Operations, id : Bookings,
                   caller : Runners \cup {None}, bk : Booking, version : Nat]
PublishRequest == [stage : {"publish"}, event : Event]

AnyRequest == {Idle} \cup SaveRequest \cup UpdateRequest \cup PublishRequest

Hold(w, q) == request' = [request EXCEPT ![w] = q]
-----------------------------------------------------------------------------
Init ==
    /\ rows = [b \in Bookings |-> [bk |-> NoBooking, version |-> 0]]
    /\ declines = [b \in Bookings |-> <<>>]
    /\ request = [w \in Workers |-> Idle]
    /\ published = {}
    /\ faults = 0

(* NewBooking draws a new id and a booking number before anything is saved.*)
StartCreate(w, o, s) ==
    /\ request[w].stage = "idle"
    /\ MayCreate(s)
    /\ \E b \in Bookings, n \in Numbers :
         /\ ~ Present(b)
         /\ Hold(w, [stage |-> "save", id |-> b, bk |-> NewBooking(o, n, s)])
    /\ UNCHANGED <<rows, declines, published, faults>>

CreateBooking(w) == \E o \in Owners, s \in Specs : StartCreate(w, o, s)

(* Only the owner may rebook; the copy has no schedule.                    *)
RebookBooking(w, b) ==
    /\ Present(b)
    /\ \E o \in Owners :
         /\ o = rows[b].bk.owner
         /\ StartCreate(w, o, Unscheduled[rows[b].bk.spec])

(* FindByID: the handlers below start from a row, within the bound.        *)
Loads(w, b) ==
    /\ request[w].stage = "idle"
    /\ Present(b)
    /\ rows[b].version < MaxVersion

(* The rest of the handler up to Update: the private copy as the method    *)
(* leaves it, with its version incremented.                                *)
HoldChange(w, b, op, r, bk) ==
    /\ Hold(w, [stage |-> "update", op |-> op, id |-> b, caller |-> r,
                bk |-> bk, version |-> rows[b].version + 1])
    /\ UNCHANGED <<rows, declines, published, faults>>

AcceptBooking(w, b, r) ==
    /\ Loads(w, b)
    /\ MayAccept(rows[b].bk)
    /\ HoldChange(w, b, "accept", r, AfterAccept(rows[b].bk, r))

StartDelivery(w, b) ==
    /\ Loads(w, b)
    /\ MayStartDelivery(rows[b].bk)
    /\ HoldChange(w, b, "pickup", None, AfterStartDelivery(rows[b].bk))

ConfirmDelivery(w, b) ==
    /\ Loads(w, b)
    /\ MayConfirmDelivery(rows[b].bk)
    /\ HoldChange(w, b, "deliver", None, AfterConfirmDelivery(rows[b].bk))

(* The final price is the estimated one.                                   *)
CompleteBooking(w, b) ==
    /\ Loads(w, b)
    /\ MayComplete(rows[b].bk)
    /\ HoldChange(w, b, "complete", None,
                  AfterComplete(rows[b].bk, rows[b].bk.estimatedPrice))

CancelBooking(w, b) ==
    /\ Loads(w, b)
    /\ MayCancel(rows[b].bk)
    /\ HoldChange(w, b, "cancel", None, AfterCancel(rows[b].bk))

DeclineBooking(w, b, r) ==
    /\ Loads(w, b)
    /\ MayDecline(rows[b].bk, r)
    /\ HoldChange(w, b, "decline", r, AfterDecline(rows[b].bk))

Handle(w, b) ==
    \/ RebookBooking(w, b)
    \/ \E r \in Runners : AcceptBooking(w, b, r) \/ DeclineBooking(w, b, r)
    \/ StartDelivery(w, b) \/ ConfirmDelivery(w, b)
    \/ CompleteBooking(w, b) \/ CancelBooking(w, b)
-----------------------------------------------------------------------------
(* The events of the handlers: CancelBooking sends no runner.              *)
RequestedEvent(b) ==
    [type |-> "create", booking |-> b, version |-> 1, runner |-> None]

EventOf(q) ==
    [type |-> q.op, booking |-> q.id, version |-> q.version,
     runner |-> IF q.op = "cancel" THEN None ELSE q.bk.runner]

\* Mutated form of Insertable: booking_number has no unique constraint.
InsertableUnnumbered(q) == ~ Present(q.id)

(* The unique constraints of the table: the primary key and the number.    *)
Insertable(q) ==
    /\ ~ Present(q.id)
    /\ \A b \in Bookings : Present(b) => rows[b].bk.number # q.bk.number

Insert(q) == rows' = [rows EXCEPT ![q.id] = [bk |-> q.bk, version |-> 1]]

Save(w) ==
    /\ request[w].stage = "save"
    /\ Insertable(request[w])
    /\ Insert(request[w])
    /\ Hold(w, [stage |-> "publish", event |-> RequestedEvent(request[w].id)])
    /\ UNCHANGED <<declines, published, faults>>

(* A number already in use is an error for the client: no other is drawn.  *)
SaveDuplicate(w) ==
    /\ request[w].stage = "save"
    /\ ~ Insertable(request[w])
    /\ Hold(w, Idle)
    /\ UNCHANGED <<rows, declines, published, faults>>

\* Mutated form of Matches: the version column is not compared.
MatchesAnyVersion(q) == Present(q.id)

(* The WHERE clause of Update selects the row.                             *)
Matches(q) == rows[q.id].version = q.version - 1

\* Mutated form of WriteRow: the version column is not written.
WriteRowKeepsVersion(q) == rows' = [rows EXCEPT ![q.id].bk = q.bk]

WriteRow(q) == rows' = [rows EXCEPT ![q.id] = [bk |-> q.bk, version |-> q.version]]

\* Mutated form of RecordDecline: no row is inserted.
RecordNoDecline(b, r) == UNCHANGED declines

RecordDecline(b, r) == declines' = [declines EXCEPT ![b] = Append(@, r)]

(* The transaction of an update: the row, and for a decline its reason.    *)
Write(q) ==
    /\ Matches(q)
    /\ WriteRow(q)
    /\ IF q.op = "decline" THEN RecordDecline(q.id, q.caller)
                           ELSE UNCHANGED declines

(* DeclineBooking publishes nothing.                                       *)
Commit(w) ==
    /\ request[w].stage = "update"
    /\ Write(request[w])
    /\ Hold(w, IF request[w].op = "decline" THEN Idle
               ELSE [stage |-> "publish", event |-> EventOf(request[w])])
    /\ UNCHANGED <<published, faults>>

\* Mutated form of Conflict: RowsAffected is not looked at.
ConflictUnnoticed(w) ==
    /\ request[w].stage = "update"
    /\ ~ Matches(request[w])
    /\ Hold(w, IF request[w].op = "decline" THEN Idle
               ELSE [stage |-> "publish", event |-> EventOf(request[w])])
    /\ UNCHANGED <<rows, declines, published, faults>>

(* No row was affected: an error for the client, and no event.             *)
Conflict(w) ==
    /\ request[w].stage = "update"
    /\ ~ Matches(request[w])
    /\ Hold(w, Idle)
    /\ UNCHANGED <<rows, declines, published, faults>>

\* Mutated form of Publish: the event is never sent.
PublishNothing(w) ==
    /\ request[w].stage = "publish"
    /\ Hold(w, Idle)
    /\ UNCHANGED <<rows, declines, published, faults>>

Publish(w) ==
    /\ request[w].stage = "publish"
    /\ published' = published \cup {request[w].event}
    /\ Hold(w, Idle)
    /\ UNCHANGED <<rows, declines, faults>>
-----------------------------------------------------------------------------
Fault == faults < MaxFaults /\ faults' = faults + 1

(* The load, the insert or the update fails and changes nothing.           *)
DatabaseError(w) ==
    /\ request[w].stage # "publish"
    /\ Hold(w, Idle)
    /\ Fault
    /\ UNCHANGED <<rows, declines, published>>

(* The database commits but the worker gets an error: it publishes nothing.*)
CommitUnacknowledged(w) ==
    /\ \/ /\ request[w].stage = "save"
          /\ Insertable(request[w])
          /\ Insert(request[w])
          /\ UNCHANGED declines
       \/ /\ request[w].stage = "update"
          /\ Write(request[w])
    /\ Hold(w, Idle)
    /\ Fault
    /\ UNCHANGED published

(* A publish error is logged and dropped.                                  *)
PublishError(w) ==
    /\ request[w].stage = "publish"
    /\ Hold(w, Idle)
    /\ Fault
    /\ UNCHANGED <<rows, declines, published>>

(* A process stops: its workers S lose what they held.                     *)
Crash(S) ==
    /\ S # {}
    /\ request' = [w \in Workers |-> IF w \in S THEN Idle ELSE request[w]]
    /\ Fault
    /\ UNCHANGED <<rows, declines, published>>
-----------------------------------------------------------------------------
Progress(w) ==
    Save(w) \/ SaveDuplicate(w) \/ Commit(w) \/ Conflict(w) \/ Publish(w)

Fail(w) == DatabaseError(w) \/ CommitUnacknowledged(w) \/ PublishError(w)

Next ==
    \/ \E w \in Workers :
         \/ CreateBooking(w)
         \/ \E b \in Bookings : Handle(w, b)
         \/ Progress(w)
         \/ Fail(w)
    \/ \E S \in SUBSET Workers : Crash(S)

Spec == Init /\ [][Next]_vars

(* A request that was started is carried on: goroutines are scheduled and  *)
(* the database and the broker answer.  Nobody has to send a request.      *)
FairSpec == Spec /\ \A w \in Workers : WF_vars(Progress(w))
-----------------------------------------------------------------------------
(* Every variable has its type: a row has content exactly when it has a    *)
(* version, a held decline has a runner to record, and no booking is ever  *)
(* stored without a positive price, the last check of NewBooking.          *)
TypeOK ==
    /\ rows \in [Bookings -> Row]
    /\ \A b \in Bookings : Present(b) <=> rows[b].bk # NoBooking
    /\ declines \in [Bookings -> Seq(Runners)]
    /\ request \in [Workers -> AnyRequest]
    /\ \A w \in Workers :
         request[w].stage = "update" /\ request[w].op = "decline"
             => request[w].caller \in Runners
    /\ published \subseteq Event
    /\ faults \in 0..MaxFaults

(* The optional columns of every stored row agree with its status, however *)
(* the handlers that wrote them were interleaved: a requested booking has  *)
(* no runner, a delivered one was picked up, and so on.                    *)
RowsConsistent ==
    \A b \in Bookings : Present(b) => FieldsMatchStatus(rows[b].bk)

(* The optimistic lock loses no update: the version of a row counts the    *)
(* changes that can be seen in it.  Every set column took one change, and  *)
(* every recorded decline two, the acceptance and the decline itself; no   *)
(* decline is recorded of a booking that is not there.                     *)
VersionCountsChanges ==
    \A b \in Bookings :
        IF Present(b)
          THEN rows[b].version = 1 + FieldsSet(rows[b].bk) + 2 * Len(declines[b])
          ELSE declines[b] = <<>>

(* A booking number names one booking, though each worker draws its own    *)
(* without looking at the table.                                           *)
NumbersUnique ==
    \A b, c \in Bookings :
        Present(b) /\ Present(c) /\ rows[b].bk.number = rows[c].bk.number => b = c

(* A change a worker holds is never ahead of the row by more than itself,  *)
(* and while its version is still the next one it is a legal change of the *)
(* row as it is stored now: no other change slipped in under the same      *)
(* version (accepting, declining and accepting again included).  A booking *)
(* to be inserted is as NewBooking made it from a valid request.           *)
HeldCreationApplies(q) ==
    \E o \in Owners, n \in Numbers, s \in Specs :
        MayCreate(s) /\ q.bk = NewBooking(o, n, s)

HeldChangeApplies(q) ==
    /\ 2 <= q.version
    /\ q.version - 1 <= rows[q.id].version
    /\ Matches(q) => Change(q.op, q.caller, rows[q.id].bk, q.bk)

HeldApplies(w) ==
    /\ request[w].stage = "save" => HeldCreationApplies(request[w])
    /\ request[w].stage = "update" => HeldChangeApplies(request[w])

HeldChangesApply == \A w \in Workers : HeldApplies(w)

(* Events that were sent, and those a worker is about to send.             *)
InFlight == {w \in Workers : request[w].stage = "publish"}
Emitted == published \cup {request[w].event : w \in InFlight}

(* The status a booking has after the change an event is about.            *)
StatusAfter ==
    [type \in (Operations \ {"decline"}) \cup {"create"} |->
        CASE type = "create"   -> "requested"
          [] type = "accept"   -> "accepted"
          [] type = "pickup"   -> "in_progress"
          [] type = "deliver"  -> "delivered"
          [] type = "complete" -> "completed"
          [] type = "cancel"   -> "cancelled"]

(* Events tell of committed changes only: none is ahead of its row, and    *)
(* one about the current version names the status and runner of the row.   *)
(* A handler that lost the race on the lock must not announce its change.  *)
EventsTruthful ==
    \A e \in Emitted :
        /\ e.version <= rows[e.booking].version
        /\ e.version = rows[e.booking].version =>
             /\ rows[e.booking].bk.status = StatusAfter[e.type]
             /\ e.type # "cancel" => e.runner = rows[e.booking].bk.runner

(* A committed change is announced at most once: no two workers hold or    *)
(* sent an event about the same version of the same booking.               *)
EventsUnique ==
    /\ \A e, f \in Emitted :
         e.booking = f.booking /\ e.version = f.version => e = f
    /\ \A v, w \in InFlight : request[v].event = request[w].event => v = w
    /\ \A w \in InFlight : request[w].event \notin published

(* After booking.completed or booking.cancelled comes nothing more: the    *)
(* row still has the version that event is about.                          *)
TerminalEventsFinal ==
    \A e \in Emitted :
        e.type \in {"complete", "cancel"} => rows[e.booking].version = e.version

(* The job is offered to one runner at a time: between two announcements   *)
(* that a booking was accepted there is a recorded decline.                *)
AcceptsSeparatedByDeclines ==
    \A b \in Bookings :
        Cardinality({e \in Emitted : e.booking = b /\ e.type = "accept"})
            <= Len(declines[b]) + 1

(* StartDelivery, ConfirmDelivery dereference the runner of the row after  *)
(* the update: it is never nil, or the request would panic once the change *)
(* is stored.                                                              *)
RunnerDereferenced ==
    \A e \in Emitted : e.type \in {"pickup", "deliver"} => e.runner # None

(* Announcements are neither made up nor lost without a cause: there are   *)
(* never more than changes that are not declines, and each failure costs   *)
(* at most one event of every worker (a publish error or a lost            *)
(* acknowledgement that of its worker, a crash all that were held).        *)
(* Without failures nothing is lost.                                       *)
EventsAbout(b) == {e \in Emitted : e.booking = b}

Due(b) == rows[b].version - Len(declines[b])

LostOnlyByFaults ==
    \A b \in Bookings :
        LET announced == Cardinality(EventsAbout(b))
        IN  /\ announced <= Due(b)
            /\ Due(b) <= announced + faults * Cardinality(Workers)

(* A completed or cancelled booking never changes again, not even by a     *)
(* handler that loaded it before it was.                                   *)
TerminalUntouched ==
    \A b \in Bookings :
        Present(b) /\ rows[b].bk.status \in {"completed", "cancelled"}
            => rows'[b] = rows[b]

TerminalIsFinal == [][TerminalUntouched]_vars

(* A booking changes hands only by the rules: an assigned runner loses it  *)
(* only by declining it himself, before the pickup, and a runner is only   *)
(* assigned to a booking that has none.                                    *)
HandsChangeByRules ==
    \A b \in Bookings : Present(b) /\ rows'[b].bk.runner # rows[b].bk.runner =>
        \/ rows[b].bk.runner = None
        \/ /\ rows'[b].bk.runner = None
           /\ rows[b].bk.status = "accepted"
           /\ declines'[b] = Append(declines[b], rows[b].bk.runner)

RunnerKept == [][HandsChangeByRules]_vars

(* The service implements the lifecycle: with the versions, the requests   *)
(* in progress, the events and the failures hidden, each step changes at   *)
(* most one booking, by one method of the aggregate applied to the booking *)
(* as it stands, and logs every decline.                                   *)
Lifecycle ==
    INSTANCE BookingLifecycle WITH bookings <- [b \in Bookings |-> rows[b].bk]

ImplementsLifecycle == Lifecycle!Spec

(* A committed change is announced in the end, if no call fails (an        *)
(* unassigned booking past its first version was declined: no event).      *)
ChangesAnnounced ==
    \A b \in Bookings : \A v \in 1..MaxVersion :
        rows[b].version = v /\ (v = 1 \/ rows[b].bk.status # "requested")
            ~> \E e \in published : e.booking = b /\ e.version = v
=============================================================================
