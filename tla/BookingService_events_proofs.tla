-------------------- MODULE BookingService_events_proofs --------------------
(***************************************************************************)
(* Proofs about the events of BookingService, for every value of its       *)
(* constants: what is announced was committed, once, and is never followed *)
(* by anything after the booking's last change.                            *)
(***************************************************************************)
EXTENDS BookingService_proofs, FiniteSetTheorems

(* What is true of an event from the step that makes it on.                *)
EventSound(e) ==
    /\ 1 <= e.version
    /\ e.version <= rows[e.booking].version
    /\ e.version = rows[e.booking].version =>
         /\ rows[e.booking].bk.status = StatusAfter[e.type]
         /\ e.type # "cancel" => e.runner = rows[e.booking].bk.runner
    /\ e.type \in {"complete", "cancel"} => rows[e.booking].version = e.version
    /\ e.type \in {"pickup", "deliver"} => e.runner # None

(* The inductive invariant about events.                                   *)
EventsInv ==
    /\ LockInv
    /\ \A e \in Emitted : EventSound(e)
    /\ EventsUnique

(* What was sent or is held by a worker is an event.                       *)
LEMMA EmittedTypes == TypeOK => Emitted \subseteq Event
  <1>1. ASSUME TypeOK, NEW w \in Workers, request[w].stage = "publish"
        PROVE  request[w].event \in Event
    BY <1>1, StageTypes DEF TypeOK, PublishRequest
  <1> QED
    BY <1>1 DEF Emitted, InFlight, TypeOK

(* A step of the tables leaves what was true of an event true: the only    *)
(* steps that reach its row move the version on, past a version that is    *)
(* not a final one.                                                        *)
LEMMA SoundnessKept ==
    ASSUME LockInv, TableStep, NEW e \in Event, EventSound(e)
    PROVE  EventSound(e)'
  <1>1. e.booking \in Bookings /\ e.version \in Nat
    BY DEF Event
  <1>2. /\ rows \in [Bookings -> Row] /\ rows[e.booking].version \in Nat
        /\ rows[e.booking].version > 0
    BY <1>1, RowTypes DEF LockInv, TypeOK, EventSound
  <1>3. CASE rows'[e.booking] = rows[e.booking]
    BY <1>3 DEF EventSound
  <1>4. ASSUME NEW q \in SaveRequest, Inserts(q)
        PROVE  rows'[e.booking] = rows[e.booking]
    <2>1. q.id # e.booking
      BY <1>2, <1>4 DEF Inserts, Insertable, Present
    <2> QED
      BY <1>1, <1>2, <1>4, <2>1 DEF Inserts, Insert
  <1>5. ASSUME NEW q \in UpdateRequest, Updates(q), q.id = e.booking
        PROVE  EventSound(e)'
    <2>1. rows' = [rows EXCEPT ![e.booking] = [bk |-> q.bk, version |-> q.version]]
      BY <1>5 DEF Updates, Write, WriteRow
    <2>2. rows'[e.booking].version = q.version
      BY <1>1, <1>2, <2>1
    <2>3. q.version \in Nat /\ rows[e.booking].version = q.version - 1
      BY <1>5 DEF Updates, Write, Matches, UpdateRequest
    <2>4. e.version < rows'[e.booking].version
      BY <1>1, <1>2, <2>2, <2>3 DEF EventSound
    <2>5. e.type \notin {"complete", "cancel"}
      <3>1. rows[e.booking].bk.status \notin {"completed", "cancelled"}
        BY <1>5, TerminalStuck DEF Updates
      <3>2. StatusAfter["complete"] = "completed" /\ StatusAfter["cancel"] = "cancelled"
        BY DEF StatusAfter, Operations
      <3> QED
        BY <3>1, <3>2 DEF EventSound
    <2>6. e.type \in {"pickup", "deliver"} => e.runner # None
      BY DEF EventSound
    <2>7. 1 <= e.version /\ e.version <= rows'[e.booking].version
          /\ e.version # rows'[e.booking].version
      BY <1>1, <1>2, <2>2, <2>3, <2>4 DEF EventSound
    <2> QED
      BY <2>5, <2>6, <2>7 DEF EventSound
  <1>6. ASSUME NEW q \in UpdateRequest, Updates(q), q.id # e.booking
        PROVE  rows'[e.booking] = rows[e.booking]
    BY <1>1, <1>6, UpdateEffect DEF LockInv
  <1> QED
    BY <1>3, <1>4, <1>5, <1>6 DEF TableStep

(* The steps that make no event: workers drop what they hold, take what is *)
(* not an event, or send the event they hold.                              *)
Quiet ==
    /\ \A v \in Workers : \/ request'[v] = request[v]
                          \/ request'[v].stage # "publish"
    /\ \/ published' = published
       \/ \E w \in InFlight : /\ published' = published \cup {request[w].event}
                              /\ request'[w].stage # "publish"

(* The steps that make event e: it is about a version that is new.         *)
Announces(w, e) ==
    /\ e \in Event
    /\ request'[w].stage = "publish" /\ request'[w].event = e
    /\ \A v \in Workers \ {w} : request'[v] = request[v]
    /\ published' = published
    /\ \A f \in Emitted : f.booking = e.booking => f.version < e.version
    /\ e.version = rows'[e.booking].version
    /\ e.type = "accept" => Present(e.booking) /\ rows[e.booking].bk.runner = None

LEMMA QuietKeeps ==
    ASSUME EventsUnique, Quiet
    PROVE  Emitted' \subseteq Emitted /\ EventsUnique'
  <1>1. ASSUME NEW v \in Workers, request'[v].stage = "publish"
        PROVE  v \in InFlight /\ request'[v] = request[v]
    BY <1>1 DEF Quiet, InFlight
  <1>2. published' \subseteq Emitted
    BY DEF Quiet, Emitted
  <1>3. Emitted' \subseteq Emitted
    BY <1>1, <1>2 DEF Emitted, InFlight
  <1>4. ASSUME NEW v \in Workers, request'[v].stage = "publish"
        PROVE  request'[v].event \notin published'
    <2>1. v \in InFlight /\ request'[v] = request[v] /\ request[v].event \notin published
      BY <1>1, <1>4 DEF EventsUnique
    <2>2. ASSUME NEW w \in InFlight, request'[w].stage # "publish"
          PROVE  request[v].event # request[w].event
      BY <1>4, <2>1, <2>2 DEF EventsUnique
    <2> QED
      BY <2>1, <2>2 DEF Quiet
  <1>5. ASSUME NEW v \in Workers, NEW w \in Workers, request'[v].stage = "publish",
               request'[w].stage = "publish", request'[v].event = request'[w].event
        PROVE  v = w
    BY <1>1, <1>5 DEF EventsUnique
  <1>6. \A e, f \in Emitted' : e.booking = f.booking /\ e.version = f.version => e = f
    BY <1>3 DEF EventsUnique
  <1> QED
    BY <1>3, <1>4, <1>5, <1>6 DEF EventsUnique, InFlight

LEMMA AnnounceKeeps ==
    ASSUME TypeOK, EventsUnique, NEW w \in Workers, NEW e, Announces(w, e)
    PROVE  Emitted' \subseteq Emitted \cup {e} /\ EventsUnique'
  <1>1. ASSUME NEW v \in Workers, v # w, request'[v].stage = "publish"
        PROVE  v \in InFlight /\ request'[v] = request[v]
    BY <1>1 DEF Announces, InFlight
  <1>2. Emitted' \subseteq Emitted \cup {e}
    BY <1>1 DEF Emitted, InFlight, Announces
  <1>3. \A f \in Emitted : f.booking = e.booking => f.version # e.version
    BY EmittedTypes DEF Announces, Event
  <1>4. e \notin Emitted
    BY <1>3
  <1>5. \A f, g \in Emitted' : f.booking = g.booking /\ f.version = g.version => f = g
    BY <1>2, <1>3 DEF EventsUnique
  <1>6. ASSUME NEW v \in Workers, request'[v].stage = "publish"
        PROVE  request'[v].event \notin published'
    <2>1. CASE v = w
      BY <1>4, <2>1 DEF Announces, Emitted
    <2>2. CASE v # w
      BY <1>1, <1>6, <2>2 DEF Announces, EventsUnique
    <2> QED
      BY <2>1, <2>2
  <1>7. ASSUME NEW v \in Workers, v # w, request'[v].stage = "publish"
        PROVE  request'[v].event # e /\ request'[v].event \in Emitted
    BY <1>1, <1>4, <1>7 DEF Emitted
  <1>8. ASSUME NEW u \in Workers, NEW v \in Workers, request'[u].stage = "publish",
               request'[v].stage = "publish", request'[u].event = request'[v].event
        PROVE  u = v
    <2>1. CASE u # w /\ v # w
      BY <1>1, <1>8, <2>1 DEF EventsUnique
    <2>2. CASE u = w \/ v = w
      BY <1>7, <1>8, <2>2 DEF Announces
    <2> QED
      BY <2>1, <2>2
  <1> QED
    BY <1>2, <1>5, <1>6, <1>8 DEF EventsUnique, InFlight

(* An insertion makes a sound event about the first version.               *)
LEMMA SaveAnnounces ==
    ASSUME EventsInv, NEW w \in Workers, Save(w)
    PROVE  \E e \in Event : Announces(w, e) /\ EventSound(e)'
  <1> DEFINE q == request[w]
             e == RequestedEvent(q.id)
  <1>1. /\ q.stage = "save" /\ Insertable(q) /\ Insert(q)
        /\ Hold(w, [stage |-> "publish", event |-> e]) /\ published' = published
    BY DEF Save
  <1>2. q \in SaveRequest /\ request \in [Workers -> AnyRequest]
    BY <1>1, StageTypes DEF EventsInv, LockInv, TypeOK
  <1>3. q.id \in Bookings /\ rows \in [Bookings -> Row] /\ rows[q.id].version = 0
    BY <1>1, <1>2, RowTypes DEF SaveRequest, Insertable, EventsInv, LockInv, TypeOK
  <1>4. e \in Event
    BY <1>3, EventTypes
  <1>5. \A f \in Emitted : f.booking # q.id
    <2>1. ASSUME NEW f \in Emitted, f.booking = q.id PROVE FALSE
      <3>1. /\ f.version \in Nat /\ 1 <= f.version
            /\ f.version <= rows[q.id].version
        BY <2>1, EmittedTypes DEF EventsInv, EventSound, LockInv, Event
      <3> QED
        BY <1>3, <3>1
    <2> QED
      BY <2>1
  <1>6. e.booking = q.id /\ e.version = 1 /\ e.type = "create" /\ e.runner = None
    BY DEF RequestedEvent
  <1>7. /\ request'[w].stage = "publish" /\ request'[w].event = e
        /\ \A v \in Workers \ {w} : request'[v] = request[v]
    BY <1>1, <1>2 DEF Hold
  <1>8. rows'[q.id].version = 1 /\ rows'[q.id].bk = q.bk
    BY <1>1, <1>3 DEF Insert
  <1>9. Announces(w, e)
    BY <1>1, <1>4, <1>5, <1>6, <1>7, <1>8 DEF Announces
  <1>10. q.bk.status = "requested" /\ q.bk.runner = None
    <2>1. HeldCreationApplies(q)
      BY <1>1 DEF EventsInv, LockInv, HeldChangesApply, HeldApplies
    <2> QED
      BY <2>1 DEF HeldCreationApplies, NewBooking
  <1>11. StatusAfter["create"] = "requested"
    BY DEF StatusAfter
  <1>12. \A f \in Event : f.booking = e.booking /\ f.version = 1
           /\ f.type = "create" /\ f.runner = None => EventSound(f)'
    BY <1>6, <1>8, <1>10, <1>11 DEF EventSound
  <1> QED
    BY <1>4, <1>6, <1>9, <1>12

(* What a change leaves behind is the status its event names.              *)
LEMMA ChangeStatus ==
    ASSUME NEW bk \in Booking, NEW new, NEW op, NEW r, Change(op, r, bk, new),
           op # "decline"
    PROVE  new.status = StatusAfter[op]
  BY DEF Change, StatusAfter, Operations, Booking, AfterAccept, AfterStartDelivery,
         AfterConfirmDelivery, AfterComplete, AfterCancel

(* A commit makes a sound event about the version it writes, but for a     *)
(* decline.                                                                *)
LEMMA CommitAnnounces ==
    ASSUME EventsInv, NEW w \in Workers, Commit(w), request[w].op # "decline"
    PROVE  \E e \in Event : Announces(w, e) /\ EventSound(e)'
  <1> DEFINE q == request[w]
             e == EventOf(q)
             b == q.id
  <1>1. /\ q.stage = "update" /\ Write(q)
        /\ Hold(w, [stage |-> "publish", event |-> e]) /\ published' = published
    BY DEF Commit
  <1>2. q \in UpdateRequest /\ request \in [Workers -> AnyRequest]
    BY <1>1, StageTypes DEF EventsInv, LockInv, TypeOK
  <1>3. /\ b \in Bookings /\ q.bk \in Booking /\ q.version \in Nat
        /\ q.op \in Operations
    BY <1>2 DEF UpdateRequest
  <1>4. /\ rows[b].version = q.version - 1 /\ 2 <= q.version
        /\ Change(q.op, q.caller, rows[b].bk, q.bk)
    BY <1>1 DEF EventsInv, LockInv, HeldChangesApply, HeldApplies,
                HeldChangeApplies, Write, Matches
  <1>5. rows \in [Bookings -> Row] /\ rows[b].version \in Nat
    BY <1>3, RowTypes DEF EventsInv, LockInv, TypeOK
  <1>6. Present(b)
    <2> HIDE DEF q, b
    <2> QED
      BY <1>3, <1>4, <1>5 DEF Present
  <1>7. rows[b].bk \in Booking /\ FieldsMatchStatus(rows[b].bk)
    BY <1>3, <1>6, RowTypes DEF EventsInv, LockInv, RowsConsistent
  <1>8. q.bk.status = StatusAfter[q.op] /\ FieldsMatchStatus(q.bk)
    BY <1>3, <1>4, <1>7, ChangeStatus, ChangeFields
  <1>9. q.op \in {"pickup", "deliver"} => q.bk.runner # None
    <2>1. /\ StatusAfter["pickup"] = "in_progress"
          /\ StatusAfter["deliver"] = "delivered"
      BY DEF StatusAfter, Operations
    <2> QED
      BY <1>8, <2>1 DEF FieldsMatchStatus
  <1>10. e \in Event
    BY <1>2, EventTypes
  <1>11. /\ e.booking = b /\ e.version = q.version /\ e.type = q.op
         /\ e.type # "cancel" => e.runner = q.bk.runner
    BY DEF EventOf
  <1>12. \A f \in Emitted : f.booking = b => f.version < q.version
    <2>1. ASSUME NEW f \in Emitted, f.booking = b PROVE f.version < q.version
      <3>1. f.version \in Nat /\ f.version <= rows[b].version
        BY <2>1, EmittedTypes DEF EventsInv, EventSound, LockInv, Event
      <3> HIDE DEF q, b
      <3> QED
        BY <1>3, <1>4, <1>5, <3>1
    <2> QED
      BY <2>1
  <1>13. /\ request'[w].stage = "publish" /\ request'[w].event = e
         /\ \A v \in Workers \ {w} : request'[v] = request[v]
    BY <1>1, <1>2 DEF Hold
  <1>14. rows'[b].version = q.version /\ rows'[b].bk = q.bk
    BY <1>1, <1>3, <1>5 DEF Write, WriteRow
  <1>15. Announces(w, e)
    <2>1. q.op = "accept" => rows[b].bk.runner = None
      <3>1. q.op = "accept" => rows[b].bk.status = "requested"
        BY <1>4 DEF Change, MayAccept, CanTransitionTo, validTransitions
      <3> QED
        BY <1>7, <3>1 DEF FieldsMatchStatus
    <2> QED
      BY <1>1, <1>6, <1>10, <1>11, <1>12, <1>13, <1>14, <2>1 DEF Announces
  <1>16. ASSUME NEW f \in Event, f = e PROVE EventSound(f)'
    <2>1. /\ f.booking = b /\ f.version = q.version /\ f.type = q.op
          /\ f.type # "cancel" => f.runner = q.bk.runner
      BY <1>11, <1>16
    <2>2. /\ rows'[f.booking].version = f.version
          /\ rows'[f.booking].bk.status = StatusAfter[f.type]
          /\ f.type # "cancel" => f.runner = rows'[f.booking].bk.runner
          /\ f.type \in {"pickup", "deliver"} => f.runner # None
      BY <1>8, <1>9, <1>14, <2>1
    <2>3. 1 <= f.version /\ f.version <= f.version
      <3> HIDE DEF q, b
      <3> QED
        BY <1>3, <1>4, <2>1
    <2> QED
      BY <2>2, <2>3 DEF EventSound
  <1> QED
    BY <1>10, <1>15, <1>16

(* Every step is quiet or makes one sound event.                           *)
EventStep ==
    Quiet \/ \E w \in Workers, e \in Event : Announces(w, e) /\ EventSound(e)'

LEMMA EventSteps ==
    ASSUME EventsInv, [Next]_vars
    PROVE  EventStep
  <1>0. request \in [Workers -> AnyRequest]
    BY DEF EventsInv, LockInv, TypeOK
  <1>1. ASSUME NEW w \in Workers, NEW q, Hold(w, q), q.stage # "publish",
               published' = published
        PROVE  Quiet
    BY <1>0, <1>1 DEF Quiet, Hold
  <1>2. ASSUME NEW w \in Workers, NEW o, NEW s, StartCreate(w, o, s) PROVE Quiet
    BY <1>1, <1>2 DEF StartCreate
  <1>3. ASSUME NEW w \in Workers, NEW b, NEW op, NEW r, NEW bk,
               HoldChange(w, b, op, r, bk)
        PROVE  Quiet
    BY <1>1, <1>3 DEF HoldChange
  <1>4. ASSUME NEW w \in Workers, NEW b \in Bookings, Handle(w, b) PROVE Quiet
    BY <1>2, <1>3, <1>4 DEF Handle, RebookBooking, AcceptBooking, DeclineBooking,
         StartDelivery, ConfirmDelivery, CompleteBooking, CancelBooking
  <1>5. ASSUME NEW w \in Workers, CreateBooking(w) PROVE Quiet
    BY <1>2, <1>5 DEF CreateBooking
  <1>6. ASSUME NEW w \in Workers, Commit(w), request[w].op = "decline" PROVE Quiet
    BY <1>1, <1>6, IdleType DEF Commit
  <1>7. ASSUME NEW w \in Workers, Publish(w) PROVE Quiet
    BY <1>0, <1>7, IdleType DEF Publish, Quiet, Hold, InFlight
  <1>8. ASSUME NEW w \in Workers, SaveDuplicate(w) \/ Conflict(w) \/ Fail(w)
        PROVE  Quiet
    BY <1>1, <1>8, IdleType DEF SaveDuplicate, Conflict, Fail, DatabaseError,
         CommitUnacknowledged, PublishError
  <1>9. ASSUME NEW S \in SUBSET Workers, Crash(S) PROVE Quiet
    BY <1>9, IdleType DEF Crash, Quiet
  <1>10. CASE UNCHANGED vars
    BY <1>10 DEF vars, Quiet, EventStep
  <1> QED
    BY <1>4, <1>5, <1>6, <1>7, <1>8, <1>9, <1>10, SaveAnnounces, CommitAnnounces
    DEF Next, Progress, EventStep

LEMMA EventsKept ==
    ASSUME EventsInv, LockInv', TableStep, EventStep
    PROVE  EventsInv'
  <1>1. LockInv /\ TypeOK /\ EventsUnique
    BY DEF EventsInv, LockInv
  <1>2. \A e \in Emitted : EventSound(e)'
    BY <1>1, EmittedTypes, SoundnessKept DEF EventsInv
  <1>3. CASE Quiet
    BY <1>1, <1>2, <1>3, QuietKeeps DEF EventsInv
  <1>4. ASSUME NEW w \in Workers, NEW e \in Event, Announces(w, e), EventSound(e)'
        PROVE  EventsInv'
    BY <1>1, <1>2, <1>4, AnnounceKeeps DEF EventsInv
  <1> QED
    BY <1>3, <1>4 DEF EventStep

LEMMA EventsStep == EventsInv /\ [Next]_vars => EventsInv'
  BY LockStep, TableSteps, EventSteps, EventsKept DEF EventsInv

LEMMA EventsInit == Init => EventsInv /\ Emitted = {}
  <1> SUFFICES ASSUME Init PROVE EventsInv /\ Emitted = {}
    OBVIOUS
  <1>1. InFlight = {} /\ Emitted = {}
    BY IdleType DEF Init, InFlight, Emitted
  <1> QED
    BY <1>1, LockInit DEF EventsInv, EventsUnique

(* The events' invariant holds in every reachable state.                   *)
THEOREM EventsCorrect == Spec => []EventsInv
  BY EventsInit, EventsStep, PTL DEF Spec

(* Events tell of committed changes, with their status and their runner.   *)
THEOREM EventsStayTruthful == Spec => []EventsTruthful
  <1>1. EventsInv => EventsTruthful
    BY DEF EventsInv, EventSound, EventsTruthful
  <1> QED
    BY <1>1, EventsCorrect, PTL

(* A committed change is announced at most once.                           *)
THEOREM EventsStayUnique == Spec => []EventsUnique
  <1>1. EventsInv => EventsUnique
    BY DEF EventsInv
  <1> QED
    BY <1>1, EventsCorrect, PTL

(* Nothing follows a completion or a cancellation.                         *)
THEOREM TerminalEventsStayFinal == Spec => []TerminalEventsFinal
  <1>1. EventsInv => TerminalEventsFinal
    BY DEF EventsInv, EventSound, TerminalEventsFinal
  <1> QED
    BY <1>1, EventsCorrect, PTL

(* The runner that the pickup and the delivery dereference is there.       *)
THEOREM RunnerStaysDereferenced == Spec => []RunnerDereferenced
  <1>1. EventsInv => RunnerDereferenced
    BY DEF EventsInv, EventSound, RunnerDereferenced
  <1> QED
    BY <1>1, EventsCorrect, PTL
-----------------------------------------------------------------------------
(* Acceptances against declines: an acceptance that was announced is still *)
(* in force, or a decline was recorded that took it back.                  *)
Accepts(b) == {e \in Emitted : e.booking = b /\ e.type = "accept"}

Assigned(b) == IF Present(b) /\ rows[b].bk.runner # None THEN 1 ELSE 0

AcceptsCovered(b) ==
    /\ IsFiniteSet(Accepts(b))
    /\ Cardinality(Accepts(b)) <= Len(declines[b]) + Assigned(b)

AcceptsInv == EventsInv /\ \A b \in Bookings : AcceptsCovered(b)

(* A runner that goes leaves a decline behind.                             *)
LEMMA AssignmentsLogged ==
    ASSUME LockInv, TableStep, NEW b \in Bookings
    PROVE  /\ Len(declines[b]) \in Nat /\ Len(declines'[b]) \in Nat
           /\ Len(declines[b]) <= Len(declines'[b])
           /\ Len(declines[b]) + Assigned(b) <= Len(declines'[b]) + Assigned(b)'
  <1>1. declines \in [Bookings -> Seq(Runners)] /\ rows \in [Bookings -> Row]
    BY DEF LockInv, TypeOK
  <1>2. Len(declines[b]) \in Nat
    BY <1>1
  <1>3. CASE rows'[b] = rows[b] /\ declines'[b] = declines[b]
    BY <1>2, <1>3 DEF Assigned, Present
  <1>4. ASSUME NEW q \in SaveRequest, Inserts(q), b = q.id
        PROVE  Assigned(b) = 0 /\ declines' = declines
    BY <1>4 DEF Inserts, Insertable, Assigned
  <1>5. ASSUME NEW q \in SaveRequest, Inserts(q), b # q.id
        PROVE  rows'[b] = rows[b] /\ declines' = declines
    BY <1>1, <1>5 DEF Inserts, Insert
  <1>6. ASSUME NEW q \in UpdateRequest, Updates(q), b # q.id
        PROVE  rows'[b] = rows[b] /\ declines'[b] = declines[b]
    BY <1>1, <1>6, UpdateEffect DEF LockInv
  <1>7. ASSUME NEW q \in UpdateRequest, Updates(q), b = q.id, q.op = "decline"
        PROVE  Len(declines'[b]) = Len(declines[b]) + 1
    <2>1. declines'[b] = Append(declines[b], q.caller)
      BY <1>1, <1>7, UpdateEffect DEF LockInv
    <2>2. rows[b].bk \in Booking /\ MayDecline(rows[b].bk, q.caller)
      BY <1>7, RowTypes DEF Updates, Change, LockInv
    <2>3. q.caller \in Runners
      BY <2>2 DEF MayDecline, Booking
    <2> QED
      BY <1>1, <2>1, <2>3
  <1>8. ASSUME NEW q \in UpdateRequest, Updates(q), b = q.id, q.op # "decline"
        PROVE  declines' = declines /\ Assigned(b) <= Assigned(b)'
    <2>1. /\ declines' = declines
          /\ rows' = [rows EXCEPT ![b] = [bk |-> q.bk, version |-> q.version]]
      BY <1>8, UpdateEffect DEF LockInv
    <2>2. rows'[b].bk = q.bk /\ rows'[b].version = q.version
      BY <1>1, <2>1
    <2>3. /\ rows[b].version \in Nat /\ rows[b].version = q.version - 1
          /\ q.version \in Nat
      BY <1>8, RowTypes DEF LockInv, Updates, Write, Matches, UpdateRequest
    <2>4. Present(b)'
      BY <2>2, <2>3 DEF Present
    <2>5. /\ rows[b].bk \in Booking /\ FieldsMatchStatus(rows[b].bk)
          /\ Change(q.op, q.caller, rows[b].bk, q.bk)
      BY <1>8, RowTypes DEF LockInv, Updates, RowsConsistent
    <2>6. q.bk.runner # rows[b].bk.runner => rows[b].bk.runner = None
      BY <1>8, <2>5, RunnerChanges
    <2> QED
      BY <2>1, <2>2, <2>4, <2>6 DEF Assigned
  <1>9. Assigned(b) \in {0, 1} /\ Assigned(b)' \in {0, 1}
    BY DEF Assigned
  <1>10. CASE UNCHANGED <<rows, declines>>
    BY <1>3, <1>10
  <1>11. CASE \E q \in SaveRequest : Inserts(q)
    BY <1>2, <1>3, <1>4, <1>5, <1>9, <1>11
  <1>12. CASE \E q \in UpdateRequest : Updates(q)
    BY <1>2, <1>3, <1>6, <1>7, <1>8, <1>9, <1>12
  <1> QED
    BY <1>10, <1>11, <1>12 DEF TableStep

(* A step that announces no acceptance of b.                               *)
LEMMA OthersCovered ==
    ASSUME LockInv, TableStep, NEW b \in Bookings, AcceptsCovered(b),
           Accepts(b)' \subseteq Accepts(b)
    PROVE  AcceptsCovered(b)'
  <1>1. /\ IsFiniteSet(Accepts(b)') /\ Cardinality(Accepts(b)') \in Nat
        /\ Cardinality(Accepts(b)) \in Nat
        /\ Cardinality(Accepts(b)') <= Cardinality(Accepts(b))
    BY FS_Subset, FS_CardinalityType DEF AcceptsCovered
  <1>2. Assigned(b) \in {0, 1} /\ Assigned(b)' \in {0, 1}
    BY DEF Assigned
  <1> QED
    BY <1>1, <1>2, AssignmentsLogged DEF AcceptsCovered

(* A step that announces an acceptance of b assigns b, which was free.     *)
LEMMA AcceptanceCovered ==
    ASSUME EventsInv, LockInv', TableStep, NEW w \in Workers, NEW e \in Event,
           Announces(w, e), EventSound(e)', e.type = "accept",
           AcceptsCovered(e.booking)
    PROVE  AcceptsCovered(e.booking)'
  <1> DEFINE b == e.booking
  <1>1. b \in Bookings
    BY DEF Event
  <1>2. Accepts(b)' \subseteq Accepts(b) \cup {e}
    <2>1. Emitted' \subseteq Emitted \cup {e}
      BY AnnounceKeeps DEF EventsInv, LockInv
    <2> QED
      BY <2>1 DEF Accepts
  <1>3. /\ IsFiniteSet(Accepts(b) \cup {e})
        /\ Cardinality(Accepts(b)) \in Nat
        /\ Cardinality(Accepts(b) \cup {e}) \in Nat
        /\ Cardinality(Accepts(b) \cup {e}) <= Cardinality(Accepts(b)) + 1
    <2>1. IsFiniteSet(Accepts(b))
      BY DEF AcceptsCovered
    <2> HIDE DEF b
    <2>2. /\ IsFiniteSet(Accepts(b) \cup {e})
          /\ Cardinality(Accepts(b)) \in Nat
          /\ \/ Cardinality(Accepts(b) \cup {e}) = Cardinality(Accepts(b))
             \/ Cardinality(Accepts(b) \cup {e}) = Cardinality(Accepts(b)) + 1
      BY <2>1, FS_AddElement, FS_CardinalityType
    <2> QED
      BY <2>2
  <1>4. /\ IsFiniteSet(Accepts(b)') /\ Cardinality(Accepts(b)') \in Nat
        /\ Cardinality(Accepts(b)') <= Cardinality(Accepts(b)) + 1
    <2>1. /\ IsFiniteSet(Accepts(b)')
          /\ Cardinality(Accepts(b)') <= Cardinality(Accepts(b) \cup {e})
      BY <1>2, <1>3, FS_Subset
    <2>2. Cardinality(Accepts(b)') \in Nat
      BY <2>1, FS_CardinalityType
    <2> QED
      BY <1>3, <2>1, <2>2
  <1>5. Assigned(b) = 0
    BY DEF Announces, Assigned
  <1>6. Assigned(b)' = 1
    <2>1. rows'[b].bk.status = "accepted" /\ rows'[b].version > 0
      <3>1. StatusAfter["accept"] = "accepted"
        BY DEF StatusAfter, Operations
      <3>2. e.version \in Nat /\ 1 <= e.version
        BY DEF Event, EventSound
      <3> QED
        BY <3>1, <3>2 DEF Announces, EventSound
    <2>2. FieldsMatchStatus(rows'[b].bk)
      BY <1>1, <2>1 DEF LockInv, RowsConsistent, Present
    <2> QED
      BY <2>1, <2>2 DEF FieldsMatchStatus, Assigned, Present
  <1>7. /\ Len(declines[b]) \in Nat /\ Len(declines'[b]) \in Nat
        /\ Len(declines[b]) <= Len(declines'[b])
    BY <1>1, AssignmentsLogged DEF EventsInv
  <1>8. Cardinality(Accepts(b)) <= Len(declines[b]) + Assigned(b)
    BY DEF AcceptsCovered
  <1>9. Cardinality(Accepts(b)') <= Len(declines'[b]) + Assigned(b)'
    BY <1>3, <1>4, <1>5, <1>6, <1>7, <1>8
  <1> QED
    BY <1>4, <1>9 DEF AcceptsCovered

LEMMA AcceptsKept ==
    ASSUME AcceptsInv, EventsInv', TableStep, EventStep
    PROVE  AcceptsInv'
  <1>1. /\ EventsInv /\ EventsInv' /\ LockInv /\ LockInv' /\ EventsUnique
        /\ TypeOK /\ \A b \in Bookings : AcceptsCovered(b)
    BY DEF AcceptsInv, EventsInv, LockInv
  <1>2. ASSUME NEW b \in Bookings, Quiet PROVE AcceptsCovered(b)'
    <2>1. Accepts(b)' \subseteq Accepts(b)
      BY <1>1, <1>2, QuietKeeps DEF Accepts
    <2> QED
      BY <1>1, <2>1, OthersCovered
  <1>3. ASSUME NEW b \in Bookings, NEW w \in Workers, NEW e \in Event,
               Announces(w, e), EventSound(e)'
        PROVE  AcceptsCovered(b)'
    <2>1. CASE e.booking = b /\ e.type = "accept"
      BY <1>1, <1>3, <2>1, AcceptanceCovered
    <2>2. CASE ~ (e.booking = b /\ e.type = "accept")
      <3>1. Accepts(b)' \subseteq Accepts(b)
        BY <1>1, <1>3, <2>2, AnnounceKeeps DEF Accepts
      <3> QED
        BY <1>1, <3>1, OthersCovered
    <2> QED
      BY <2>1, <2>2
  <1> QED
    BY <1>1, <1>2, <1>3 DEF AcceptsInv, EventStep

LEMMA AcceptsStep == AcceptsInv /\ [Next]_vars => AcceptsInv'
  <1> SUFFICES ASSUME AcceptsInv, [Next]_vars PROVE AcceptsInv'
    OBVIOUS
  <1>1. EventsInv /\ EventsInv' /\ LockInv
    BY EventsStep DEF AcceptsInv, EventsInv
  <1> QED
    BY <1>1, TableSteps, EventSteps, AcceptsKept

LEMMA AcceptsInit == Init => AcceptsInv
  <1> SUFFICES ASSUME Init PROVE AcceptsInv
    OBVIOUS
  <1>1. EventsInv /\ Emitted = {}
    BY EventsInit
  <1>2. ASSUME NEW b \in Bookings PROVE AcceptsCovered(b)
    <2>1. Accepts(b) = {} /\ declines[b] = <<>>
      BY <1>1 DEF Accepts, Init
    <2>2. Assigned(b) \in {0, 1}
      BY DEF Assigned
    <2> QED
      BY <2>1, <2>2, FS_EmptySet DEF AcceptsCovered
  <1> QED
    BY <1>1, <1>2 DEF AcceptsInv

LEMMA CoveredSeparates == AcceptsInv => AcceptsSeparatedByDeclines
  <1> SUFFICES ASSUME AcceptsInv, NEW b \in Bookings
               PROVE  Cardinality(Accepts(b)) <= Len(declines[b]) + 1
    BY DEF AcceptsSeparatedByDeclines, Accepts
  <1>1. IsFiniteSet(Accepts(b))
        /\ Cardinality(Accepts(b)) <= Len(declines[b]) + Assigned(b)
    BY DEF AcceptsInv, AcceptsCovered
  <1>2. Cardinality(Accepts(b)) \in Nat
    BY <1>1, FS_CardinalityType
  <1>3. Len(declines[b]) \in Nat /\ Assigned(b) \in {0, 1}
    BY DEF AcceptsInv, EventsInv, LockInv, TypeOK, Assigned
  <1> QED
    BY <1>1, <1>2, <1>3

(* The job is offered to one runner at a time: between two announced       *)
(* acceptances of a booking there is a recorded decline.                   *)
THEOREM OneRunnerAtATime == Spec => []AcceptsSeparatedByDeclines
  BY AcceptsInit, AcceptsStep, CoveredSeparates, PTL DEF Spec
-----------------------------------------------------------------------------
(* Events are never more than the changes due for one, and what is missing *)
(* was lost by failures.                                                   *)
Counted(b) ==
    /\ IsFiniteSet(EventsAbout(b))
    /\ Cardinality(EventsAbout(b)) <= Due(b)
    /\ Due(b) <= Cardinality(EventsAbout(b)) + faults * Cardinality(Workers)

(* A step adds an event of a booking exactly when it adds one more to its  *)
(* version than to its declines.                                           *)
AddsEvent(e) ==
    /\ e \notin Emitted
    /\ Emitted' = Emitted \cup {e}
    /\ \A b \in Bookings : Due(b)' = IF e.booking = b THEN Due(b) + 1 ELSE Due(b)

LedgerStep ==
    \/ Emitted' = Emitted /\ \A b \in Bookings : Due(b)' = Due(b)
    \/ \E e \in Event : AddsEvent(e)

(* A failure loses at most what workers held, and makes a change that is   *)
(* not announced in at most one booking.                                   *)
HeldEvents == {request[w].event : w \in InFlight}

LossStep ==
    \/ /\ Emitted' \subseteq Emitted
       /\ Emitted \subseteq Emitted' \cup HeldEvents
       /\ \A b \in Bookings : Due(b)' = Due(b)
    \/ /\ Emitted' = Emitted
       /\ Workers # {}
       /\ \A b \in Bookings : Due(b)' \in {Due(b), Due(b) + 1}

CountInv == EventsInv /\ \A b \in Bookings : Counted(b)

(* What holding a request adds to the events.                              *)
LEMMA HoldEmits ==
    ASSUME TypeOK, NEW w \in Workers, NEW q, Hold(w, q),
           request[w].stage # "publish", published' = published
    PROVE  Emitted' = Emitted \cup (IF q.stage = "publish" THEN {q.event} ELSE {})
  <1>1. /\ request'[w] = q
        /\ \A v \in Workers \ {w} : request'[v] = request[v]
    BY DEF Hold, TypeOK
  <1>2. InFlight' = InFlight \cup (IF q.stage = "publish" THEN {w} ELSE {})
        /\ w \notin InFlight
    BY <1>1 DEF InFlight
  <1>3. \A v \in InFlight : request'[v] = request[v]
    BY <1>1, <1>2 DEF InFlight
  <1> QED
    BY <1>1, <1>2, <1>3 DEF Emitted

(* Sending an event moves it from the worker to the topic.                 *)
LEMMA PublishEmits ==
    ASSUME TypeOK, NEW w \in Workers, Publish(w)
    PROVE  Emitted' = Emitted
  <1>1. /\ request'[w] = Idle /\ Idle.stage # "publish"
        /\ \A v \in Workers \ {w} : request'[v] = request[v]
        /\ published' = published \cup {request[w].event} /\ w \in InFlight
    BY IdleType DEF Publish, Hold, TypeOK, InFlight
  <1>2. InFlight' = InFlight \ {w}
    BY <1>1 DEF InFlight
  <1>3. \A v \in InFlight' : request'[v] = request[v]
    BY <1>1, <1>2 DEF InFlight
  <1>4. {request'[v].event : v \in InFlight'}
          = {request[v].event : v \in InFlight \ {w}}
    BY <1>2, <1>3
  <1> QED
    BY <1>1, <1>4 DEF Emitted

LEMMA SameCount ==
    ASSUME NEW b \in Bookings, Counted(b), Emitted' = Emitted, Due(b)' = Due(b),
           faults' = faults
    PROVE  Counted(b)'
  <1>1. EventsAbout(b)' = EventsAbout(b)
    BY DEF EventsAbout
  <1> QED
    BY <1>1 DEF Counted

LEMMA OneMoreCounted ==
    ASSUME TypeOK, NEW b \in Bookings, Counted(b), Due(b) \in Int, NEW e,
           Emitted' = Emitted \cup {e}, e \notin Emitted, faults' = faults,
           Due(b)' = IF e.booking = b THEN Due(b) + 1 ELSE Due(b)
    PROVE  Counted(b)'
  <1>1. CASE e.booking = b
    <2>1. EventsAbout(b)' = EventsAbout(b) \cup {e} /\ e \notin EventsAbout(b)
      BY <1>1 DEF EventsAbout
    <2>2. /\ IsFiniteSet(EventsAbout(b)')
          /\ Cardinality(EventsAbout(b)') = Cardinality(EventsAbout(b)) + 1
      BY <2>1, FS_AddElement DEF Counted
    <2>3. Cardinality(EventsAbout(b)) \in Nat
      BY FS_CardinalityType DEF Counted
    <2> DEFINE lost == faults * Cardinality(Workers)
    <2>4. /\ Cardinality(EventsAbout(b)) <= Due(b)
          /\ Due(b) <= Cardinality(EventsAbout(b)) + lost
          /\ lost \in Nat /\ lost' = lost
      BY ServiceAssumption, FS_CardinalityType DEF Counted, TypeOK
    <2>5. Due(b)' = Due(b) + 1
      BY <1>1
    <2>6. /\ Cardinality(EventsAbout(b)') <= Due(b)'
          /\ Due(b)' <= Cardinality(EventsAbout(b)') + lost'
      <3> HIDE DEF lost
      <3> QED
        BY <2>2, <2>3, <2>4, <2>5
    <2> QED
      BY <2>2, <2>6 DEF Counted
  <1>2. CASE e.booking # b
    <2>1. EventsAbout(b)' = EventsAbout(b)
      BY <1>2 DEF EventsAbout
    <2> QED
      BY <1>2, <2>1 DEF Counted
  <1> QED
    BY <1>1, <1>2

(* No failure loses more events than there are workers.                    *)
LEMMA FewHeld ==
    IsFiniteSet(HeldEvents) /\ Cardinality(HeldEvents) <= Cardinality(Workers)
  <1>1. IsFiniteSet(InFlight) /\ Cardinality(InFlight) <= Cardinality(Workers)
    BY ServiceAssumption, FS_Subset DEF InFlight
  <1> DEFINE f == [w \in InFlight |-> request[w].event]
  <1>2. f \in Surjection(InFlight, HeldEvents)
    BY DEF Surjection, HeldEvents
  <1>3. IsFiniteSet(HeldEvents) /\ Cardinality(HeldEvents) <= Cardinality(InFlight)
    <2> HIDE DEF f
    <2> QED
      BY <1>1, <1>2, FS_Surjection
  <1>4. /\ Cardinality(HeldEvents) \in Nat /\ Cardinality(InFlight) \in Nat
        /\ Cardinality(Workers) \in Nat
    BY <1>1, <1>3, ServiceAssumption, FS_CardinalityType
  <1> QED
    BY <1>1, <1>3, <1>4

LEMMA LossCounted ==
    ASSUME TypeOK, NEW b \in Bookings, Counted(b), LossStep, faults' = faults + 1
    PROVE  Counted(b)'
  <1> DEFINE n == Cardinality(Workers)
             lost == faults * n
             c == Cardinality(EventsAbout(b))
  <1>1. /\ faults \in Nat /\ n \in Nat /\ c \in Nat /\ Due(b) \in Int
        /\ IsFiniteSet(EventsAbout(b))
    BY ServiceAssumption, FS_CardinalityType, RowTypes DEF TypeOK, Due, Counted
  <1>2. lost \in Nat /\ faults' * n = lost + n
    BY <1>1
  <1>3. c <= Due(b) /\ Due(b) <= c + lost
    BY DEF Counted
  <1>4. CASE /\ Emitted' \subseteq Emitted
             /\ Emitted \subseteq Emitted' \cup HeldEvents
             /\ \A d \in Bookings : Due(d)' = Due(d)
    <2> DEFINE m == Cardinality(EventsAbout(b)')
    <2>1. /\ EventsAbout(b)' \subseteq EventsAbout(b)
          /\ EventsAbout(b) \subseteq EventsAbout(b)' \cup HeldEvents
      BY <1>4 DEF EventsAbout
    <2>2. IsFiniteSet(EventsAbout(b)') /\ m <= c /\ m \in Nat
      BY <1>1, <2>1, FS_Subset, FS_CardinalityType
    <2>3. c <= m + n
      <3> DEFINE both == EventsAbout(b)' \cup HeldEvents
                 h == Cardinality(HeldEvents)
                 i == Cardinality(EventsAbout(b)' \cap HeldEvents)
      <3>1. IsFiniteSet(both) /\ Cardinality(both) = m + h - i
        BY <2>2, FewHeld, FS_Union
      <3>2. i \in Nat /\ h \in Nat /\ h <= n
        BY <2>2, FewHeld, FS_CardinalityType, FS_Subset
      <3>3. c <= Cardinality(both)
        BY <2>1, <3>1, FS_Subset
      <3> HIDE DEF both, h, i, c, m, n
      <3> QED
        BY <1>1, <2>2, <3>1, <3>2, <3>3
    <2>4. Due(b)' = Due(b)
      BY <1>4
    <2>5. m <= Due(b)' /\ Due(b)' <= m + (lost + n)
      <3> HIDE DEF c, m, n, lost
      <3> QED
        BY <1>1, <1>2, <1>3, <2>2, <2>3, <2>4
    <2> QED
      BY <1>2, <2>2, <2>5 DEF Counted
  <1>5. CASE /\ Emitted' = Emitted
             /\ Workers # {}
             /\ \A d \in Bookings : Due(d)' \in {Due(d), Due(d) + 1}
    <2>1. EventsAbout(b)' = EventsAbout(b) /\ Due(b)' \in {Due(b), Due(b) + 1}
      BY <1>5 DEF EventsAbout
    <2>2. n # 0
      BY <1>5, ServiceAssumption, FS_EmptySet
    <2>3. c <= Due(b)' /\ Due(b)' <= c + (lost + n)
      <3> HIDE DEF c, n, lost
      <3> QED
        BY <1>1, <1>2, <1>3, <2>1, <2>2
    <2> QED
      BY <1>1, <1>2, <2>1, <2>3 DEF Counted
  <1> QED
    BY <1>4, <1>5 DEF LossStep

(* An announced change: its event is new, and its row has one version more.*)
LEMMA AnnouncedCounts ==
    ASSUME EventsInv, NEW w \in Workers, NEW e \in Event, Announces(w, e),
           NEW q, Hold(w, q), q.stage = "publish", request[w].stage # "publish",
           declines' = declines,
           rows'[e.booking].version = rows[e.booking].version + 1,
           \A b \in Bookings \ {e.booking} : rows'[b] = rows[b]
    PROVE  LedgerStep
  <1>1. TypeOK /\ request'[w] = q
    BY DEF EventsInv, LockInv, TypeOK, Hold
  <1>2. Emitted' = Emitted \cup {e}
    BY <1>1, HoldEmits DEF Announces
  <1>3. e \notin Emitted
    BY DEF Announces, Event
  <1>4. \A b \in Bookings : rows[b].version \in Nat /\ Len(declines[b]) \in Nat
    BY <1>1, RowTypes DEF TypeOK
  <1>5. ASSUME NEW b \in Bookings
        PROVE  Due(b)' = IF e.booking = b THEN Due(b) + 1 ELSE Due(b)
    <2>1. CASE e.booking = b
      <3>1. rows'[b].version = rows[b].version + 1
        BY <2>1
      <3>2. rows[b].version \in Nat /\ Len(declines[b]) \in Nat
        BY <1>4
      <3>3. \A x, y \in Nat : (x + 1) - y = (x - y) + 1
        OBVIOUS
      <3>4. Due(b)' = rows'[b].version - Len(declines[b])
        BY DEF Due
      <3>5. (rows[b].version + 1) - Len(declines[b])
              = (rows[b].version - Len(declines[b])) + 1
        BY ONLY <3>2, <3>3, Zenon
      <3>6. Due(b)' = Due(b) + 1
        BY ONLY <3>1, <3>4, <3>5, Zenon DEF Due
      <3> QED
        BY <2>1, <3>6
    <2>2. CASE e.booking # b
      <3>1. rows'[b] = rows[b]
        BY <2>2
      <3> QED
        BY <2>2, <3>1 DEF Due
    <2> QED
      BY <2>1, <2>2
  <1> QED
    BY <1>2, <1>3, <1>5 DEF LedgerStep, AddsEvent

(* What a worker does when no call fails.                                  *)
Gentle(w) == CreateBooking(w) \/ (\E b \in Bookings : Handle(w, b)) \/ Progress(w)

LEMMA GentleSteps == ASSUME NEW w \in Workers, Gentle(w) PROVE faults' = faults
  <1>1. ASSUME NEW b \in Bookings, Handle(w, b) PROVE faults' = faults
    BY <1>1 DEF Handle, RebookBooking, StartCreate, AcceptBooking, DeclineBooking,
       StartDelivery, ConfirmDelivery, CompleteBooking, CancelBooking, HoldChange
  <1>2. ASSUME CreateBooking(w) \/ Progress(w) PROVE faults' = faults
    BY <1>2 DEF CreateBooking, StartCreate, Progress, Save, SaveDuplicate, Commit,
       Conflict, Publish
  <1> QED
    BY <1>1, <1>2 DEF Gentle

LEMMA LedgerSteps ==
    ASSUME EventsInv, [Next]_vars, ~ Fault
    PROVE  faults' = faults /\ LedgerStep
  <1>1. EventsInv /\ LockInv /\ TypeOK /\ faults \in Nat
    BY DEF EventsInv, LockInv, TypeOK
  <1>2. request \in [Workers -> AnyRequest] /\ rows \in [Bookings -> Row]
        /\ declines \in [Bookings -> Seq(Runners)]
    BY <1>1 DEF TypeOK
  <1>3. faults' = faults
    BY GentleSteps DEF Next, Crash, vars, Fail, DatabaseError, CommitUnacknowledged,
       PublishError, Gentle
  <1>4. ASSUME Emitted' = Emitted, UNCHANGED <<rows, declines>>
        PROVE  LedgerStep
    BY <1>4 DEF LedgerStep, Due
  <1>5. ASSUME NEW w \in Workers, NEW q, Hold(w, q), request[w].stage # "publish",
               q.stage # "publish", UNCHANGED <<rows, declines, published>>
        PROVE  LedgerStep
    BY <1>1, <1>4, <1>5, HoldEmits
  <1>6. ASSUME NEW w \in Workers, NEW o, NEW s, StartCreate(w, o, s)
        PROVE  LedgerStep
    BY <1>5, <1>6 DEF StartCreate
  <1>7. ASSUME NEW w \in Workers, NEW b, NEW op, NEW r, NEW bk,
               Loads(w, b), HoldChange(w, b, op, r, bk)
        PROVE  LedgerStep
    BY <1>5, <1>7 DEF HoldChange, Loads
  <1>8. ASSUME NEW w \in Workers, CreateBooking(w) \/ \E b \in Bookings : Handle(w, b)
        PROVE  LedgerStep
    BY <1>6, <1>7, <1>8 DEF CreateBooking, Handle, RebookBooking, AcceptBooking,
       DeclineBooking, StartDelivery, ConfirmDelivery, CompleteBooking, CancelBooking
  <1>9. ASSUME NEW w \in Workers, SaveDuplicate(w) \/ Conflict(w)
         PROVE  LedgerStep
    BY <1>5, <1>9, IdleType DEF SaveDuplicate, Conflict
  <1>10. ASSUME NEW w \in Workers, Publish(w) PROVE LedgerStep
    BY <1>1, <1>4, <1>10, PublishEmits DEF Publish
  <1>11. ASSUME NEW w \in Workers, Save(w) PROVE LedgerStep
    <2>1. PICK e \in Event : Announces(w, e)
      BY <1>1, <1>11, SaveAnnounces
    <2> DEFINE q == request[w]
               h == [stage |-> "publish", event |-> RequestedEvent(q.id)]
    <2>2. /\ q \in SaveRequest /\ q.stage = "save" /\ Insertable(q) /\ Insert(q)
          /\ Hold(w, h) /\ declines' = declines
      BY <1>2, <1>11, StageTypes DEF Save
    <2>3. e.booking = q.id /\ q.id \in Bookings
      BY <1>2, <2>1, <2>2 DEF Announces, Hold, RequestedEvent, SaveRequest
    <2>4. rows[q.id].version = 0
      BY <1>1, <2>2, <2>3, RowTypes DEF Insertable
    <2>5. rows' = [rows EXCEPT ![q.id] = [bk |-> q.bk, version |-> 1]]
      BY <2>2 DEF Insert
    <2>6. rows'[q.id].version = rows[q.id].version + 1
          /\ \A b \in Bookings \ {q.id} : rows'[b] = rows[b]
      BY <1>2, <2>3, <2>4, <2>5
    <2>7. h.stage = "publish" /\ request[w].stage # "publish"
      BY <2>2
    <2> HIDE DEF q, h
    <2> QED
      BY <1>1, <2>1, <2>2, <2>3, <2>6, <2>7, AnnouncedCounts
  <1>12. ASSUME NEW w \in Workers, Commit(w) PROVE LedgerStep
    <2> DEFINE q == request[w]
               h == [stage |-> "publish", event |-> EventOf(q)]
    <2>1. /\ q \in UpdateRequest /\ q.stage = "update" /\ Write(q)
          /\ published' = published
          /\ Hold(w, IF q.op = "decline" THEN Idle ELSE h)
      BY <1>2, <1>12, StageTypes DEF Commit
    <2>2. Updates(q)
      BY <1>1, <2>1, HeldUpdates
    <2>3. /\ q.id \in Bookings
          /\ rows' = [rows EXCEPT ![q.id] = [bk |-> q.bk, version |-> q.version]]
          /\ q.op = "decline" => declines'
                = [declines EXCEPT ![q.id] = Append(declines[q.id], q.caller)]
          /\ q.op # "decline" => declines' = declines
      BY <1>1, <2>1, <2>2, UpdateEffect
    <2>4. q.version \in Nat /\ rows[q.id].version = q.version - 1
          /\ rows[q.id].version \in Nat
      BY <1>1, <2>1, <2>3, RowTypes DEF Write, Matches, UpdateRequest
    <2>5. rows'[q.id].version = rows[q.id].version + 1
          /\ \A b \in Bookings \ {q.id} : rows'[b] = rows[b]
      <3> HIDE DEF q
      <3> QED
        BY <1>2, <2>3, <2>4
    <2>6. CASE q.op = "decline"
      <3>1. Emitted' = Emitted
        BY <1>1, <2>1, <2>6, HoldEmits, IdleType
      <3>2. q.caller \in Runners
        BY <1>1, <2>1, <2>6 DEF TypeOK
      <3>3. /\ declines'[q.id] = Append(declines[q.id], q.caller)
            /\ \A b \in Bookings \ {q.id} : declines'[b] = declines[b]
        <4> HIDE DEF q
        <4> QED
          BY <1>2, <2>3, <2>6
      <3>4. Len(declines'[q.id]) = Len(declines[q.id]) + 1
            /\ Len(declines[q.id]) \in Nat
        BY <1>2, <2>3, <3>2, <3>3
      <3>5. \A b \in Bookings : b = q.id => Due(b)' = Due(b)
        <4>1. rows'[q.id].version - Len(declines'[q.id])
                = rows[q.id].version - Len(declines[q.id])
          <5> HIDE DEF q
          <5> QED
            BY <2>4, <2>5, <3>4
        <4> QED
          BY <4>1 DEF Due
      <3>6. \A b \in Bookings \ {q.id} : Due(b)' = Due(b)
        BY <2>5, <3>3 DEF Due
      <3> QED
        BY <3>1, <3>5, <3>6 DEF LedgerStep
    <2>7. CASE q.op # "decline"
      <3>1. PICK e \in Event : Announces(w, e)
        BY <1>1, <1>12, <2>7, CommitAnnounces
      <3>2. Hold(w, h) /\ e.booking = q.id
        BY <1>2, <2>1, <2>7, <3>1 DEF Announces, Hold, EventOf
      <3>3. h.stage = "publish" /\ request[w].stage # "publish"
        BY <2>1
      <3> HIDE DEF q, h
      <3> QED
        BY <1>1, <2>3, <2>5, <2>7, <3>1, <3>2, <3>3, AnnouncedCounts
    <2> QED
      BY <2>6, <2>7
  <1>13. ~ (\E w \in Workers : Fail(w)) /\ ~ (\E S \in SUBSET Workers : Crash(S))
    BY DEF Fail, DatabaseError, CommitUnacknowledged, PublishError, Crash
  <1>14. CASE UNCHANGED vars
    BY <1>4, <1>14 DEF vars, Emitted, InFlight
  <1> QED
    BY <1>3, <1>8, <1>9, <1>10, <1>11, <1>12, <1>13, <1>14 DEF Next, Progress

(* A version more, with or without a decline, is at most one event more.   *)
LEMMA DueGrowsByOne ==
    ASSUME TypeOK, NEW c \in Bookings,
           rows'[c].version = rows[c].version + 1,
           \A b \in Bookings \ {c} : rows'[b] = rows[b],
           \/ declines' = declines
           \/ \E r \in Runners : declines' = [declines EXCEPT ![c] = Append(declines[c], r)]
    PROVE  \A b \in Bookings : Due(b)' \in {Due(b), Due(b) + 1}
  <1>1. declines \in [Bookings -> Seq(Runners)]
    BY DEF TypeOK
  <1>2. /\ Len(declines'[c]) \in {Len(declines[c]), Len(declines[c]) + 1}
        /\ \A b \in Bookings \ {c} : declines'[b] = declines[b]
    <2>1. CASE declines' = declines
      BY <2>1
    <2>2. ASSUME NEW r \in Runners,
                 declines' = [declines EXCEPT ![c] = Append(declines[c], r)]
          PROVE  /\ Len(declines'[c]) \in {Len(declines[c]), Len(declines[c]) + 1}
                 /\ \A b \in Bookings \ {c} : declines'[b] = declines[b]
      <3>1. declines'[c] = Append(declines[c], r)
            /\ \A b \in Bookings \ {c} : declines'[b] = declines[b]
        BY <1>1, <2>2
      <3>2. declines[c] \in Seq(Runners)
        BY <1>1
      <3> QED
        BY <3>1, <3>2
    <2> QED
      BY <2>1, <2>2
  <1>3. \A x, y \in Nat : \A z \in {y, y + 1} : (x + 1) - z \in {x - y, (x - y) + 1}
    OBVIOUS
  <1>4. rows[c].version \in Nat /\ Len(declines[c]) \in Nat
    BY <1>1, RowTypes
  <1>5. (rows[c].version + 1) - Len(declines'[c])
          \in {rows[c].version - Len(declines[c]),
               (rows[c].version - Len(declines[c])) + 1}
    BY ONLY <1>2, <1>3, <1>4, Zenon
  <1>6. Due(c)' \in {Due(c), Due(c) + 1}
    BY <1>5 DEF Due
  <1>7. \A b \in Bookings \ {c} : Due(b)' = Due(b)
    BY <1>2 DEF Due
  <1> QED
    BY <1>6, <1>7

(* Workers that let go of what they held lose at most their events.        *)
LEMMA LetGoLoses ==
    ASSUME TypeOK, UNCHANGED <<rows, declines, published>>,
           \A w \in Workers : request'[w] \in {request[w], Idle}
    PROVE  LossStep
  <1>1. \A w \in InFlight' : w \in InFlight /\ request'[w] = request[w]
    BY IdleType DEF InFlight
  <1>2. Emitted' \subseteq Emitted
    BY <1>1 DEF Emitted
  <1>3. Emitted \subseteq Emitted' \cup HeldEvents
    BY DEF Emitted, HeldEvents
  <1>4. \A b \in Bookings : Due(b)' = Due(b)
    BY DEF Due
  <1> QED
    BY <1>2, <1>3, <1>4 DEF LossStep

LEMMA LossSteps ==
    ASSUME EventsInv, [Next]_vars, Fault
    PROVE  LossStep
  <1>1. /\ EventsInv /\ LockInv /\ TypeOK /\ faults \in Nat
        /\ request \in [Workers -> AnyRequest] /\ rows \in [Bookings -> Row]
    BY DEF EventsInv, LockInv, TypeOK
  <1>2. faults' # faults
    BY <1>1 DEF Fault
  <1>3. ASSUME NEW w \in Workers, DatabaseError(w) \/ PublishError(w) PROVE LossStep
    BY <1>1, <1>3, LetGoLoses DEF DatabaseError, PublishError, Hold
  <1>4. ASSUME NEW S \in SUBSET Workers, Crash(S) PROVE LossStep
    BY <1>1, <1>4, LetGoLoses DEF Crash
  <1>5. ASSUME NEW w \in Workers, CommitUnacknowledged(w) PROVE LossStep
    <2> DEFINE q == request[w]
    <2>1. /\ Hold(w, Idle) /\ published' = published /\ q.stage # "publish"
          /\ \/ q.stage = "save" /\ Insertable(q) /\ Insert(q) /\ declines' = declines
             \/ q.stage = "update" /\ Write(q)
      BY <1>5 DEF CommitUnacknowledged
    <2>2. Emitted' = Emitted
      BY <1>1, <2>1, HoldEmits, IdleType
    <2>3. CASE q.stage = "save"
      <3>1. /\ q \in SaveRequest /\ Insertable(q) /\ Insert(q) /\ declines' = declines
            /\ q.id \in Bookings
        BY <1>1, <2>1, <2>3, StageTypes DEF SaveRequest
      <3>2. rows[q.id].version = 0
        BY <1>1, <3>1, RowTypes DEF Insertable
      <3>3. rows'[q.id].version = rows[q.id].version + 1
            /\ \A b \in Bookings \ {q.id} : rows'[b] = rows[b]
        <4>1. rows' = [rows EXCEPT ![q.id] = [bk |-> q.bk, version |-> 1]]
          BY <3>1 DEF Insert
        <4> HIDE DEF q
        <4> QED
          BY <1>1, <3>1, <3>2, <4>1
      <3> HIDE DEF q
      <3> QED
        BY <1>1, <2>2, <3>1, <3>3, DueGrowsByOne DEF LossStep
    <2>4. CASE q.stage = "update"
      <3>1. q \in UpdateRequest /\ Updates(q) /\ Write(q)
        BY <1>1, <2>1, <2>4, HeldUpdates, StageTypes
      <3>2. /\ q.id \in Bookings
            /\ rows' = [rows EXCEPT ![q.id] = [bk |-> q.bk, version |-> q.version]]
            /\ q.op = "decline" => declines'
                  = [declines EXCEPT ![q.id] = Append(declines[q.id], q.caller)]
            /\ q.op # "decline" => declines' = declines
        BY <1>1, <3>1, UpdateEffect
      <3>3. q.version \in Nat /\ rows[q.id].version = q.version - 1
            /\ rows[q.id].version \in Nat
        BY <1>1, <3>1, <3>2, RowTypes DEF Write, Matches, UpdateRequest
      <3>4. rows'[q.id].version = rows[q.id].version + 1
            /\ \A b \in Bookings \ {q.id} : rows'[b] = rows[b]
        <4> HIDE DEF q
        <4> QED
          BY <1>1, <3>2, <3>3
      <3>5. q.op = "decline" => q.caller \in Runners
        BY <1>1, <2>4 DEF TypeOK
      <3> HIDE DEF q
      <3> QED
        BY <1>1, <2>2, <3>2, <3>4, <3>5, DueGrowsByOne DEF LossStep
    <2> QED
      BY <2>1, <2>3, <2>4
  <1>6. ASSUME NEW w \in Workers, Gentle(w) PROVE FALSE
    BY <1>2, <1>6, GentleSteps
  <1> QED
    BY <1>2, <1>3, <1>4, <1>5, <1>6 DEF Next, Fail, Gentle, vars

LEMMA CountStep == CountInv /\ [Next]_vars => CountInv'
  <1> SUFFICES ASSUME CountInv, [Next]_vars
               PROVE  \A b \in Bookings : Counted(b)'
    BY EventsStep DEF CountInv
  <1>1. EventsInv /\ TypeOK /\ \A b \in Bookings : Counted(b)
    BY DEF CountInv, EventsInv, LockInv
  <1>2. \A b \in Bookings : Due(b) \in Int
    BY <1>1, RowTypes DEF Due, TypeOK
  <1>3. CASE Fault
    BY <1>1, <1>3, LossSteps, LossCounted DEF Fault
  <1>4. CASE ~ Fault
    BY <1>1, <1>2, <1>4, LedgerSteps, SameCount, OneMoreCounted DEF LedgerStep, AddsEvent
  <1> QED
    BY <1>3, <1>4

(* Every committed change but a decline is announced, once, by an event    *)
(* that was sent or that a worker is about to send, except for at most one *)
(* event of each worker for every failure.                                 *)
THEOREM LossesAreFaults == Spec => []LostOnlyByFaults
  <1>1. Init => CountInv
    <2> SUFFICES ASSUME Init PROVE CountInv
      OBVIOUS
    <2>1. EventsInv /\ Emitted = {}
      BY EventsInit
    <2>2. ASSUME NEW b \in Bookings PROVE Counted(b)
      <3>1. EventsAbout(b) = {} /\ Due(b) = 0 /\ faults = 0
        BY <2>1 DEF EventsAbout, Due, Init
      <3>2. Cardinality(Workers) \in Nat
        BY ServiceAssumption, FS_CardinalityType
      <3> QED
        BY <3>1, <3>2, FS_EmptySet DEF Counted
    <2> QED
      BY <2>1, <2>2 DEF CountInv
  <1>2. CountInv => LostOnlyByFaults
    BY DEF CountInv, LostOnlyByFaults, Counted
  <1> QED
    BY <1>1, <1>2, CountStep, PTL DEF Spec
=============================================================================
