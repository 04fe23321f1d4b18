# Formal model of service-booking

This directory holds TLA+ modules that model the booking service of the
repository, TLC configurations that check them on small instances, and proofs,
checked by TLAPS, that hold for any instance. `PROJECT.json` says which lines of
`src/` every definition translates.

## 1. The system

`service-booking` is the booking microservice of a pet transport platform.
Owners ask for a transport, runners accept and carry it out, the payment service
holds the money in escrow. It is a Go server (gin, gorm on PostgreSQL, Kafka), of
which several processes may run side by side against one database.

| component | state it keeps | operations | talks to |
| --- | --- | --- | --- |
| booking status machine (`domain/booking/booking_status.go`) | none: a transition table | `CanTransitionTo`, `IsTerminal`, `CanBeCancelled` | used by the aggregate |
| booking aggregate (`domain/booking/booking.go`) | one booking in memory, private to a request | `NewBooking`, `Accept`, `StartDelivery`, `ConfirmDelivery`, `Complete`, `Cancel`, `Decline`, `IncrementVersion` | status machine |
| pricing and crates (`pricing.go`, `pet_specification.go`, `haversineDistance`) | none | `Calculate`, `DetermineCrateRequirement` | called by `CreateBooking` |
| booking service (`application/booking_service.go`) | none of its own; each request holds a copy of a row between calls | create, rebook, accept, decline, pickup, deliver, complete, cancel; reads | repository, decline repository, producer |
| booking repository (`repository/booking_repository.go`) | the `bookings` table, with a `version` column | `FindByID`, `Save`, `Update` (optimistic lock); listings and counts | PostgreSQL |
| decline reasons (`repository/decline_reason_repository.go`) | the `booking_decline_reasons` table | `RecordDecline`, in the transaction of the decline | PostgreSQL |
| event publishing (`publishEvent`) | the `booking.events` topic | one event per change, after the commit; errors are logged and dropped | Kafka |
| payment consumer (`events/kafka_consumer.go`) | the group's offset on `payment.events` | on `EscrowReleased`, `CompleteBooking` | booking service |
| HTTP handlers (`handler/`) | none | check the role, decode, call the service | booking service |
| listings and statistics | none | pages by owner, by runner, all; counts by status | repository |
| pet profiles (`domain/pet`, `pet_service.go`, `pet_repository.go`) | the `pets` table, with a `version` column | create, list, get, update, archive | PostgreSQL |
| booking photos (`domain/photo`, `photo_service.go`, `photo_repository.go`) | the `booking_photos` table | upload, list | PostgreSQL |
| server (`cmd/server/main.go`) | the process | start, graceful stop | all of the above |
| migrations, configuration, status history | tables; `booking_status_history` is never written or read by the code | run once | PostgreSQL |

### How they interact, and where it is hard

Every handler that changes a booking has the same shape: `FindByID` loads a row
into a private aggregate, a method of the aggregate checks a guard and changes
the copy, `IncrementVersion` adds one to its version, `Update` writes every
column `WHERE id = ? AND version = <loaded version>` and reports a conflict if no
row was affected, and then an event is published. Nothing is locked between the
load and the write, so the hard behaviours are

- *interleaving*: any number of handlers, of any number of processes, hold
  copies of the same row (two runners accept; the owner cancels while the runner
  picks up; the owner confirms while the consumer completes);
- *stale copies that look fresh*: `Decline` takes an accepted booking back to
  `requested`, so a booking can be in the same state twice and only the version
  tells an old copy from the current row;
- *two effects without a transaction*: the row is committed before the event is
  sent. A crash, an error or a lost acknowledgement in between loses the event;
- *the two-row transaction of a decline*: the row and its reason;
- *redelivery*: the consumer may see a message again, or see it before the
  delivery it is about was confirmed, or after the owner completed the booking;
- *errors of the consumer's handler*: an error means "not handled" to the loop,
  but for a booking that is already completed no later attempt can succeed;
- *two statements of one list*: rows are counted, then a page is read, and a page is an
  offset into a list that grows and shrinks between the pages a client reads;
- *the order of the shutdown*: the consumer is cancelled and not waited for, the HTTP
  handlers are waited for ten seconds, and then consumer and producer are closed under
  whatever still runs;
- *columns that must agree*: five nullable columns (`runner_id`, `picked_up_at`,
  `delivered_at`, `cancelled_at`, `final_price_cents`) have to match `status`
  after every path, and `StartDelivery` and `ConfirmDelivery` dereference two of
  them after the update is stored.

### What makes each component correct

- status machine, aggregate: a completed or cancelled booking never changes;
  the columns match the status; every cycle through `Decline` resets what the
  acceptance had set.
- service and repository: no update is lost; a handler that lost a race changes
  and announces nothing; concurrent handlers together behave like a sequence of
  methods applied to the stored booking; a runner loses a booking only by
  declining it; a number names one booking.
- publishing: every event tells of a committed change, at most one event per
  change, none after the final one's change; without failures every change (but a
  decline, which has no event) is announced in the end.
- consumer: no committed offset passes a booking that is not completed; a
  booking is completed and announced once; escrow that was released completes a
  delivered booking.
- pet profiles: no update is lost, and updates of different fields both survive; an
  archived profile stays archived; the profile a client is answered is the one stored.
- pricing: every stored booking was priced, heavier or farther never costs less, and no
  distance is free.
- listings: a client who reads to the end has seen what was there all the time; an
  answer holds what its total promises; the statistics count every booking once.
- photos: a stored photo has its booking, and its runner was told so unless a call
  failed for it.
- server: it stops when told to, and a stop loses no event of a request and no escrow.

## 2. The modules

| module | models | kind |
| --- | --- | --- |
| `BookingStatus` | the transition table | operators |
| `BookingAggregate` | the aggregate: for each method `m` a guard `May<m>` and an effect `After<m>`; its columns | operators |
| `BookingLifecycle` | what clients are promised: bookings that change one at a time by the aggregate's methods, and a log of declines | abstract specification |
| `BookingService` | handlers, repository, decline reasons, publishing | detailed specification, implements `BookingLifecycle` |
| `PaymentConsumer` | the consumer and its loop composed with the service; steps of the consumer's worker are steps of `BookingService` | composition, implements `BookingService` |
| `PetProfile` | the pet aggregate and its row: creating, merging, archiving, rounding, the partial overwrite | operators |
| `PetStore` | what clients are promised: profiles that change one at a time | abstract specification |
| `PetService` | handlers and repository of the pet profiles | detailed specification, implements `PetStore` |
| `Pricing` | crate sizes, surcharges and the price of a request | operators |
| `BookingQuotes` | `BookingService` with the requests and prices of `Pricing` for its specs | composition |
| `BookingQueries` | pages and statistics over the table of `BookingLifecycle` | composition |
| `BookingPhotos` | uploads beside the bookings of `BookingLifecycle` | composition |
| `ServerShutdown` | `main`, with its shutdown, around `PaymentConsumer` and the HTTP workers | composition |
| `MCBookingService`, `MCPaymentConsumer`, `MCPetService`, `MCBookingQuotes`, `MCBookingQueries`, `MCBookingPhotos`, `MCServerShutdown` | constants for TLC | |
| `BookingService_proofs`, `BookingService_events_proofs`, `PetService_proofs` | theorems about the two services | proofs |
| `PaymentConsumer_proofs`, `ServerShutdown_proofs`, `BookingQuotes_proofs`, `BookingQueries_proofs`, `BookingPhotos_proofs` | theorems about the compositions | proofs |

A few definitions are *mutated forms* of others (the comment above each says so):
plausible mistakes, such as a write that does not compare the version, which the
properties must notice.

### BookingService

`rows` is the table: content (`bk`, a record of the aggregate's fields) and
version; version 0 means that there is no row. `declines` is the second table.
`request[w]` is what worker `w` (the goroutine of an HTTP request, or the
consumer) holds between two steps, `published` the topic, `faults` counts the
failures so far. A handler is cut where another worker can get in:

1. *load and apply* (`AcceptBooking`, `StartDelivery`, ...): `FindByID`, the
   guards and the method on the private copy. Nobody else sees the copy, so this
   is one step; a handler whose guard fails returns an error and changes nothing,
   which is no step;
2. *write*: `Save` inserts, or `SaveDuplicate` fails on a unique constraint;
   `Commit` is `Update` with a matching version (for a decline with the second
   insert of its transaction), `Conflict` the update that affects no row;
3. *publish*: `Publish`.

Failures, at most `MaxFaults` in a behaviour: `DatabaseError` (load, insert or
update fails), `CommitUnacknowledged` (committed, but the worker sees an error),
`PublishError` (logged and dropped, as `publishEvent` does) and `Crash(S)`, any
set of workers losing what they hold, as they do when their process stops.

Two choices need saying. `publishEvent` ignores its `key` argument, so Kafka keeps
no order between the events of a booking and `published` is a set; an event
carries the version of the change it is about as a tag that is not in the payload,
so that properties can speak about it. A cancelled event names no runner, in the
code as in the model.

Data is abstracted to what the properties tell apart: a timestamp is set or not;
pet, crate, addresses, schedule and notes never change and decide nothing, so
they are one value, `spec`, and `Quote[spec]` is what pricing makes of it (any
integer: a conversion of a distance that is not a number can go below zero, and
the last check of `NewBooking` is what stops it). `Unscheduled` is the spec
without its schedule, which `RebookBooking` drops. Role checks are in the types:
only a runner accepts, only an owner creates. Pickup, delivery, confirmation
and cancellation take no caller, because the code does not compare one.

### PaymentConsumer

`payments` is the topic (a booking for its released escrow, or `Ignored` for a
message that is malformed or of another type), `offset` what the group has
committed, `position` how far the running loop is, `stage` where it is. The loop
(`kafka.Consumer.Consume`) is in a library outside the repository, so it is
modelled from how `Start` and `handleMessage` use it and marked external: one
message at a time, the offset is committed after the handler returned nil, and
after a stop the messages behind the committed offset come again. What it does
with an error is not visible here, so it is a constant: `Retries = TRUE` calls the
handler again (the comment "Don't retry malformed messages", where `handleMessage`
returns nil for them, reads as if errors were), `FALSE` goes on. One partition is
modelled. The payment service is external too: it may release the escrow of a
booking in a status of `EscrowStatuses`, and may say so again.

The same worker stages as in `BookingService` serve the consumer's call of
`CompleteBooking`; the actions here say what each outcome means to the loop.
The other workers take the steps of `BookingService`; among them is the owner's
confirmation, which also is `CompleteBooking`.

### PetService

The same cut as in `BookingService`, with three differences that are the reason
for a module of its own.

- *Partial input.* `Update` of the aggregate takes a value for each field and
  ignores an empty text or a weight that is not positive; this is the value
  `Blank`, and `Merge` is the method. A creation does validate its fields, an update
  does not, and needs not to: a field it leaves `Blank` keeps its value.
- *Partial output.* The repository updates with a struct, and gorm leaves zero values
  of a struct out of the statement. `Overwrite` does the same: it writes the fields
  that are not `Blank`. No stored profile ever has to be cleared, so nothing is lost
  by it, which `AnswersStored` checks.
- *The answer.* `UpdatePet` answers with its own copy, which is not read back. The
  worker holds that answer as a last stage (`Answer`), so that a property can compare
  it with the row. `DeletePet` answers a message only; its copy is held all the same.

The weight column is `DECIMAL(5,2)`: `Stored` maps a value of a field to what
its column keeps, the rest are columns that keep what they get. A text too long or a
weight of 1000 or more is an error of the database (`DatabaseError`). `DeletePet` archives:
the row stays, is found by `FindByID`, and may be updated afterwards. The
`Delete` method of the repository is never called. The two read operations are single
statements that change nothing and are left out; the row they would see is the one
`FindByID` loads.

### Pricing and BookingQuotes

In `BookingService` a spec is opaque. `Pricing` gives it its content, as far as a price
depends on it: pet type, weight, distance, schedule. Weights are whole grams, distances
whole metres, prices sen, so that the arithmetic is exact: at MYR 2.50 a
kilometre, `int64(distance * 250)` is `metres \div 4`. (The rounding of the
floating-point product is not modelled; it can be one sen.) `haversineDistance` itself
is abstracted to its range: a number that is not negative, or NaN, when rounding makes `a`
exceed 1 for points on opposite sides of the globe. What `int64` makes of NaN is the
processor's choice, and the constant `NaNCents`: the least integer on amd64, for which
`NewBooking` refuses the price; 0 on arm64 (see below). `BookingQuotes` assumes that `Quote` and
`Unscheduled` of `BookingService` are what `Pricing` and `RebookBooking` make of a request,
and states what the stored bookings then satisfy.

### BookingQueries

The lists are read from the table of `BookingLifecycle`, one step per statement. That is
enough: `BookingService` implements `BookingLifecycle`, and a statement sees
committed rows only. `query[c]` is a client's request, page after page: `Count` and
`ReadPage` are the two statements of a repository method, `NextPage` the client (external),
who goes on while a page is full. `wanted` and `left` are history variables: the
bookings that were in the list ever since the first request, and whether a row has left it.
`created` is the `created_at` column. It is drawn before the insert, by the clock of any server, so a
new booking may appear at any place in the order. Bookings of the same time
are left out: `created_at` is the only sort key, so their order is open in
every query and nothing can be promised about them. `TotalBookings` is the sum of the six
counts that the statistics answer with.

### BookingPhotos

An upload has two steps: `NewBookingPhoto` checks type and URL, and the insert checks the
constraints of migration 005. No code looks for the booking; the foreign key does, so an
upload for an unknown booking ends in `SaveRejected`. A call may fail before or after the
row is there (`SaveFails`). `told` is what runners got a success for.

### ServerShutdown

`main` runs through `Phases`: the signal, `cancel()` of the consumer's context,
`Shutdown` (which closes the listener and waits for the handlers or for ten seconds), and
the deferred calls, the last registered first: the consumer is closed, then the producer,
then the process ends and everything its goroutines hold is gone. The HTTP workers
and the consumer take the steps they have in `PaymentConsumer`, as far as the phase lets them:
no request starts once the drain is over, nothing is published once the producer is
closed (`PublishTooLate` drops the event, as `publishEvent` does), no offset is committed once
the consumer is closed. From the cancellation on a call of the consumer may
return with an error (`ConsumerCancelled`), the update having been committed or not. `Die` is
`log.Fatal` or a kill. A supervisor starts the process again (external), and
the new loop begins at the committed offset.

## 3. What is checked

| run | instance | shows |
| --- | --- | --- |
| `races` (`MCRaces`) | 1 booking, 3 workers, 2 runners, versions to 7, 2 failures | the lock loses nothing (`VersionCountsChanges`, `HeldChangesApply`), columns agree (`RowsConsistent`), events are true, unique and final, none is lost but by a failure (`LostOnlyByFaults`), at most one runner at a time, terminal bookings stay, `BookingService` implements `BookingLifecycle` |
| `bookings` (`MCBookings`) | 2 bookings, 2 owners, 2 numbers, 9 requests, 2 workers, versions to 2, 1 failure | types, numbers are unique, the refinement with two bookings; prices are monotonic (`PricesMonotonic`), belong to a valid request (`RequestsSound`) and include the distance (`DistancePaid`) |
| `escrow` (`MCEscrow`) | 1 booking, consumer and 2 HTTP workers, 2 messages, escrow at any status, retrying loop, 1 failure | redelivery completes a booking once and announces it once, the offset covers only completed bookings, `PaymentConsumer` implements `BookingService` |
| `escrow_skips` (`MCEscrowSkips`) | 2 bookings, an HTTP worker and a loop that skips, escrow released once delivered, no failure, fair | released escrow completes a delivered booking, as the only error left is that the owner was faster; every committed change but a decline is published in the end |
| `pets` (`MCPets`) | 1 pet, 2 workers, versions to 4, 1 failure | the second lock loses nothing (`HeldPetsApply`), the answer is what is stored, an archived profile stays archived, `PetService` implements `PetStore` |
| `escrow_blocked` (`MCEscrowBlocked`) | 2 bookings, retrying loop, no failure, fair | *violated*: a message that can never succeed blocks the ones behind it |
| `pages` (`MCPages`) | 3 bookings of one owner and one runner, 3 times, pages of 1, limits of 0 and 3, 1 decline, 1 booking at a time with a runner | nothing that was there all the time is missed, limits are respected (`QueryTypeOK`), answers are full as long as no row left, the total of the statistics never drops |
| `photos` (`MCPhotos`) | 1 booking, 2 workers, 3 photos, 2 good types and a bad one, a URL or none, 2 failures | what is stored has its booking; runners are told of nothing else, and of all of it but one photo for each failure |
| `shutdown` (`MCShutdown`) | 1 booking, consumer and 2 HTTP workers, 1 message, 2 stops, 1 kill or failure, fair | a stop that drains loses no event of a request, no stop or kill makes the offset pass an unfinished booking, the server stops, released escrow completes its booking after the restart |
| `unreleased` (`MCUnreleased`) | 1 booking, consumer and owner | *violated*: a booking is completed without its escrow |
| `missed` (`MCMissed`) | 2 bookings of a runner, pages of 1 | *violated*: a decline between two pages hides another booking |
| `graceful` (`MCGraceful`) | 1 booking, 1 stop, no failure | *violated*: a completion of the consumer is never announced |

**Bounds.** `MaxVersion` stops handlers from starting on a row of that version.
Accept, decline, accept, pickup, deliver, complete is the longest interesting
life: it ends at version 7, the bound of `races`, and leaves room for the
state that looks current but is not (accepted, declined, accepted again, under a
copy held since the first time). Three workers are two racers and a third that
publishes or loads in between; every property is about one row, about two events
or about two rows, so two bookings are enough where bookings meet (numbers,
messages behind each other) and one is enough elsewhere. Two runners let one
be declined and another take over. One failure is enough to lose an event and to separate
the commit from what follows it; `races` and `photos` have two, because what failures
cost adds up there; the proofs cover any number. In the fair consumer runs `MaxVersion` is odd: a delivered booking
has an even version (1, plus runner, pickup and delivery, plus two for every
decline), so the bound never forbids a completion. Version 4 of a
pet is its creation and three changes: an update and an archive that race, and
one more that finds what they left; two workers are the racers, and no property relates
two profiles. `MaxPayments` is 2 where
the consumer is looked at: a message and its repetition, or the messages of two
bookings; in `shutdown` it is 1, as the restarts repeat it. Two stops and a kill end the
process in the middle of one that was itself a restart. The nine requests of `bookings` have every
size of crate, both sides of a sen, a schedule or none, a NaN distance, an unknown pet and
no weight; `PricesMonotonic` compares two at a time. Versions to 2 let a change get
in between creations. Three bookings in lists of pages of one
are the least at which a position can be skipped in the middle; `MaxAssigned` keeps one of
them at a time with the runner. A value that is bounded only to
keep the model finite never disables a step that carries on a request.

**Deadlock** is not checked (`CHECK_DEADLOCK FALSE`) where a run ends by itself:
when all bookings are completed or at the version bound and ids are used up there
is nothing left to do, in the program too.

**Symmetry** (over bookings, workers, owners, runners and numbers, except those a
constant singles out) is used in runs that check invariants and step
properties only; the runs with fairness use none.

**Fairness.** A request that was started is carried on: `WF(Progress(w))` for each
worker. Goroutines are scheduled, and the database and the broker answer or
fail (failures are other actions, and are bounded). No fairness is given to
starting a request, to failures, or to the payment service. `FairConsumerSpec`
adds weak fairness of the loop's steps: `Start` runs until its context is
cancelled, that is until shutdown. `FairServerSpec` assumes that `main` goes on once it was
told to stop (its only wait has a deadline), that the process is started again, and that the
loop of a running process goes on; it asks nothing of the HTTP handlers, which may hang. The time-out
is an action that may happen at any moment of the drain, not only after ten seconds.

### What the violated runs say

1. `escrow_blocked`: `handleEscrowReleased` returns the error of
   `CompleteBooking` (`kafka_consumer.go:87`). If the owner confirmed first, the
   booking is completed and every further attempt fails the same way. With a loop
   that retries, a delivered booking whose message lies behind it is never completed
   by the consumer, contrary to what `integration_test.go:16` describes. With a loop
   that skips errors, the same code instead drops a message that failed for a passing
   reason (a database error, or one that came before the delivery was confirmed).
   Which of the two happens depends on the library; neither is what the handler
   wants.
2. `unreleased`: "CompleteBooking finalizes the booking after payment escrow is
   released" (`booking_service.go:229`), but the owner's confirmation completes a
   delivered booking without asking for the escrow.
3. `missed`: a runner's list is paged by offset (`booking_repository.go:121`) and loses rows
   when he declines. The rows behind move up, one of them onto a page already read; the runner
   does not see a booking that is his, contrary to `booking_handler.go:68`. Owners and
   admins are safe (`NoneMissed`), as their lists only grow.
4. `graceful`: `main` (`main.go:187`) cancels the consumer and waits for nobody: a completion that was
   committed at that moment is stored, its event is not sent, and no later attempt sends
   it (the booking is completed, so the repeated message fails). HTTP requests are drained
   (`DrainAnnounces`).

### Other disagreements

Met while modelling, and visible in a line of code without a run:

- `README.md:16` lists events for state changes; a decline publishes none
  (`booking_service.go:427`, a TODO). `ChangesAnnounced` and `LostOnlyByFaults` leave
  declines out.
- `booking.go:287` says a booking not in a terminal state can be cancelled, `README.md:36`
  "any state"; a delivered one cannot (`booking_status.go:22`), nor is it terminal.
- `README.md:64` documents `BASE_FARE=10.0`; no code reads it and the base fare is
  500 sen (`pricing.go:40`).
- `DistancePaid` holds where `int64(NaN)` is negative. With `NaNCents = 0` (arm64) it does not: a
  transport halfway around the globe would be stored with no charge for its distance.
- Migration 005 calls the photos "proof-of-delivery photos"; `UploadPhoto` stores a delivery photo for
  a booking in any status, from any runner.

## 4. What is proved

`BookingService_proofs.tla` proves, for any sets of bookings, workers, owners,
runners, specs and numbers and any bounds:

| theorem | statement |
| --- | --- |
| `TypeCorrect` | `Spec => []TypeOK` |
| `LockCorrect` | `Spec => []LockInv` |
| `RowsStayConsistent`, `NoLostUpdate`, `HeldChangesStayApplicable` | the conjuncts of `LockInv` that runs check, each as `Spec => []...` |
| `TerminalStaysFinal`, `RunnerStaysKept` | `Spec => [][...]_vars` for the two step properties |
| `NumbersStayUnique` | `Spec => []NumbersUnique` |
| `ServiceImplementsLifecycle` | `Spec => Lifecycle!Spec` |

`BookingService_events_proofs.tla` goes on with what is announced:

| theorem | statement |
| --- | --- |
| `EventsCorrect` | `Spec => []EventsInv` |
| `EventsStayTruthful`, `EventsStayUnique`, `TerminalEventsStayFinal`, `RunnerStaysDereferenced` | its consequences that runs check |
| `OneRunnerAtATime` | `Spec => []AcceptsSeparatedByDeclines` |
| `LossesAreFaults` | `Spec => []LostOnlyByFaults` |

`PaymentConsumer_proofs.tla` does it for the consumer, with any number of messages, workers
and failures, and `ServerShutdown_proofs.tla` for a server that is stopped, killed and started
again any number of times:

| theorem | statement |
| --- | --- |
| `ConsumerImplementsService` | `ConsumerSpec => Spec` |
| `ConsumerCorrect`, `ConsumerTypeCorrect` | `ConsumerSpec => []ConsumerInv`, and of it `[]ConsumerTypeOK` |
| `CompletesOnce` | `ConsumerSpec => []CompletedOnce` |
| `OffsetCorrect` | if `Retries`: `ConsumerSpec => []OffsetCoversCompleted` |
| `ServerCorrect` | `ServerSpec => []ServerInv` |
| `OffsetSurvivesStops` | if `Retries`: `ServerSpec => []OffsetCoversCompleted` |
| `ServerEventsCorrect`, `EventsSurviveStops` | `ServerSpec => []ServerEventsInv`, and of it `EventsTruthful`, `EventsUnique`, `TerminalEventsFinal`, `CompletedOnce`, `AcceptsSeparatedByDeclines` |
| `RowsSurviveStops`, `NumbersSurviveStops` | `ServerSpec => TerminalIsFinal /\ RunnerKept`, `ServerSpec => []NumbersUnique` |
| `ServerImplementsLifecycle` | `ServerSpec => Lifecycle!Spec` |
| `StopsStayAnnounced` | `ServerSpec => []DrainAnnounces` |

`BookingQuotes_proofs.tla`, for any set of requests, any weights and distances:

| theorem | statement |
| --- | --- |
| `PricesStayAsQuoted` | `Spec => []PricedAsAsked`: a stored booking keeps its request, and its price is the quote for it |
| `RequestsStaySound` | `Spec => []RequestsSound` |
| `PricesStayMonotonic`, `DistanceStaysPaid` | if `NaNRefused`: `Spec => []PricesMonotonic`, `Spec => []DistancePaid` |

`BookingQueries_proofs.tla`, for any bookings, clients, times, limits and numbers of pages:

| theorem | statement |
| --- | --- |
| `QueriesCorrect`, `QueryTypeCorrect` | `QuerySpec => []QueryInv`, and of it `[]QueryTypeOK` |
| `NoneIsMissed`, `AnswersAreFull` | `QuerySpec => []NoneMissed`, `QuerySpec => []AnswersFull` |
| `TotalNeverDrops` | `QuerySpec => [][TotalBookings' >= TotalBookings]_listVars` |

`BookingPhotos_proofs.tla`, for any bookings, workers, kinds, URLs and numbers of photos:

| theorem | statement |
| --- | --- |
| `PhotosCorrect`, `PhotosTypeCorrect` | `PhotosSpec => []PhotosInv`, and of it `[]PhotosTypeOK` |
| `RunnersToldTruth` | `PhotosSpec => []ToldIfStored` |

`PetService_proofs.tla` proves, for any pets, workers, owners, fields and values:

| theorem | statement |
| --- | --- |
| `PetInvariant` | `Spec => []PetInv` |
| `PetTypeCorrect`, `HeldPetsStayApplicable`, `AnswersAreStored` | the conjuncts of `PetInv`, each as `Spec => []...` |
| `ArchivedStaysFinal` | `Spec => [][StaysArchived]_vars` |
| `ServiceImplementsStore` | `Spec => Store!Spec` |

**Assumptions.** `AggregateAssumption` (`None` is neither a runner nor a number,
`NoBooking` is no booking, prices are integers, `Unscheduled` maps specs to specs)
and `ServiceAssumption` (the bounds are naturals, the goroutines finitely many), and for the pets `ProfileAssumption` and
`PetServiceAssumption` of the same kind. `ConsumerAssumption`, `ServerAssumption`,
`QueriesAssumption` and `PhotosAssumption` type the other constants, `PricingAssumption` says that
NaN is no integer and
`QuoteAssumption` that quotes are those of `Pricing`. TLC evaluates them in the runs. Two
assumptions are of single theorems: `Retries` (a loop that skips a failed message does pass it),
and `NaNRefused`, `NaNCents < -3300`: what `int64` makes of NaN is below what base fare and the
largest surcharges make up for, as on amd64 and not on arm64.

**Argument.** `TypeOK` is inductive by itself. The rest is not: that a step keeps
the columns of a row consistent depends on what the worker *holds*, and that a held
copy may be written depends on nothing having happened since it was loaded. The
inductive invariant is therefore

    LockInv == TypeOK /\ RowsConsistent /\ VersionCountsChanges /\ HeldChangesApply

`HeldChangesApply` is the heart: a held update is never more than one version ahead
of its row, and *as long as its version is the next one it is a legal change of the
row as stored now*. A write moves the version on, so every other held
update of that row stops matching and its clause becomes vacuous (lemma
`VersionsMoveOn`); the write itself is a `Change` of the stored row, so it keeps the
columns consistent and changes the number of set columns by one, or by minus one for a
decline, which logs one entry (`ChangeFields`), as `VersionCountsChanges` asks. An
insert finds no row, so no held update can match the row it makes: versions of
held updates are at least 2, and one ahead at most.

A `TableStep` leaves the two tables alone, inserts one booking, or applies one
`Change` to the row it finds. Every step of the service is one (`TableSteps`), and the step
properties and the refinement follow from that alone, by cases. The refinement
mapping hides versions, requests, events and failures.

The events need one more invariant. `EventsInv` adds to `LockInv` that every event, sent or
held by a worker, is `EventSound`, and that no two are about the same version. An `EventStep` is
either `Quiet` (no event is made) or it `Announces` one about a version above all the
versions announced of that booking, because it is one above the row's; so the event is
new (`AnnounceKeeps`). An old event stays sound because a row only moves on from a
version that no final event is about (`TerminalStuck`). That acceptances and declines
alternate is a count: `AcceptsCovered` bounds the announced acceptances by the recorded
declines plus one while a runner is assigned, and a runner only goes with a decline
(`AssignmentsLogged`). `LostOnlyByFaults` is a count too: a step that
makes an event adds one to its booking's version and nothing to its declines, a decline adds one
to both (`LedgerStep`). A failure either removes events that workers held, of which there are no
more than workers, or stores one change that no event will tell of (`LossStep`); each way
`Counted` allows for it.

The consumer is a worker like the others (`ConsumerRefines`), so that the service's invariants
hold for it. `Handling` ties the loop to what that worker holds: in the handler it holds the
completion of the message's booking, and from the commit until the offset moves that booking
is completed, because completed bookings stay (`CompletedStays`). With a loop that retries,
`position = offset`: nothing is skipped, so `CommitOffset` passes exactly the message that
`Handling` is about.

The steps of the server are those of the consumer's composition, and three that drop a request
without being a failure of a call: the end of the process, a publish after the producer was
closed, and a cancelled call of the handler (`ServerSteps`). That they count no failure
is why `ServerSpec` does not imply `ConsumerSpec`; each is shown to keep
`ServerInv` (`ExitKeeps`, `LateKeeps`, `CancelledKeeps`). But each is a `TableStep` and an
`EventStep` (it writes by one `Change` or not at all, and makes no event), so what was proved
from those holds of the servers too: events, step properties and the refinement of the
lifecycle.

`DrainAnnounces` is not inductive. `DrainInv` adds to the invariants of the events that after a
drain that did not time out no handler holds anything until the next start
(`NoHandlerLeft`), and keeps an account of each booking:

    Due(b) <= Cardinality(EventsAbout(b)) + Slack(b)

What is due is the version less the declines; the slack is one if `b` is completed, its escrow was
released, and *no event says that it was completed*. The last clause is what makes it inductive.
The steps of the service add an event exactly when they add to what is due, and not to a
completed booking, as it takes no more changes (`CompletedTakesNone`), so the slack is zero where
an event is added. A consumer that is cut off after its commit, or before it sends its
event, gains a slack of one: what it held names the released booking of its message
(`Handling`), and there is no other event of a completion (`CancelledCompletes`, `SilenceIsSlack`).
The end of the process drops nothing else, by `NoHandlerLeft`, and `PublishTooLate` needs a time-out.

For the lists, rows are finitely many and have different times, so their places are 1 to n
(`PlacesAreCounted`, a bijection), which gives the size of a page (`PageSize`). A step of the
bookings removes no row and moves no time, so in a list that loses no row places only grow
(`PlacesGrow`). The invariant says of a client whose list lost none that a booking it
wants and has not seen is at a place behind those it has read (`NothingSkipped`), and that a page that is
not full leaves none; that rows are counted before they are read gives `AnswersFull`. Lists other than a
runner's lose no row because no method changes the owner (`MethodsKeepOwner`). The total of
the statistics is the number of rows, a sum over six disjoint sets (`TotalCountsRows`).

Prices rest on `PricedAsAsked`: a creation stores the quote, and no method of the aggregate
touches request or price (`QuoteKept`). The rest is arithmetic: the crate's charge is monotonic in the
weight across the four sizes (`CrateChargeMonotonic`), the distance's in the metres, and
a request whose distance is NaN gets no positive price (`NoNaNStored`). For the photos the
invariant adds to what is checked that ids in use and about to be used are all
different, and that the photos nobody was told of are finitely many, so that a failure makes
them one more at most (`OneMoreUnreported`); no step of the bookings removes a booking (`BookingsStay`).

For the pets, `PetInv == PetTypeOK /\ HeldPetsApply /\ AnswersStored`. `PetTypeOK` is not
inductive alone here: that a row keeps its required fields depends on the copy a worker
holds, which `HeldPetsApply` ties to a creation that was validated or to a method
applied to the current row. `AnswersStored` needs it too: the answer equals the row because the
fields that the statement skips are blank in the copy, and those are the ones the
row, on which the copy was based, has blank.

## 5. What is only model-checked, and what is left out

*Model-checked only:* liveness (`ChangesAnnounced`, `EscrowCompletes`, `StopsInTime`,
`CompletesAcrossStops`), which stays with TLC, as TLAPS does not reason about fairness here.
Every invariant and step property that a passing run checks is also a theorem.

*Not modelled:* decoding requests, formatting responses, JWT checks, logging and
metrics (no state); texts of reasons and notes; `SetRouteSpec` and
`FindByNumber`, which nothing calls; migrations and configuration, run once, whose unique
constraints are in `Insertable`; the pets' reads and the repository's `Delete`, which
nothing calls; the `booking_status_history` table, which no code uses;
several partitions of the payment topic; the trigonometry of `haversineDistance` and the rounding
of its products; the order of rows created at the same time. Nothing is promised about a client
that repeats a create request, so the model lets both bookings exist.

## 6. Plan

Done, in this order: `BookingStatus`, `BookingAggregate`, `BookingLifecycle`,
`BookingService` with both modules of proofs, `PaymentConsumer`, `PetProfile`, `PetStore` and
`PetService` with its proofs, `Pricing`, `BookingQuotes`, `BookingQueries`, `BookingPhotos`,
`ServerShutdown`, and the proofs about `PaymentConsumer`, `ServerShutdown`, `BookingQuotes`,
`BookingPhotos` and `BookingQueries`. Every component of the running server is modelled. What is left:

1. The abstract promise of the events: a specification of the topic alone (which event may follow
   which, for one booking), and that the servers implement it.
2. The lists over `BookingService` itself, so that a page is read between the steps of its
   workers; `BookingLifecycle`, which it implements, stands for it now.
