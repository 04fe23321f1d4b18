-------------------------- MODULE PaymentConsumer --------------------------
(***************************************************************************)
(* The payment consumer of internal/events/kafka_consumer.go composed with *)
(* the booking service: one worker completes bookings when the payment     *)
(* topic says their escrow was released, while the others serve HTTP       *)
(* requests, the owner's confirmation (also CompleteBooking) among them.   *)
(*                                                                         *)
(* The consume loop itself is in a library the repository does not hold.   *)
(* What it does when the handler returns an error is therefore a constant: *)
(* it calls the handler with the same message again ("Don't retry          *)
(* malformed messages" in the handler says errors are retried), or it      *)
(* goes on with the next one.                                              *)
(***************************************************************************)
EXTENDS BookingService

CONSTANTS Consumer,       \* the worker that runs the consume loop
          Ignored,        \* a message that is malformed or of another type
          Retries,        \* does the loop retry a message that failed?
          EscrowStatuses, \* when the payment service may release the escrow
          MaxPayments     \* bound: messages on the payment topic

ASSUME ConsumerAssumption ==
    /\ Consumer \in Workers
    /\ Ignored \notin Bookings
    /\ Retries \in BOOLEAN
    /\ EscrowStatuses \subseteq Status
    /\ MaxPayments \in Nat

VARIABLES payments,   \* the payment topic: a booking for its released escrow
          offset,     \* messages the group has committed
          position,   \* messages the running loop is past
          stage       \* of the loop: "poll", "busy" in the handler, or "done"

loop == <<offset, position, stage>>
consumerVars == <<payments, loop>>
allVars == <<vars, consumerVars>>

ConsumerInit ==
    /\ Init
    /\ payments = <<>>
    /\ offset = 0
    /\ position = 0
    /\ stage = "poll"
-----------------------------------------------------------------------------
(* External: the payment service, which may say a thing more than once.    *)
ReleaseEscrow(b) ==
    /\ Len(payments) < MaxPayments
    /\ Present(b)
    /\ rows[b].bk.status \in EscrowStatuses
    /\ payments' = Append(payments, b)
    /\ UNCHANGED <<vars, loop>>

OtherPayment ==
    /\ Len(payments) < MaxPayments
    /\ payments' = Append(payments, Ignored)
    /\ UNCHANGED <<vars, loop>>

HasMessage == stage = "poll" /\ position < Len(payments)
Message == payments[position + 1]

Loop(s) == stage' = s /\ UNCHANGED <<payments, offset, position>>

(* The handler returns an error.                                           *)
HandlerFails ==
    /\ stage' = "poll"
    /\ position' = IF Retries THEN position ELSE position + 1
    /\ UNCHANGED <<payments, offset>>

\* Mutated form of IgnoreMessage: no message type is recognised.
IgnoreEveryMessage == HasMessage /\ Loop("done") /\ UNCHANGED vars

IgnoreMessage ==
    /\ HasMessage
    /\ Message = Ignored
    /\ Loop("done")
    /\ UNCHANGED vars

\* Mutated form of HandleEscrow: the row is completed without the lock.
HandleEscrowUnlocked ==
    /\ HasMessage
    /\ \E b \in Bookings :
         /\ Message = b
         /\ Loads(Consumer, b)
         /\ rows' = [rows EXCEPT ![b] =
                [bk |-> AfterComplete(@.bk, @.bk.estimatedPrice),
                 version |-> @.version + 1]]
    /\ Loop("done")
    /\ UNCHANGED <<declines, request, published, faults>>

(* handleEscrowReleased calls CompleteBooking.                             *)
HandleEscrow ==
    /\ HasMessage
    /\ Message # Ignored
    /\ CompleteBooking(Consumer, Message)
    /\ Loop("busy")

\* Mutated form of HandlerRejects: the error of CompleteBooking is dropped.
HandlerRejectsQuietly ==
    /\ HasMessage
    /\ Message # Ignored
    /\ Present(Message) => ~ MayComplete(rows[Message].bk)
    /\ Loop("done")
    /\ UNCHANGED vars

(* CompleteBooking finds no such booking, or one that is not delivered.    *)
HandlerRejects ==
    /\ HasMessage
    /\ Message # Ignored
    /\ Present(Message) => ~ MayComplete(rows[Message].bk)
    /\ HandlerFails
    /\ UNCHANGED vars

(* The load fails.                                                         *)
HandlerLoadError ==
    /\ HasMessage
    /\ Message # Ignored
    /\ DatabaseError(Consumer)
    /\ HandlerFails

ConsumerCommit   == stage = "busy" /\ Commit(Consumer) /\ UNCHANGED consumerVars
ConsumerConflict == stage = "busy" /\ Conflict(Consumer) /\ HandlerFails

(* Whether or not the event is sent, CompleteBooking returns no error.     *)
ConsumerPublish  == stage = "busy" /\ Publish(Consumer) /\ Loop("done")

ConsumerPublishError ==
    stage = "busy" /\ PublishError(Consumer) /\ Loop("done")

ConsumerWriteError ==
    /\ stage = "busy"
    /\ DatabaseError(Consumer) \/ CommitUnacknowledged(Consumer)
    /\ HandlerFails

(* External: after the handler returned nil the loop commits the message.  *)
CommitOffset ==
    /\ stage = "done"
    /\ stage' = "poll"
    /\ offset' = position + 1
    /\ position' = position + 1
    /\ UNCHANGED <<payments, vars>>

ConsumerStep ==
    \/ IgnoreMessage \/ HandleEscrow \/ HandlerRejects
    \/ ConsumerCommit \/ ConsumerConflict \/ ConsumerPublish
    \/ CommitOffset

ConsumerFails ==
    HandlerLoadError \/ ConsumerPublishError \/ ConsumerWriteError

HTTPStep(w) ==
    /\ \/ CreateBooking(w)
       \/ \E b \in Bookings : Handle(w, b)
       \/ Progress(w)
       \/ Fail(w)
    /\ UNCHANGED consumerVars

\* Mutated form of CrashAny: the loop goes on where it was.
CrashKeepsLoop(S) == Crash(S) /\ UNCHANGED consumerVars

(* A process that stops with the loop in it is restarted, or another takes *)
(* the partition over: messages after the committed offset come again.     *)
CrashAny(S) ==
    /\ Crash(S)
    /\ IF Consumer \in S
         THEN stage' = "poll" /\ position' = offset /\ UNCHANGED <<payments, offset>>
         ELSE UNCHANGED consumerVars

ConsumerNext ==
    \/ \E b \in Bookings : ReleaseEscrow(b)
    \/ OtherPayment
    \/ ConsumerStep
    \/ ConsumerFails
    \/ \E w \in Workers \ {Consumer} : HTTPStep(w)
    \/ \E S \in SUBSET Workers : CrashAny(S)

ConsumerSpec == ConsumerInit /\ [][ConsumerNext]_allVars

(* The loop runs until its context is cancelled, and requests that were    *)
(* started are carried on.                                                 *)
FairConsumerSpec ==
    /\ ConsumerSpec
    /\ WF_allVars(ConsumerStep)
    /\ \A w \in Workers \ {Consumer} :
         WF_allVars(Progress(w) /\ UNCHANGED consumerVars)
-----------------------------------------------------------------------------
Released(b) == \E i \in 1..Len(payments) : payments[i] = b
HasStatus(b, s) == Present(b) /\ rows[b].bk.status = s

(* The variables of the loop have their types, the committed offset is     *)
(* behind the loop and the loop behind the topic, and the consumer's       *)
(* worker holds a completion exactly while its handler runs.               *)
ConsumerTypeOK ==
    /\ payments \in Seq(Bookings \cup {Ignored})
    /\ stage \in {"poll", "busy", "done"}
    /\ offset \in Nat /\ position \in Nat
    /\ offset <= position /\ position <= Len(payments)
    /\ stage # "poll" => position < Len(payments)
    /\ stage = "busy" <=> request[Consumer].stage # "idle"

(* No escrow message is forgotten, with crashes, database errors and lost  *)
(* races: the group commits past one only when its booking is completed.   *)
(* (Needs a loop that retries.)                                            *)
OffsetCoversCompleted ==
    \A i \in 1..offset :
        payments[i] # Ignored => HasStatus(payments[i], "completed")

(* Messages that come again, and an owner who confirms at the same time,   *)
(* complete a booking once and announce it once.                           *)
CompletedOnce ==
    \A b \in Bookings :
        Cardinality({e \in Emitted : e.booking = b /\ e.type = "complete"}) <= 1

(* The composition is still the booking service: the consumer changes      *)
(* bookings only as a worker of BookingService does.                       *)
ImplementsService == Spec

(* A delivered booking whose escrow was released is completed in the end,  *)
(* by the consumer or by its owner.  With a loop that retries this holds   *)
(* for a single booking; with two, the message of one that can no longer   *)
(* be completed keeps the loop from the other's.                           *)
EscrowCompletes ==
    \A b \in Bookings :
        Released(b) /\ HasStatus(b, "delivered") ~> HasStatus(b, "completed")

(* booking_service.go:229, as a claim: a booking is completed after its    *)
(* escrow is released.  The owner's confirmation does not ask for that.    *)
CompletedAfterRelease ==
    \A b \in Bookings :
        HasStatus(b, "completed") => Released(b)
=============================================================================
