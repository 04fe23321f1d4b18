--------------------------- MODULE ServerShutdown ---------------------------
(***************************************************************************)
(* One server process that is told to stop: the main function of           *)
(* cmd/server/main.go composed with the HTTP workers and the consumer.     *)
(*                                                                         *)
(* main cancels the consumer's context, closes the listener and waits up   *)
(* to ten seconds for the HTTP requests that are in progress, and then     *)
(* runs its deferred calls, the last one registered first: the consumer is *)
(* closed, then the producer.  Nobody waits for the consumer's goroutine.  *)
(* What still runs when main returns is gone; a new process takes over.    *)
(***************************************************************************)
EXTENDS PaymentConsumer

CONSTANT MaxStops   \* bound: how often the server is told to stop

ASSUME ServerAssumption == MaxStops \in Nat

VARIABLES main,     \* where the main function is
          timedOut, \* did Shutdown ever give up waiting?
          stops     \* signals so far

serverVars == <<main, timedOut, stops>>
processVars == <<allVars, serverVars>>

Phases == {"serving", "cancelled", "draining", "drained",
           "consumer closed", "producer closed", "exited"}

ServerInit ==
    /\ ConsumerInit
    /\ main = "serving"
    /\ timedOut = FALSE
    /\ stops = 0

Running == main # "exited"
ProducerOpen == main \notin {"producer closed", "exited"}

Step(from, to) ==
    /\ main = from
    /\ main' = to
    /\ UNCHANGED <<allVars, timedOut>>
-----------------------------------------------------------------------------
Signal ==
    /\ stops < MaxStops
    /\ stops' = stops + 1
    /\ Step("serving", "cancelled")

BeginShutdown == Step("cancelled", "draining") /\ UNCHANGED stops

\* Mutated form of Drained: Shutdown is not called, the process just ends.
DrainedAtOnce == Step("draining", "drained") /\ UNCHANGED stops

(* Shutdown returns when no HTTP request is in progress.                   *)
Drained ==
    /\ \A w \in Workers \ {Consumer} : request[w] = Idle
    /\ Step("draining", "drained")
    /\ UNCHANGED stops

\* Mutated form of TimeOut: Shutdown gets a context without a deadline.
TimeOutNever == FALSE /\ UNCHANGED processVars

TimeOut ==
    /\ main = "draining"
    /\ main' = "drained"
    /\ timedOut' = TRUE
    /\ UNCHANGED <<allVars, stops>>

\* Mutated form of CloseConsumer: closing commits the message in hand.
CloseConsumerCommits ==
    /\ main = "drained"
    /\ main' = "consumer closed"
    /\ offset' = IF stage = "poll" THEN offset ELSE position + 1
    /\ UNCHANGED <<vars, payments, position, stage, timedOut, stops>>

(* External: closing a consumer or a producer returns.                     *)
CloseConsumer == Step("drained", "consumer closed") /\ UNCHANGED stops
CloseProducer == Step("consumer closed", "producer closed") /\ UNCHANGED stops

(* What the goroutines of the process hold is lost.                        *)
Vanish ==
    /\ main' = "exited"
    /\ request' = [w \in Workers |-> Idle]
    /\ stage' = "poll"

(* main returns; the loop of the next process starts after the offset.     *)
Exit ==
    /\ main = "producer closed"
    /\ Vanish
    /\ position' = offset
    /\ UNCHANGED <<rows, declines, published, faults, payments, offset,
                   timedOut, stops>>

(* log.Fatal when the listener fails, or a kill: no deferred call runs.    *)
Die ==
    /\ Running
    /\ Fault
    /\ Vanish
    /\ position' = offset
    /\ UNCHANGED <<rows, declines, published, payments, offset, timedOut, stops>>

Restart == Step("exited", "serving") /\ UNCHANGED stops

Main ==
    \/ BeginShutdown \/ Drained \/ TimeOut
    \/ CloseConsumer \/ CloseProducer \/ Exit
    \/ Restart
-----------------------------------------------------------------------------
(* A connection the listener took before it was closed is still served.    *)
StartRequest(w) ==
    /\ main \in {"serving", "cancelled", "draining"}
    /\ CreateBooking(w) \/ \E b \in Bookings : Handle(w, b)

CarryOn(w) ==
    /\ Running
    /\ \/ Save(w) \/ SaveDuplicate(w) \/ Commit(w) \/ Conflict(w)
       \/ ProducerOpen /\ Publish(w)

(* The producer is closed under a handler that outlived the ten seconds.   *)
PublishTooLate(w) ==
    /\ main = "producer closed"
    /\ request[w].stage = "publish"
    /\ Hold(w, Idle)
    /\ UNCHANGED <<rows, declines, published, faults>>

ServeHTTP(w) ==
    /\ StartRequest(w) \/ CarryOn(w) \/ PublishTooLate(w) \/ (Running /\ Fail(w))
    /\ UNCHANGED <<consumerVars, serverVars>>

(* The loop, until it notices that it was cancelled or closed.             *)
Consume ==
    /\ Running
    /\ \/ IgnoreMessage \/ HandleEscrow \/ HandlerRejects
       \/ ConsumerCommit \/ ConsumerConflict
       \/ ProducerOpen /\ ConsumerPublish
       \/ main \in {"serving", "cancelled", "draining", "drained"} /\ CommitOffset
       \/ ConsumerFails
    /\ UNCHANGED serverVars

(* A call of the handler returns because its context was cancelled; the    *)
(* update may have been committed.  A publish error is dropped.            *)
ConsumerCancelled ==
    /\ main \notin {"serving", "exited"}
    /\ stage = "busy"
    /\ \/ /\ request[Consumer].stage = "update"
          /\ Write(request[Consumer]) \/ UNCHANGED <<rows, declines>>
          /\ HandlerFails
       \/ /\ request[Consumer].stage = "publish"
          /\ UNCHANGED <<rows, declines>>
          /\ Loop("done")
    /\ Hold(Consumer, Idle)
    /\ UNCHANGED <<published, faults, serverVars>>

Outside ==
    /\ OtherPayment \/ \E b \in Bookings : ReleaseEscrow(b)
    /\ UNCHANGED serverVars

ServerNext ==
    \/ Signal \/ Main \/ Die
    \/ \E w \in Workers \ {Consumer} : ServeHTTP(w)
    \/ Consume \/ ConsumerCancelled
    \/ Outside

ServerSpec == ServerInit /\ [][ServerNext]_processVars

(* main goes on (the deadline of Shutdown passes) and the process is       *)
(* started again; nothing is asked of the handlers.                        *)
FairMain == ServerSpec /\ WF_processVars(Main)

(* Also the loop of a running process goes on.                             *)
FairServerSpec ==
    FairMain /\ WF_processVars(Running /\ ConsumerStep /\ Consume)
-----------------------------------------------------------------------------
(* The committed changes of b, other than declines, that nothing announced *)
(* or is about to announce.                                                *)
Unannounced(b) ==
    rows[b].version - Len(declines[b])
        - Cardinality({e \in Emitted : e.booking = b})

(* A stop that does not time out loses no event of an HTTP request: the    *)
(* producer outlives the handlers.  Only the consumer, which nobody waits  *)
(* for, may have completed a booking without saying so.                    *)
DrainAnnounces ==
    faults = 0 /\ ~ timedOut =>
        \A b \in Bookings :
            Unannounced(b) <=
                (IF HasStatus(b, "completed") /\ Released(b) THEN 1 ELSE 0)

(* main.go:179, as a claim: the shutdown is graceful, no event is lost in  *)
(* one that does not time out.                                             *)
GracefulStopAnnounces ==
    faults = 0 /\ ~ timedOut => \A b \in Bookings : Unannounced(b) = 0

(* A server that is told to stop does, though a handler may hang, and then *)
(* serves again.                                                           *)
StopsInTime == main = "cancelled" ~> main = "exited"

(* Stops and kills in the middle of it do not keep a delivered booking     *)
(* whose escrow was released from being completed.                         *)
CompletesAcrossStops ==
    \A b \in Bookings :
        Released(b) /\ HasStatus(b, "delivered") ~> HasStatus(b, "completed")
=============================================================================
