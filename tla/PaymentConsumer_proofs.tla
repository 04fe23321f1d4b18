----------------------- MODULE PaymentConsumer_proofs -----------------------
(***************************************************************************)
(* Proofs about PaymentConsumer, for every value of its constants: the     *)
(* composition implements the booking service, so that everything proved   *)
(* of the service holds for it, and on that rest the proofs about the      *)
(* messages the consumer handles.                                          *)
(***************************************************************************)
EXTENDS PaymentConsumer, BookingService_events_proofs

(* What is true of the loop's variables whatever the service does.         *)
LoopOK ==
    /\ payments \in Seq(Bookings \cup {Ignored})
    /\ stage \in {"poll", "busy", "done"}
    /\ offset \in Nat /\ position \in Nat
    /\ offset <= position /\ position <= Len(payments)
    /\ stage # "poll" => position < Len(payments)

LEMMA MessageType ==
    ASSUME LoopOK, position < Len(payments)
    PROVE  Message \in Bookings \cup {Ignored}
  <1>1. position + 1 \in 1..Len(payments)
    BY DEF LoopOK
  <1> QED
    BY <1>1 DEF LoopOK, Message

(* What the handler's outcomes leave of the loop.                          *)
LEMMA LoopMoves ==
    ASSUME LoopOK, position < Len(payments),
           HandlerFails \/ Loop("busy") \/ Loop("done")
    PROVE  LoopOK'
  BY DEF LoopOK, HandlerFails, Loop

LEMMA PaymentArrives ==
    ASSUME LoopOK, NEW m \in Bookings \cup {Ignored},
           payments' = Append(payments, m), UNCHANGED loop
    PROVE  LoopOK'
  <1>1. /\ payments' \in Seq(Bookings \cup {Ignored})
        /\ Len(payments') = Len(payments) + 1 /\ Len(payments) \in Nat
    BY DEF LoopOK
  <1> QED
    BY <1>1 DEF LoopOK, loop

LEMMA LoopStep == LoopOK /\ [ConsumerNext]_allVars => LoopOK'
  <1> SUFFICES ASSUME LoopOK, [ConsumerNext]_allVars PROVE LoopOK'
    OBVIOUS
  <1>1. ASSUME NEW b \in Bookings, ReleaseEscrow(b) PROVE LoopOK'
    BY <1>1, PaymentArrives DEF ReleaseEscrow
  <1>2. CASE OtherPayment
    BY <1>2, PaymentArrives DEF OtherPayment
  <1>3. CASE IgnoreMessage \/ HandleEscrow \/ HandlerRejects \/ HandlerLoadError
    BY <1>3, LoopMoves DEF IgnoreMessage, HandleEscrow, HandlerRejects,
                           HandlerLoadError, HasMessage
  <1>4. CASE ConsumerConflict \/ ConsumerPublish \/ ConsumerPublishError
             \/ ConsumerWriteError
    <2>1. position < Len(payments)
      BY <1>4 DEF LoopOK, ConsumerConflict, ConsumerPublish, ConsumerPublishError,
                  ConsumerWriteError
    <2> QED
      BY <1>4, <2>1, LoopMoves DEF ConsumerConflict, ConsumerPublish,
         ConsumerPublishError, ConsumerWriteError
  <1>5. CASE CommitOffset
    BY <1>5 DEF LoopOK, CommitOffset
  <1>6. CASE UNCHANGED consumerVars
    BY <1>6 DEF LoopOK, consumerVars, loop
  <1>7. ASSUME NEW S \in SUBSET Workers, CrashAny(S) PROVE LoopOK'
    <2>1. CASE Consumer \in S
      BY <1>7, <2>1 DEF LoopOK, CrashAny
    <2> QED
      BY <1>6, <1>7, <2>1 DEF CrashAny
  <1> QED
    BY <1>1, <1>2, <1>3, <1>4, <1>5, <1>6, <1>7 DEF ConsumerNext, ConsumerStep,
       ConsumerFails, ConsumerCommit, HTTPStep, allVars

LEMMA LoopInit == ConsumerInit => LoopOK
  <1>1. <<>> \in Seq(Bookings \cup {Ignored}) /\ Len(<<>>) = 0
    OBVIOUS
  <1> QED
    BY <1>1 DEF ConsumerInit, LoopOK

LEMMA LoopCorrect == ConsumerSpec => []LoopOK
  BY LoopInit, LoopStep, PTL DEF ConsumerSpec
-----------------------------------------------------------------------------
(* Each step of the composition is a step of one worker of the service, a  *)
(* crash, or invisible to it.                                              *)
LEMMA ConsumerRefines ==
    ASSUME LoopOK, [ConsumerNext]_allVars
    PROVE  [Next]_vars
  <1>0. Consumer \in Workers
    BY ConsumerAssumption
  <1>1. CASE (\E b \in Bookings : ReleaseEscrow(b)) \/ OtherPayment
             \/ IgnoreMessage \/ HandlerRejects \/ CommitOffset
    BY <1>1 DEF ReleaseEscrow, OtherPayment, IgnoreMessage, HandlerRejects,
                CommitOffset
  <1>2. CASE HandleEscrow
    <2>1. Message \in Bookings /\ CompleteBooking(Consumer, Message)
      BY <1>2, MessageType DEF HandleEscrow, HasMessage
    <2> QED
      BY <1>0, <2>1 DEF Next, Handle
  <1>3. CASE ConsumerCommit \/ ConsumerConflict \/ ConsumerPublish
    BY <1>0, <1>3 DEF ConsumerCommit, ConsumerConflict, ConsumerPublish, Next, Progress
  <1>4. CASE ConsumerFails
    BY <1>0, <1>4 DEF ConsumerFails, HandlerLoadError, ConsumerPublishError,
                      ConsumerWriteError, Next, Fail
  <1>5. ASSUME NEW w \in Workers, HTTPStep(w) PROVE Next
    BY <1>5 DEF HTTPStep, Next
  <1>6. ASSUME NEW S \in SUBSET Workers, CrashAny(S) PROVE Next
    BY <1>6 DEF CrashAny, Next
  <1>7. CASE UNCHANGED allVars
    BY <1>7 DEF allVars
  <1> QED
    BY <1>1, <1>2, <1>3, <1>4, <1>5, <1>6, <1>7 DEF ConsumerNext, ConsumerStep

(* The composition implements the booking service.                         *)
THEOREM ConsumerImplementsService == ConsumerSpec => ImplementsService
  <1>1. ConsumerInit => Init
    BY DEF ConsumerInit
  <1>2. LoopOK /\ [ConsumerNext]_allVars => [Next]_vars
    BY ConsumerRefines
  <1> QED
    BY <1>1, <1>2, LoopCorrect, PTL DEF ConsumerSpec, ImplementsService, Spec
-----------------------------------------------------------------------------
(* What the consumer's worker holds, by the stage of the loop: nothing, or *)
(* the completion of the booking its message names, or the event that says *)
(* so, and once that is stored or the message is done with, the booking is *)
(* completed.                                                              *)
Handling ==
    /\ stage = "busy" <=> request[Consumer].stage # "idle"
    /\ request[Consumer].stage # "save"
    /\ request[Consumer].stage = "update" =>
         request[Consumer].op = "complete" /\ request[Consumer].id = Message
    /\ request[Consumer].stage = "publish" =>
         /\ request[Consumer].event.type = "complete"
         /\ request[Consumer].event.booking = Message
    /\ request[Consumer].stage = "publish" \/ stage = "done" =>
         Message = Ignored \/ HasStatus(Message, "completed")

ConsumerInv == LockInv /\ LoopOK /\ Handling

LEMMA CompletedStays ==
    ASSUME LockInv, [Next]_vars, NEW b \in Bookings, HasStatus(b, "completed")
    PROVE  HasStatus(b, "completed")'
  BY TerminalStep DEF TerminalUntouched, HasStatus, Present

(* While a message is handled it stays the one the loop is at.             *)
LEMMA MessageStays ==
    ASSUME LoopOK, position < Len(payments), position' = position,
           payments' = payments
             \/ \E m \in Bookings \cup {Ignored} : payments' = Append(payments, m)
    PROVE  Message' = Message
  <1>1. position + 1 \in 1..Len(payments)
    BY DEF LoopOK
  <1> QED
    BY <1>1 DEF LoopOK, Message

(* Steps of others do not disturb the handler.                             *)
LEMMA HandlingKept ==
    ASSUME ConsumerInv, [Next]_vars, request'[Consumer] = request[Consumer],
           stage' = stage, position' = position,
           payments' = payments
             \/ \E m \in Bookings \cup {Ignored} : payments' = Append(payments, m)
    PROVE  Handling'
  <1>1. CASE stage = "poll"
    BY <1>1 DEF ConsumerInv, Handling
  <1>2. CASE stage # "poll"
    <2>1. position < Len(payments)
      BY <1>2 DEF ConsumerInv, LoopOK
    <2>2. Message' = Message /\ Message \in Bookings \cup {Ignored}
      BY <2>1, MessageStays, MessageType DEF ConsumerInv
    <2>3. Message # Ignored /\ HasStatus(Message, "completed")
            => HasStatus(Message, "completed")'
      BY <2>2, CompletedStays DEF ConsumerInv
    <2> QED
      BY <2>2, <2>3 DEF ConsumerInv, Handling, HasStatus, Present
  <1> QED
    BY <1>1, <1>2

LEMMA OthersLeaveIt ==
    ASSUME TypeOK, NEW w \in Workers \ {Consumer}, HTTPStep(w)
    PROVE  request'[Consumer] = request[Consumer]
  <1>1. Consumer \in Workers /\ request \in [Workers -> AnyRequest]
    BY ConsumerAssumption DEF TypeOK
  <1>2. ASSUME NEW q, Hold(w, q) PROVE request'[Consumer] = request[Consumer]
    BY <1>1, <1>2 DEF Hold
  <1>3. CASE CreateBooking(w)
    BY <1>2, <1>3 DEF CreateBooking, StartCreate
  <1>4. ASSUME NEW b \in Bookings, Handle(w, b)
        PROVE  request'[Consumer] = request[Consumer]
    BY <1>2, <1>4 DEF Handle, RebookBooking, StartCreate, AcceptBooking,
       DeclineBooking, StartDelivery, ConfirmDelivery, CompleteBooking,
       CancelBooking, HoldChange
  <1>5. CASE Progress(w) \/ Fail(w)
    BY <1>2, <1>5 DEF Progress, Save, SaveDuplicate, Commit, Conflict, Publish,
       Fail, DatabaseError, CommitUnacknowledged, PublishError
  <1> QED
    BY <1>3, <1>4, <1>5 DEF HTTPStep

(* The consumer's worker goes idle: the handler has returned.              *)
LEMMA HandlerReturns ==
    ASSUME ConsumerInv, Hold(Consumer, Idle), HandlerFails
    PROVE  Handling'
  <1>1. request' = [request EXCEPT ![Consumer] = Idle]
        /\ request \in [Workers -> AnyRequest] /\ Consumer \in Workers
    BY ConsumerAssumption DEF ConsumerInv, LockInv, TypeOK, Hold
  <1> QED
    BY <1>1, IdleType DEF Handling, HandlerFails

(* The commit of the completion completes the booking of the message.      *)
LEMMA CommitCompletes ==
    ASSUME ConsumerInv, [Next]_vars, ConsumerCommit
    PROVE  Handling'
  <1> DEFINE q == request[Consumer]
  <1>1. /\ q.stage = "update" /\ Write(q) /\ q.op = "complete" /\ q.id = Message
        /\ stage = "busy"
    BY DEF ConsumerCommit, Commit, ConsumerInv, Handling
  <1>2. request \in [Workers -> AnyRequest] /\ Consumer \in Workers
    BY ConsumerAssumption DEF ConsumerInv, LockInv, TypeOK
  <1>3. q \in UpdateRequest
    BY <1>1, <1>2, StageTypes
  <1>4. /\ request'[Consumer].stage = "publish"
        /\ request'[Consumer].event.type = "complete"
        /\ request'[Consumer].event.booking = Message
    <2>1. Hold(Consumer, [stage |-> "publish", event |-> EventOf(q)])
      BY <1>1 DEF ConsumerCommit, Commit
    <2> QED
      BY <1>1, <1>2, <2>1 DEF Hold, EventOf
  <1>5. Message' = Message /\ stage' = stage
    BY DEF ConsumerCommit, consumerVars, loop, Message
  <1>6. q.id \in Bookings /\ q.version \in Nat /\ rows \in [Bookings -> Row]
    BY <1>3 DEF UpdateRequest, ConsumerInv, LockInv, TypeOK
  <1>7. /\ 2 <= q.version
        /\ Change(q.op, q.caller, rows[q.id].bk, q.bk)
    BY <1>1, <1>2 DEF ConsumerInv, LockInv, HeldChangesApply, HeldApplies,
       HeldChangeApplies, Write
  <1>8. rows[q.id].bk \in Booking
    <2>1. q.version - 1 = rows[q.id].version
      BY <1>1 DEF Write, Matches
    <2>2. Present(q.id)
      BY <1>6, <1>7, <2>1 DEF Present
    <2> QED
      BY <1>6, <2>2, RowTypes DEF ConsumerInv, LockInv
  <1>9. q.bk.status = "completed"
    BY <1>1, <1>7, <1>8 DEF Change, AfterComplete, Booking
  <1>10. rows'[q.id].bk = q.bk /\ rows'[q.id].version = q.version
    BY <1>1, <1>6 DEF Write, WriteRow
  <1>11. rows'[q.id].version > 0 /\ rows'[q.id].bk.status = "completed"
    <2> HIDE DEF q
    <2> QED
      BY <1>6, <1>7, <1>9, <1>10
  <1>12. HasStatus(Message, "completed")'
    BY <1>1, <1>5, <1>11 DEF HasStatus, Present
  <1> QED
    BY <1>1, <1>4, <1>5, <1>12 DEF Handling

(* The event was sent or lost: the message is done with.                   *)
LEMMA HandlerDone ==
    ASSUME ConsumerInv, stage = "busy", request[Consumer].stage = "publish",
           Hold(Consumer, Idle), Loop("done"), UNCHANGED rows
    PROVE  Handling'
  <1>1. request' = [request EXCEPT ![Consumer] = Idle]
        /\ request \in [Workers -> AnyRequest] /\ Consumer \in Workers
    BY ConsumerAssumption DEF ConsumerInv, LockInv, TypeOK, Hold
  <1>2. request'[Consumer].stage = "idle"
    BY <1>1, IdleType
  <1>3. Message' = Message /\ stage' = "done"
    BY DEF Loop, Message
  <1>4. Message = Ignored \/ HasStatus(Message, "completed")
    BY DEF ConsumerInv, Handling
  <1> QED
    BY <1>2, <1>3, <1>4 DEF Handling, HasStatus, Present

LEMMA HandlingStep == ConsumerInv /\ [ConsumerNext]_allVars => Handling'
  <1> SUFFICES ASSUME ConsumerInv, [ConsumerNext]_allVars PROVE Handling'
    OBVIOUS
  <1>1. TypeOK /\ LoopOK /\ [Next]_vars
    BY ConsumerRefines DEF ConsumerInv, LockInv
  <1>2. ASSUME NEW b \in Bookings, ReleaseEscrow(b) PROVE Handling'
    BY <1>1, <1>2, HandlingKept DEF ReleaseEscrow, vars, loop
  <1>3. CASE OtherPayment
    BY <1>1, <1>3, HandlingKept DEF OtherPayment, vars, loop
  <1>4. CASE IgnoreMessage
    BY <1>4 DEF IgnoreMessage, HasMessage, Loop, Message, vars, ConsumerInv, Handling
  <1>5. CASE HandleEscrow
    <2>1. \E q \in [stage : {"update"}, op : {"complete"}, id : {Message},
                    caller : {None}, bk : {request'[Consumer].bk},
                    version : {request'[Consumer].version}] :
             request'[Consumer] = q
      <3>1. request \in [Workers -> AnyRequest] /\ Consumer \in Workers
        BY <1>1, ConsumerAssumption DEF TypeOK
      <3> QED
        BY <1>5, <3>1 DEF HandleEscrow, CompleteBooking, HoldChange, Hold
    <2>2. Message' = Message /\ stage' = "busy"
      BY <1>5 DEF HandleEscrow, Loop, Message
    <2> QED
      BY <2>1, <2>2 DEF Handling
  <1>6. CASE HandlerRejects
    BY <1>6 DEF HandlerRejects, HasMessage, HandlerFails, vars, ConsumerInv, Handling
  <1>7. CASE ConsumerCommit
    BY <1>1, <1>7, CommitCompletes
  <1>8. CASE ConsumerConflict \/ ConsumerWriteError \/ HandlerLoadError
    BY <1>8, HandlerReturns DEF ConsumerConflict, Conflict, ConsumerWriteError,
       HandlerLoadError, DatabaseError, CommitUnacknowledged
  <1>9. CASE ConsumerPublish \/ ConsumerPublishError
    BY <1>9, HandlerDone DEF ConsumerPublish, Publish, ConsumerPublishError,
                             PublishError
  <1>10. CASE CommitOffset
    BY <1>10 DEF CommitOffset, vars, ConsumerInv, Handling
  <1>11. ASSUME NEW w \in Workers \ {Consumer}, HTTPStep(w) PROVE Handling'
    <2>1. UNCHANGED consumerVars
      BY <1>11 DEF HTTPStep
    <2> QED
      BY <1>1, <1>11, <2>1, OthersLeaveIt, HandlingKept DEF consumerVars, loop
  <1>12. ASSUME NEW S \in SUBSET Workers, CrashAny(S) PROVE Handling'
    <2>1. Consumer \in Workers /\ request'
            = [w \in Workers |-> IF w \in S THEN Idle ELSE request[w]]
      BY <1>12, ConsumerAssumption DEF CrashAny, Crash
    <2>2. CASE Consumer \in S
      BY <1>12, <2>1, <2>2, IdleType DEF CrashAny, Handling
    <2>3. CASE Consumer \notin S
      BY <1>1, <1>12, <2>1, <2>3, HandlingKept DEF CrashAny, consumerVars, loop
    <2> QED
      BY <2>2, <2>3
  <1>13. CASE UNCHANGED allVars
    BY <1>1, <1>13, HandlingKept DEF allVars, vars, consumerVars, loop
  <1> QED
    BY <1>2, <1>3, <1>4, <1>5, <1>6, <1>7, <1>8, <1>9, <1>10, <1>11, <1>12, <1>13
    DEF ConsumerNext, ConsumerStep, ConsumerFails

(* The inductive invariant of the consumer holds in every reachable state. *)
THEOREM ConsumerCorrect == ConsumerSpec => []ConsumerInv
  <1>1. ConsumerInit => Handling
    BY ConsumerAssumption, IdleType DEF ConsumerInit, Init, Handling
  <1>2. ConsumerSpec => []LockInv
    BY ConsumerImplementsService, LockCorrect, PTL DEF ImplementsService
  <1>3. LockInv /\ LoopOK /\ Handling /\ [ConsumerNext]_allVars => Handling'
    BY HandlingStep DEF ConsumerInv
  <1> QED
    BY <1>1, <1>2, <1>3, LoopCorrect, PTL DEF ConsumerSpec, ConsumerInv

(* The variables of the loop keep their types and its worker holds a       *)
(* request exactly while the handler runs.                                 *)
THEOREM ConsumerTypeCorrect == ConsumerSpec => []ConsumerTypeOK
  <1>1. ConsumerInv => ConsumerTypeOK
    BY DEF ConsumerInv, LoopOK, Handling, ConsumerTypeOK
  <1> QED
    BY <1>1, ConsumerCorrect, PTL

(* Two events that say a booking was completed are one.                    *)
LEMMA OneCompletion == EventsInv => CompletedOnce
  <1> SUFFICES ASSUME EventsInv, NEW b \in Bookings
               PROVE  Cardinality({e \in Emitted : e.booking = b
                                                   /\ e.type = "complete"}) <= 1
    BY DEF CompletedOnce
  <1> DEFINE C == {e \in Emitted : e.booking = b /\ e.type = "complete"}
  <1>1. \A e, f \in C : e = f
    BY DEF EventsInv, EventSound, EventsUnique
  <1>2. CASE C = {}
    BY <1>2, FS_EmptySet
  <1>3. ASSUME NEW e \in C PROVE Cardinality(C) <= 1
    <2>1. C = {e}
      BY <1>1, <1>3
    <2>2. Cardinality({e}) = 1
      BY FS_Singleton
    <2> HIDE DEF C
    <2> QED
      BY <2>1, <2>2
  <1> QED
    BY <1>2, <1>3

(* A booking is completed, and announced as completed, at most once.       *)
THEOREM CompletesOnce == ConsumerSpec => []CompletedOnce
  BY OneCompletion, ConsumerImplementsService, EventsCorrect, PTL DEF ImplementsService
-----------------------------------------------------------------------------
(* With a loop that retries: the offset is where the loop is, as nothing   *)
(* is skipped, and what is behind it is completed.                         *)
OffsetInv == Retries => position = offset /\ OffsetCoversCompleted

LEMMA OffsetMoves ==
    ASSUME [ConsumerNext]_allVars, Retries, position = offset
    PROVE  \/ /\ offset' = offset /\ position' = position
              /\ \/ payments' = payments
                 \/ \E m \in Bookings \cup {Ignored} : payments' = Append(payments, m)
           \/ CommitOffset
  BY DEF ConsumerNext, ConsumerStep, ConsumerFails, ReleaseEscrow, OtherPayment,
         IgnoreMessage, HandleEscrow, HandlerRejects, HandlerLoadError, ConsumerCommit,
         ConsumerConflict, ConsumerPublish, ConsumerPublishError, ConsumerWriteError,
         HTTPStep, CrashAny, HandlerFails, Loop, consumerVars, loop, allVars

(* While the offset stays, what it covers does, if completed bookings do.  *)
LEMMA OffsetHeld ==
    ASSUME LoopOK, OffsetCoversCompleted, offset' = offset,
           payments' = payments
             \/ \E m \in Bookings \cup {Ignored} : payments' = Append(payments, m),
           \A b \in Bookings : HasStatus(b, "completed") =>
             rows'[b].version > 0 /\ rows'[b].bk.status = "completed"
    PROVE  OffsetCoversCompleted'
  <1>1. /\ payments \in Seq(Bookings \cup {Ignored}) /\ Len(payments) \in Nat
        /\ offset \in Nat /\ offset <= Len(payments)
    BY DEF LoopOK
  <1>2. \A i \in 1..offset :
          payments'[i] = payments[i] /\ payments[i] \in Bookings \cup {Ignored}
    BY <1>1
  <1>3. \A i \in 1..offset : payments[i] # Ignored =>
          rows'[payments[i]].version > 0 /\ rows'[payments[i]].bk.status = "completed"
    BY <1>2 DEF OffsetCoversCompleted
  <1> QED
    BY <1>2, <1>3 DEF OffsetCoversCompleted, HasStatus, Present

LEMMA OffsetStep == ConsumerInv /\ OffsetInv /\ [ConsumerNext]_allVars => OffsetInv'
  <1> SUFFICES ASSUME ConsumerInv, OffsetInv, [ConsumerNext]_allVars, Retries
               PROVE  position' = offset' /\ OffsetCoversCompleted'
    BY DEF OffsetInv
  <1>1. LoopOK /\ [Next]_vars /\ LockInv
    BY ConsumerRefines DEF ConsumerInv
  <1>2. position = offset /\ OffsetCoversCompleted
    BY DEF OffsetInv
  <1>3. \A b \in Bookings : HasStatus(b, "completed") => HasStatus(b, "completed")'
    BY <1>1, CompletedStays
  <1>4. ASSUME NEW b \in Bookings, HasStatus(b, "completed")
        PROVE  rows'[b].version > 0 /\ rows'[b].bk.status = "completed"
    BY <1>3, <1>4 DEF HasStatus, Present
  <1>5. ASSUME NEW b \in Bookings \cup {Ignored}, b # Ignored, HasStatus(b, "completed")
        PROVE  rows'[b].version > 0 /\ rows'[b].bk.status = "completed"
    BY <1>4, <1>5
  <1>6. /\ payments \in Seq(Bookings \cup {Ignored}) /\ Len(payments) \in Nat
        /\ offset \in Nat /\ offset <= Len(payments)
    BY <1>1 DEF LoopOK
  <1>7. CASE CommitOffset
    <2>1. position < Len(payments) /\ (Message = Ignored \/ HasStatus(Message, "completed"))
      BY <1>7 DEF CommitOffset, ConsumerInv, LoopOK, Handling
    <2>2. /\ position' = offset' /\ offset' = offset + 1 /\ payments' = payments
          /\ offset + 1 \in 1..Len(payments)
      BY <1>2, <1>6, <1>7, <2>1 DEF CommitOffset
    <2>3. \A i \in 1..(offset + 1) :
            payments[i] # Ignored => HasStatus(payments[i], "completed")
      BY <1>2, <1>6, <2>1 DEF OffsetCoversCompleted, Message
    <2>4. \A i \in 1..(offset + 1) : payments[i] \in Bookings \cup {Ignored}
      BY <1>6, <2>2
    <2>5. \A i \in 1..(offset + 1) : payments[i] # Ignored =>
            rows'[payments[i]].version > 0 /\ rows'[payments[i]].bk.status = "completed"
      BY <1>5, <2>3, <2>4
    <2> QED
      BY <2>2, <2>5 DEF OffsetCoversCompleted, HasStatus, Present
  <1>8. CASE /\ offset' = offset /\ position' = position
             /\ \/ payments' = payments
                \/ \E m \in Bookings \cup {Ignored} : payments' = Append(payments, m)
    BY <1>1, <1>2, <1>4, <1>8, OffsetHeld
  <1> QED
    BY <1>2, <1>7, <1>8, OffsetMoves

(* No escrow message is forgotten by a loop that retries.                  *)
THEOREM OffsetCorrect ==
    ASSUME Retries
    PROVE  ConsumerSpec => []OffsetCoversCompleted
  <1>1. ConsumerInit => OffsetInv
    BY DEF ConsumerInit, OffsetInv, OffsetCoversCompleted
  <1>2. ConsumerInv /\ OffsetInv /\ [ConsumerNext]_allVars => OffsetInv'
    BY OffsetStep
  <1>3. OffsetInv => OffsetCoversCompleted
    BY DEF OffsetInv
  <1> QED
    BY <1>1, <1>2, <1>3, ConsumerCorrect, PTL DEF ConsumerSpec
=============================================================================
