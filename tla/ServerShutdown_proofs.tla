----------------------- MODULE ServerShutdown_proofs -----------------------
(***************************************************************************)
(* Proofs about ServerShutdown, for every value of its constants: however  *)
(* often the server is told to stop or killed, and whatever runs at that   *)
(* moment, the lock loses no update, the consumer forgets no message, what *)
(* is announced is true, and a stop in time loses no event but the         *)
(* consumer's.                                                             *)
(***************************************************************************)
EXTENDS ServerShutdown, PaymentConsumer_proofs

ServerInv == ConsumerInv /\ OffsetInv

(* A request that is dropped without being a failure of a call.            *)
Drops ==
    \/ Exit
    \/ \E w \in Workers \ {Consumer} : PublishTooLate(w) /\ UNCHANGED consumerVars
    \/ ConsumerCancelled

(* A kill is a crash of all the workers.                                   *)
LEMMA DieCrashes == Die => CrashAny(Workers)
  <1> SUFFICES ASSUME Die PROVE CrashAny(Workers)
    OBVIOUS
  <1>1. Consumer \in Workers
    BY ConsumerAssumption
  <1>2. [w \in Workers |-> Idle]
          = [w \in Workers |-> IF w \in Workers THEN Idle ELSE request[w]]
    OBVIOUS
  <1> QED
    BY <1>1, <1>2 DEF Die, Vanish, CrashAny, Crash

(* Every other step is one of the consumer's composition, or of main only. *)
LEMMA ServerSteps ==
    ASSUME [ServerNext]_processVars
    PROVE  [ConsumerNext]_allVars \/ Drops
  <1>1. ASSUME NEW from, NEW to, Step(from, to) PROVE UNCHANGED allVars
    BY <1>1 DEF Step
  <1>2. CASE Signal \/ Main
    BY <1>1, <1>2 DEF Signal, Main, BeginShutdown, Drained, TimeOut, CloseConsumer,
                      CloseProducer, Restart, Drops
  <1>3. CASE Die
    BY <1>3, DieCrashes DEF ConsumerNext
  <1>4. ASSUME NEW w \in Workers \ {Consumer}, ServeHTTP(w)
        PROVE  [ConsumerNext]_allVars \/ Drops
    <2>1. CASE StartRequest(w) \/ CarryOn(w) \/ Fail(w)
      BY <1>4, <2>1 DEF ServeHTTP, StartRequest, CarryOn, HTTPStep, Progress,
                        ConsumerNext
    <2>2. CASE PublishTooLate(w)
      BY <1>4, <2>2 DEF ServeHTTP, Drops
    <2> QED
      BY <1>4, <2>1, <2>2 DEF ServeHTTP
  <1>5. CASE Consume
    BY <1>5 DEF Consume, ConsumerNext, ConsumerStep
  <1>6. CASE ConsumerCancelled
    BY <1>6 DEF Drops
  <1>7. CASE Outside
    BY <1>7 DEF Outside, ConsumerNext
  <1>8. CASE UNCHANGED processVars
    BY <1>8 DEF processVars
  <1> QED
    BY <1>2, <1>3, <1>4, <1>5, <1>6, <1>7, <1>8 DEF ServerNext
-----------------------------------------------------------------------------
LEMMA ExitKeeps == ServerInv /\ Exit => ServerInv'
  <1> SUFFICES ASSUME ServerInv, Exit PROVE ServerInv'
    OBVIOUS
  <1>1. /\ Consumer \in Workers /\ Idle \in AnyRequest /\ Idle.stage = "idle"
        /\ LockInv /\ LoopOK /\ TypeOK
    BY ConsumerAssumption, IdleType DEF ServerInv, ConsumerInv, LockInv
  <1>2. /\ request' = [w \in Workers |-> Idle] /\ stage' = "poll"
        /\ position' = offset
        /\ UNCHANGED <<rows, declines, published, faults, payments, offset>>
    BY DEF Exit, Vanish
  <1>3. \A w \in Workers : request'[w] = Idle
    BY <1>2
  <1>4. TypeOK'
    BY <1>1, <1>2, <1>3 DEF TypeOK, Present
  <1>5. LockInv'
    BY <1>1, <1>2, <1>3, <1>4, DropKeeps
  <1>6. LoopOK' /\ Handling'
    BY <1>1, <1>2, <1>3 DEF LoopOK, Handling
  <1>7. OffsetInv'
    BY <1>2 DEF ServerInv, OffsetInv, OffsetCoversCompleted, HasStatus, Present
  <1> QED
    BY <1>5, <1>6, <1>7 DEF ServerInv, ConsumerInv

LEMMA LateKeeps ==
    ASSUME ServerInv, NEW w \in Workers \ {Consumer}, PublishTooLate(w),
           UNCHANGED consumerVars
    PROVE  ServerInv'
  <1>1. /\ Consumer \in Workers /\ Idle \in AnyRequest /\ Idle.stage = "idle"
        /\ LockInv /\ LoopOK /\ TypeOK
    BY ConsumerAssumption, IdleType DEF ServerInv, ConsumerInv, LockInv
  <1>2. /\ request' = [request EXCEPT ![w] = Idle]
        /\ request \in [Workers -> AnyRequest]
        /\ UNCHANGED <<rows, declines, published, faults>>
        /\ UNCHANGED <<payments, offset, position, stage>>
    BY <1>1 DEF PublishTooLate, Hold, TypeOK, consumerVars, loop
  <1>3. /\ request' \in [Workers -> AnyRequest] /\ request'[w] = Idle
        /\ \A v \in Workers \ {w} : request'[v] = request[v]
    BY <1>1, <1>2
  <1>4. TypeOK'
    BY <1>1, <1>2, <1>3 DEF TypeOK, Present
  <1>5. LockInv'
    BY <1>1, <1>2, <1>3, <1>4, DropKeeps
  <1>6. request'[Consumer] = request[Consumer]
    BY <1>1, <1>3
  <1>7. LoopOK' /\ Handling'
    BY <1>1, <1>2, <1>6 DEF LoopOK, Handling, ServerInv, ConsumerInv, Message,
                            HasStatus, Present
  <1>8. OffsetInv'
    BY <1>2 DEF ServerInv, OffsetInv, OffsetCoversCompleted, HasStatus, Present
  <1> QED
    BY <1>5, <1>7, <1>8 DEF ServerInv, ConsumerInv

(* A call of the handler that is cancelled keeps the lock's invariant, and *)
(* the bookings that were completed.                                       *)
LEMMA CancelledKeepsLock ==
    ASSUME ServerInv, ConsumerCancelled
    PROVE  /\ LockInv'
           /\ \A b \in Bookings : HasStatus(b, "completed") =>
                rows'[b].version > 0 /\ rows'[b].bk.status = "completed"
  <1> DEFINE q == request[Consumer]
  <1>1. /\ Consumer \in Workers /\ Idle \in AnyRequest /\ Idle.stage = "idle"
        /\ LockInv /\ LoopOK /\ TypeOK
    BY ConsumerAssumption, IdleType DEF ServerInv, ConsumerInv, LockInv
  <1>2. /\ request' = [request EXCEPT ![Consumer] = Idle]
        /\ request \in [Workers -> AnyRequest]
        /\ UNCHANGED <<published, faults>>
        /\ (q.stage = "update" /\ Write(q)) \/ UNCHANGED <<rows, declines>>
    BY <1>1 DEF ConsumerCancelled, Hold, TypeOK
  <1>3. /\ request' \in [Workers -> AnyRequest] /\ request'[Consumer] = Idle
        /\ \A v \in Workers \ {Consumer} : request'[v] = request[v]
    BY <1>1, <1>2
  <1>4. CASE UNCHANGED <<rows, declines>>
    <2>1. TypeOK'
      BY <1>1, <1>2, <1>3, <1>4 DEF TypeOK, Present
    <2>2. LockInv'
      BY <1>1, <1>3, <1>4, <2>1, DropKeeps
    <2> QED
      BY <1>4, <2>2 DEF HasStatus, Present
  <1>5. CASE q.stage = "update" /\ Write(q)
    <2>1. q \in UpdateRequest
      BY <1>1, <1>2, <1>5, StageTypes
    <2>2. q.op = "decline" => q.caller \in Runners
      BY <1>1, <1>5 DEF TypeOK
    <2>3. /\ rows' \in [Bookings -> Row]
          /\ \A b \in Bookings : Present(b)' <=> rows'[b].bk # NoBooking
          /\ declines' \in [Bookings -> Seq(Runners)]
      BY <1>1, <1>5, <2>1, <2>2, WriteType
    <2>4. TypeOK'
      BY <1>1, <1>2, <1>3, <2>3 DEF TypeOK
    <2>5. LockInv'
      BY <1>1, <1>3, <1>5, <2>4, WriteKeeps
    <2>6. Updates(q)
      BY <1>1, <1>5, HeldUpdates
    <2>7. rows[q.id].bk.status # "completed"
      BY <2>6, TerminalStuck DEF Updates
    <2>8. \A b \in Bookings \ {q.id} : rows'[b] = rows[b]
      BY <1>1, <2>1, <2>6, UpdateEffect
    <2> QED
      BY <2>5, <2>7, <2>8 DEF HasStatus, Present
  <1> QED
    BY <1>2, <1>4, <1>5

LEMMA CancelledKeeps == ServerInv /\ ConsumerCancelled => ServerInv'
  <1> SUFFICES ASSUME ServerInv, ConsumerCancelled PROVE ServerInv'
    OBVIOUS
  <1>1. ConsumerInv /\ LoopOK /\ stage = "busy" /\ Hold(Consumer, Idle)
    BY DEF ServerInv, ConsumerInv, ConsumerCancelled
  <1>2. position < Len(payments)
    BY <1>1 DEF LoopOK
  <1>3. HandlerFails => Handling' /\ LoopOK'
    BY <1>1, <1>2, HandlerReturns, LoopMoves
  <1>4. request[Consumer].stage = "publish" /\ UNCHANGED rows /\ Loop("done")
          => Handling' /\ LoopOK'
    BY <1>1, <1>2, HandlerDone, LoopMoves
  <1>5. Handling' /\ LoopOK'
    BY <1>3, <1>4 DEF ConsumerCancelled
  <1>6. ASSUME Retries
        PROVE  position' = offset' /\ OffsetCoversCompleted'
    <2>1. position = offset /\ OffsetCoversCompleted
      BY <1>6 DEF ServerInv, OffsetInv
    <2>2. UNCHANGED <<payments, offset, position>>
      BY <1>6 DEF ConsumerCancelled, HandlerFails, Loop
    <2> QED
      BY <1>1, <2>1, <2>2, OffsetHeld, CancelledKeepsLock
  <1>7. LockInv'
    BY CancelledKeepsLock
  <1> QED
    BY <1>5, <1>6, <1>7 DEF ServerInv, ConsumerInv, OffsetInv

LEMMA ServerStep == ServerInv /\ [ServerNext]_processVars => ServerInv'
  <1> SUFFICES ASSUME ServerInv, [ServerNext]_processVars PROVE ServerInv'
    OBVIOUS
  <1>1. CASE [ConsumerNext]_allVars
    <2>1. LoopOK /\ LockInv /\ ConsumerInv
      BY DEF ServerInv, ConsumerInv
    <2>2. LoopOK' /\ LockInv' /\ Handling'
      BY <1>1, <2>1, LoopStep, ConsumerRefines, LockStep, HandlingStep
    <2> QED
      BY <1>1, <2>2, OffsetStep DEF ServerInv, ConsumerInv
  <1>2. CASE Drops
    BY <1>2, ExitKeeps, LateKeeps, CancelledKeeps DEF Drops
  <1> QED
    BY <1>1, <1>2, ServerSteps

LEMMA ServerInitInv == ServerInit => ServerInv
  BY LockInit, LoopInit, ConsumerAssumption, IdleType
  DEF ServerInit, ConsumerInit, Init, ServerInv, ConsumerInv, Handling, OffsetInv,
      OffsetCoversCompleted

(* The invariants of the lock and of the consumer hold in every state of   *)
(* servers that are stopped, killed and started again.                     *)
THEOREM ServerCorrect == ServerSpec => []ServerInv
  BY ServerInitInv, ServerStep, PTL DEF ServerSpec

(* No stop and no kill makes a loop that retries forget an escrow message: *)
(* what is behind the committed offset is completed.                       *)
THEOREM OffsetSurvivesStops ==
    ASSUME Retries
    PROVE  ServerSpec => []OffsetCoversCompleted
  <1>1. ServerInv => OffsetCoversCompleted
    BY DEF ServerInv, OffsetInv
  <1> QED
    BY <1>1, ServerCorrect, PTL
-----------------------------------------------------------------------------
(* What the tables and the events go through is what they go through in    *)
(* the booking service: what is proved of its steps holds of a server that *)
(* is stopped.                                                             *)
LEMMA ServerTableSteps ==
    ASSUME ServerInv, [ServerNext]_processVars
    PROVE  TableStep
  <1>1. LockInv /\ LoopOK /\ Consumer \in Workers
    BY ConsumerAssumption DEF ServerInv, ConsumerInv
  <1>2. CASE [ConsumerNext]_allVars
    BY <1>1, <1>2, ConsumerRefines, TableSteps
  <1>3. CASE Exit \/ \E w \in Workers \ {Consumer} : PublishTooLate(w)
    BY <1>3 DEF Exit, PublishTooLate, TableStep
  <1>4. CASE ConsumerCancelled
    <2>1. CASE UNCHANGED <<rows, declines>>
      BY <2>1 DEF TableStep
    <2>2. CASE request[Consumer].stage = "update" /\ Write(request[Consumer])
      BY <1>1, <2>2, HeldUpdates DEF TableStep
    <2> QED
      BY <1>4, <2>1, <2>2 DEF ConsumerCancelled
  <1> QED
    BY <1>2, <1>3, <1>4, ServerSteps DEF Drops

(* A request that is dropped makes no event.                               *)
LEMMA DropsAreQuiet == TypeOK /\ Drops => Quiet
  <1> SUFFICES ASSUME TypeOK, Drops PROVE Quiet
    OBVIOUS
  <1>1. request \in [Workers -> AnyRequest] /\ Idle.stage = "idle"
    BY IdleType DEF TypeOK
  <1>2. ASSUME NEW w \in Workers, Hold(w, Idle), published' = published
        PROVE  Quiet
    BY <1>1, <1>2 DEF Quiet, Hold
  <1>3. CASE Exit
    BY <1>1, <1>3 DEF Exit, Vanish, Quiet
  <1>4. CASE ConsumerCancelled
    BY <1>2, <1>4, ConsumerAssumption DEF ConsumerCancelled
  <1>5. CASE \E w \in Workers \ {Consumer} : PublishTooLate(w)
    BY <1>2, <1>5 DEF PublishTooLate
  <1> QED
    BY <1>3, <1>4, <1>5 DEF Drops

LEMMA ServerEventSteps ==
    ASSUME ServerInv, EventsInv, [ServerNext]_processVars
    PROVE  EventStep
  <1>1. LoopOK /\ TypeOK
    BY DEF ServerInv, ConsumerInv, LockInv
  <1>2. CASE [ConsumerNext]_allVars
    BY <1>1, <1>2, ConsumerRefines, EventSteps
  <1>3. CASE Drops
    BY <1>1, <1>3, DropsAreQuiet DEF EventStep
  <1> QED
    BY <1>2, <1>3, ServerSteps

ServerEventsInv == ServerInv /\ AcceptsInv

LEMMA ServerEventsStep ==
    ServerEventsInv /\ [ServerNext]_processVars => ServerEventsInv'
  <1> SUFFICES ASSUME ServerEventsInv, [ServerNext]_processVars
               PROVE  ServerEventsInv'
    OBVIOUS
  <1>1. ServerInv /\ AcceptsInv /\ EventsInv
    BY DEF ServerEventsInv, AcceptsInv
  <1>2. ServerInv' /\ TableStep /\ EventStep
    BY <1>1, ServerStep, ServerTableSteps, ServerEventSteps
  <1>3. EventsInv'
    BY <1>1, <1>2, EventsKept DEF ServerInv, ConsumerInv
  <1> QED
    BY <1>1, <1>2, <1>3, AcceptsKept DEF ServerEventsInv

(* The invariants of the events hold in every state of servers that are    *)
(* stopped, killed and started again.                                      *)
THEOREM ServerEventsCorrect == ServerSpec => []ServerEventsInv
  <1>1. ServerInit => AcceptsInv
    BY AcceptsInit DEF ServerInit, ConsumerInit
  <1>2. ServerInv /\ AcceptsInv /\ [ServerNext]_processVars => AcceptsInv'
    BY ServerEventsStep DEF ServerEventsInv
  <1> QED
    BY <1>1, <1>2, ServerCorrect, PTL DEF ServerSpec, ServerEventsInv

(* Whatever is dropped when a server ends, what was announced was          *)
(* committed, once; nothing follows a completion, which is announced once, *)
(* or a cancellation, and between two announced acceptances there is a     *)
(* recorded decline.                                                       *)
THEOREM EventsSurviveStops ==
    ServerSpec => [](/\ EventsTruthful /\ EventsUnique
                     /\ TerminalEventsFinal /\ CompletedOnce
                     /\ AcceptsSeparatedByDeclines)
  <1>1. EventsInv =>
          EventsTruthful /\ EventsUnique /\ TerminalEventsFinal
    BY DEF EventsInv, EventSound, EventsTruthful, TerminalEventsFinal
  <1>2. ServerEventsInv =>
          /\ EventsTruthful /\ EventsUnique
          /\ TerminalEventsFinal /\ CompletedOnce
          /\ AcceptsSeparatedByDeclines
    BY <1>1, OneCompletion, CoveredSeparates DEF ServerEventsInv, AcceptsInv
  <1> QED
    BY <1>2, ServerEventsCorrect, PTL

(* Completed and cancelled bookings never change, and a runner keeps his   *)
(* booking until he declines it, across stops, kills and restarts.         *)
THEOREM RowsSurviveStops == ServerSpec => TerminalIsFinal /\ RunnerKept
  <1>1. ServerInv /\ [ServerNext]_processVars =>
          [TerminalUntouched]_vars /\ [HandsChangeByRules]_vars
    BY ServerTableSteps, TerminalKept, HandsKept DEF ServerInv, ConsumerInv
  <1> QED
    BY <1>1, ServerCorrect, PTL DEF ServerSpec, TerminalIsFinal, RunnerKept

(* A booking number names one booking across stops, kills and restarts.    *)
THEOREM NumbersSurviveStops == ServerSpec => []NumbersUnique
  <1>1. ServerInit => NumbersUnique
    BY DEF ServerInit, ConsumerInit, Init, NumbersUnique, Present
  <1>2. ServerInv /\ NumbersUnique /\ [ServerNext]_processVars => NumbersUnique'
    BY ServerTableSteps, NumbersKeptUnique DEF ServerInv, ConsumerInv
  <1> QED
    BY <1>1, <1>2, ServerCorrect, PTL DEF ServerSpec

(* The servers implement the lifecycle of the bookings: a stop or a kill   *)
(* changes no booking, and a call that is cancelled changes it by one      *)
(* method of the aggregate or not at all.                                  *)
THEOREM ServerImplementsLifecycle == ServerSpec => ImplementsLifecycle
  <1>1. ServerInit => Lifecycle!Init
    BY DEF ServerInit, ConsumerInit, Init, Lifecycle!Init
  <1>2. ServerInv /\ [ServerNext]_processVars => [Lifecycle!Next]_(Lifecycle!vars)
    BY ServerTableSteps, TableStepRefines DEF ServerInv, ConsumerInv
  <1> QED
    BY <1>1, <1>2, ServerCorrect, PTL DEF ServerSpec, ImplementsLifecycle, Lifecycle!Spec
-----------------------------------------------------------------------------
(* A stop that does not time out loses no event but a completion of the    *)
(* consumer's.  A booking it completed without saying so has no event that *)
(* says it, and the one such event is all that can be missing of it.       *)
SaysCompleted(b) == \E e \in EventsAbout(b) : e.type = "complete"

Slack(b) ==
    IF HasStatus(b, "completed") /\ Released(b) /\ ~ SaysCompleted(b) THEN 1 ELSE 0

Announced(b) ==
    /\ IsFiniteSet(EventsAbout(b))
    /\ Due(b) <= Cardinality(EventsAbout(b)) + Slack(b)

(* Shutdown has waited for the handlers: none is left when the deferred    *)
(* calls run.                                                              *)
NoHandlerLeft ==
    main \in {"drained", "consumer closed", "producer closed", "exited"} =>
        \A w \in Workers \ {Consumer} : request[w] = Idle

DrainInv ==
    /\ ServerInv /\ EventsInv
    /\ ~ timedOut => NoHandlerLeft
    /\ faults = 0 /\ ~ timedOut => \A b \in Bookings : Announced(b)

(* What is released stays released.                                        *)
LEMMA PaymentsGrow ==
    ASSUME [ServerNext]_processVars
    PROVE  \/ payments' = payments
           \/ \E m \in Bookings \cup {Ignored} : payments' = Append(payments, m)
  <1>1. CASE [ConsumerNext]_allVars
    BY <1>1 DEF ConsumerNext, ConsumerStep, ConsumerFails, ReleaseEscrow, OtherPayment,
         IgnoreMessage, HandleEscrow, HandlerRejects, HandlerLoadError, ConsumerCommit,
         ConsumerConflict, ConsumerPublish, ConsumerPublishError, ConsumerWriteError,
         HTTPStep, CommitOffset, CrashAny, HandlerFails, Loop, consumerVars, allVars
  <1>2. CASE Drops
    BY <1>2 DEF Drops, Exit, ConsumerCancelled, HandlerFails, Loop, consumerVars
  <1> QED
    BY <1>1, <1>2, ServerSteps

LEMMA ReleasedStays ==
    ASSUME LoopOK, [ServerNext]_processVars, NEW b \in Bookings, Released(b)
    PROVE  Released(b)'
  <1>1. PICK i \in 1..Len(payments) : payments[i] = b
    BY DEF Released
  <1>2. payments \in Seq(Bookings \cup {Ignored}) /\ Len(payments) \in Nat
    BY DEF LoopOK
  <1>3. i \in 1..Len(payments') /\ payments'[i] = b
    BY <1>1, <1>2, PaymentsGrow
  <1> QED
    BY <1>3 DEF Released

(* A booking's missing completion stays the one thing missing of it, if no *)
(* event that says it appears.                                             *)
LEMMA SlackKept ==
    ASSUME ServerInv, TableStep, NEW b \in Bookings,
           Released(b) => Released(b)', SaysCompleted(b)' => SaysCompleted(b)
    PROVE  Slack(b) \in {0, 1} /\ Slack(b)' \in {0, 1} /\ Slack(b) <= Slack(b)'
  <1>1. HasStatus(b, "completed") => HasStatus(b, "completed")'
    BY TerminalKept DEF ServerInv, ConsumerInv, TerminalUntouched, HasStatus, Present
  <1> QED
    BY <1>1 DEF Slack

LEMMA DueTypes == TypeOK => \A b \in Bookings : Due(b) \in Int
  BY RowTypes DEF Due, TypeOK

(* Nothing is missing that was not, if the events and what is due of b     *)
(* stay.                                                                   *)
LEMMA AnnouncedKept ==
    ASSUME ServerInv, TableStep, NEW b \in Bookings, Announced(b),
           Released(b) => Released(b)',
           EventsAbout(b)' = EventsAbout(b), Due(b)' = Due(b)
    PROVE  Announced(b)'
  <1>1. Slack(b) \in {0, 1} /\ Slack(b)' \in {0, 1} /\ Slack(b) <= Slack(b)'
    BY SlackKept DEF SaysCompleted
  <1>2. IsFiniteSet(EventsAbout(b)) /\ Cardinality(EventsAbout(b)) \in Nat
        /\ Due(b) <= Cardinality(EventsAbout(b)) + Slack(b)
    BY FS_CardinalityType DEF Announced
  <1>3. Due(b) \in Int
    BY DueTypes DEF ServerInv, ConsumerInv, LockInv
  <1>4. Due(b) <= Cardinality(EventsAbout(b)) + Slack(b)'
    BY <1>1, <1>2, <1>3
  <1> QED
    BY <1>2, <1>4 DEF Announced

(* A completed booking takes no more changes, only (at most) declines.     *)
LEMMA CompletedTakesNone ==
    ASSUME ServerInv, TableStep, NEW b \in Bookings, HasStatus(b, "completed")
    PROVE  Due(b)' <= Due(b)
  <1>1. rows'[b] = rows[b]
    BY TerminalKept DEF ServerInv, ConsumerInv, TerminalUntouched, HasStatus
  <1>2. /\ Len(declines[b]) \in Nat /\ Len(declines'[b]) \in Nat
        /\ Len(declines[b]) <= Len(declines'[b])
    BY AssignmentsLogged DEF ServerInv, ConsumerInv
  <1>3. rows[b].version \in Nat
    BY RowTypes DEF ServerInv, ConsumerInv, LockInv, TypeOK
  <1>4. rows[b].version - Len(declines'[b]) <= rows[b].version - Len(declines[b])
    BY <1>2, <1>3
  <1> QED
    BY <1>1, <1>4 DEF Due

(* The steps of the service keep the account.                              *)
LEMMA LedgerKeepsAnnounced ==
    ASSUME ServerInv, TableStep, LedgerStep, NEW b \in Bookings, Announced(b),
           Released(b) => Released(b)'
    PROVE  Announced(b)'
  <1>1. CASE Emitted' = Emitted /\ \A c \in Bookings : Due(c)' = Due(c)
    BY <1>1, AnnouncedKept DEF EventsAbout
  <1>2. ASSUME NEW e \in Event, AddsEvent(e), e.booking # b PROVE Announced(b)'
    <2>1. EventsAbout(b)' = EventsAbout(b) /\ Due(b)' = Due(b)
      BY <1>2 DEF AddsEvent, EventsAbout
    <2> QED
      BY <2>1, AnnouncedKept
  <1>3. ASSUME NEW e \in Event, AddsEvent(e), e.booking = b PROVE Announced(b)'
    <2>1. EventsAbout(b)' = EventsAbout(b) \cup {e} /\ e \notin EventsAbout(b)
      BY <1>3 DEF AddsEvent, EventsAbout
    <2>2. /\ IsFiniteSet(EventsAbout(b)) /\ Cardinality(EventsAbout(b)) \in Nat
          /\ IsFiniteSet(EventsAbout(b)')
          /\ Cardinality(EventsAbout(b)') = Cardinality(EventsAbout(b)) + 1
      BY <2>1, FS_AddElement, FS_CardinalityType DEF Announced
    <2>3. Due(b) \in Int /\ Due(b)' = Due(b) + 1
      BY <1>3, DueTypes DEF AddsEvent, ServerInv, ConsumerInv, LockInv
    <2>4. ~ HasStatus(b, "completed")
      BY <2>3, CompletedTakesNone
    <2>5. Slack(b) = 0 /\ Slack(b)' \in {0, 1}
      BY <2>4 DEF Slack
    <2>6. Due(b) <= Cardinality(EventsAbout(b)) + 0
      BY <2>5 DEF Announced
    <2>7. Due(b)' <= Cardinality(EventsAbout(b)') + Slack(b)'
      BY <2>2, <2>3, <2>5, <2>6
    <2> QED
      BY <2>2, <2>7 DEF Announced
  <1> QED
    BY <1>1, <1>2, <1>3 DEF LedgerStep

(* The consumer's event is lost: it is the one that says its booking was   *)
(* completed, and the escrow of that booking was released.                 *)
LEMMA SilenceIsSlack ==
    ASSUME ServerInv, EventsInv, NEW b \in Bookings, Announced(b),
           UNCHANGED <<rows, declines, published, payments>>,
           request'[Consumer].stage # "publish",
           \A w \in Workers \ {Consumer} : request'[w] = request[w]
    PROVE  Announced(b)'
  <1>1. /\ LockInv /\ LoopOK /\ Handling /\ EventsUnique /\ TypeOK
        /\ Consumer \in Workers
    BY ConsumerAssumption DEF ServerInv, ConsumerInv, LockInv, EventsInv
  <1>2. Due(b)' = Due(b) /\ TableStep /\ (Released(b) => Released(b)')
    BY DEF Due, TableStep, Released
  <1>3. InFlight' = InFlight \ {Consumer}
        /\ \A w \in InFlight' : request'[w] = request[w]
    BY DEF InFlight
  <1>4. CASE request[Consumer].stage # "publish"
    <2>1. Emitted' = Emitted
      BY <1>3, <1>4 DEF Emitted, InFlight
    <2>2. EventsAbout(b)' = EventsAbout(b)
      BY <2>1 DEF EventsAbout
    <2> QED
      BY <1>2, <2>2, AnnouncedKept
  <1>5. CASE request[Consumer].stage = "publish"
    <2> DEFINE e == request[Consumer].event
    <2>1. Consumer \in InFlight /\ e \in Emitted
      BY <1>1, <1>5 DEF InFlight, Emitted
    <2>2. e \notin published /\ \A w \in InFlight' : request'[w].event # e
      BY <1>1, <1>3, <2>1 DEF EventsUnique
    <2>3. Emitted' = Emitted \ {e}
      BY <1>3, <2>1, <2>2 DEF Emitted
    <2>4. /\ e.type = "complete" /\ e.booking = Message
          /\ position < Len(payments)
      BY <1>1, <1>5 DEF Handling, LoopOK
    <2>5. e \in Event /\ EventSound(e)
      BY <1>1, <2>1, EmittedTypes DEF EventsInv
    <2> HIDE DEF e
    <2>6. CASE e.booking # b
      <3>1. EventsAbout(b)' = EventsAbout(b)
        BY <2>3, <2>6 DEF EventsAbout
      <3> QED
        BY <1>2, <3>1, AnnouncedKept
    <2>7. CASE e.booking = b
      <3>1. HasStatus(b, "completed")
        <4>1. b # Ignored
          BY ConsumerAssumption
        <4> QED
          BY <1>1, <1>5, <2>4, <2>7, <4>1 DEF Handling
      <3>2. Released(b)
        <4>1. position + 1 \in 1..Len(payments)
          BY <1>1, <2>4 DEF LoopOK
        <4>2. payments[position + 1] = b
          BY <2>4, <2>7 DEF Message
        <4> QED
          BY <4>1, <4>2 DEF Released
      <3>3. e \in EventsAbout(b) /\ EventsAbout(b)' = EventsAbout(b) \ {e}
        BY <2>1, <2>3, <2>7 DEF EventsAbout
      <3>4. ASSUME NEW f \in EventsAbout(b)', f.type = "complete" PROVE FALSE
        <4>1. f \in Emitted /\ f.booking = b /\ f # e
          BY <2>3, <3>3 DEF EventsAbout
        <4>2. rows[b].version = f.version /\ rows[b].version = e.version
          BY <2>4, <2>5, <2>7, <3>4, <4>1 DEF EventsInv, EventSound
        <4> QED
          BY <1>1, <2>1, <2>7, <4>1, <4>2 DEF EventsUnique
      <3>5. Slack(b) = 0
        BY <2>4, <3>3 DEF Slack, SaysCompleted
      <3>6. Slack(b)' = 1
        BY <3>1, <3>2, <3>4 DEF Slack, SaysCompleted, HasStatus, Present, Released
      <3>7. /\ IsFiniteSet(EventsAbout(b)) /\ Cardinality(EventsAbout(b)) \in Nat
            /\ IsFiniteSet(EventsAbout(b)')
            /\ Cardinality(EventsAbout(b)') = Cardinality(EventsAbout(b)) - 1
        BY <3>3, FS_RemoveElement, FS_CardinalityType DEF Announced
      <3>8. Due(b) <= Cardinality(EventsAbout(b)) + 0 /\ Due(b) \in Int
        BY <1>1, <3>5, DueTypes DEF Announced
      <3>9. Due(b)' <= Cardinality(EventsAbout(b)') + 1
        BY <1>2, <3>7, <3>8
      <3> QED
        BY <3>6, <3>7, <3>9 DEF Announced
    <2> QED
      BY <2>6, <2>7
  <1> QED
    BY <1>4, <1>5

(* The consumer's call is cancelled but its update is stored: the booking  *)
(* is completed, and nothing says so.                                      *)
LEMMA CancelledCompletes ==
    ASSUME ServerInv, EventsInv, ConsumerCancelled,
           request[Consumer].stage = "update", Write(request[Consumer]),
           NEW b \in Bookings, Announced(b)
    PROVE  Announced(b)'
  <1> DEFINE q == request[Consumer]
  <1>1. /\ LockInv /\ LoopOK /\ Handling /\ TypeOK /\ Consumer \in Workers
        /\ rows \in [Bookings -> Row] /\ request \in [Workers -> AnyRequest]
    BY ConsumerAssumption DEF ServerInv, ConsumerInv, LockInv, TypeOK
  <1>2. q \in UpdateRequest /\ Updates(q)
    BY <1>1, HeldUpdates
  <1>3. /\ q.op = "complete" /\ q.id = Message /\ stage = "busy"
        /\ position < Len(payments)
    BY <1>1 DEF Handling, ConsumerCancelled, LoopOK
  <1>4. /\ q.id \in Bookings /\ declines' = declines /\ rows'[q.id].bk = q.bk
        /\ rows' = [rows EXCEPT ![q.id] = [bk |-> q.bk, version |-> q.version]]
        /\ \A c \in Bookings \ {q.id} : rows'[c] = rows[c]
    BY <1>1, <1>2, <1>3, UpdateEffect
  <1>5. Hold(Consumer, Idle) /\ published' = published /\ payments' = payments
    BY DEF ConsumerCancelled, HandlerFails
  <1>6. Emitted' = Emitted
    <2>1. Idle.stage # "publish"
      BY IdleType
    <2> QED
      BY <1>1, <1>5, <2>1, HoldEmits
  <1>7. EventsAbout(b)' = EventsAbout(b)
    BY <1>6 DEF EventsAbout
  <1>8. CASE b # q.id
    <2>1. Due(b)' = Due(b) /\ (Released(b) => Released(b)')
      BY <1>4, <1>5, <1>8 DEF Due, Released
    <2>2. TableStep
      BY <1>2 DEF TableStep
    <2> QED
      BY <1>7, <2>1, <2>2, AnnouncedKept
  <1>9. CASE b = q.id
    <2>1. /\ rows[b].version \in Nat /\ q.version \in Nat
          /\ rows[b].version = q.version - 1
          /\ rows'[b].version = q.version
      BY <1>1, <1>2, <1>4, <1>9, RowTypes DEF Write, Matches, UpdateRequest
    <2>2. rows[b].bk \in Booking /\ Change("complete", q.caller, rows[b].bk, q.bk)
      BY <1>1, <1>2, <1>3, <1>9, RowTypes DEF Updates
    <2>3. rows[b].bk.status # "completed" /\ q.bk.status = "completed"
      <3>1. StatusAfter["complete"] = "completed"
        BY DEF StatusAfter, Operations
      <3> QED
        BY <2>2, <3>1, TerminalStuck, ChangeStatus
    <2>4. Released(b)
      <3>1. position + 1 \in 1..Len(payments)
        BY <1>1, <1>3 DEF LoopOK
      <3>2. payments[position + 1] = b
        BY <1>3, <1>9 DEF Message
      <3> QED
        BY <3>1, <3>2 DEF Released
    <2>5. ASSUME NEW f \in EventsAbout(b), f.type = "complete" PROVE FALSE
      <3>1. f \in Emitted /\ f.booking = b /\ f \in Event /\ EventSound(f)
        BY <1>1, EmittedTypes DEF EventsAbout, EventsInv
      <3>2. rows[b].version = f.version
        BY <2>5, <3>1 DEF EventSound
      <3>3. StatusAfter["complete"] = "completed"
        BY DEF StatusAfter, Operations
      <3> QED
        BY <2>3, <2>5, <3>1, <3>2, <3>3 DEF EventSound
    <2> HIDE DEF q
    <2>6. rows'[b].version > 0 /\ rows'[b].bk.status = "completed"
      BY <1>4, <1>9, <2>1, <2>3
    <2>7. Slack(b) = 0 /\ Slack(b)' = 1
      <3>1. Slack(b) = 0
        BY <2>3 DEF Slack, HasStatus
      <3>2. Released(b)' /\ HasStatus(b, "completed")'
        BY <1>5, <2>4, <2>6 DEF Released, HasStatus, Present
      <3>3. ~ SaysCompleted(b)'
        BY <1>7, <2>5 DEF SaysCompleted
      <3> QED
        BY <3>1, <3>2, <3>3 DEF Slack
    <2>8. Due(b)' = Due(b) + 1 /\ Due(b) \in Int
      <3>1. \A x, y \in Nat : (x + 1) - y = (x - y) + 1
        OBVIOUS
      <3>2. Len(declines[b]) \in Nat /\ Due(b) \in Int
        BY <1>1, DueTypes DEF TypeOK
      <3>3. rows'[b].version = rows[b].version + 1
        BY <2>1
      <3>4. (rows[b].version + 1) - Len(declines[b])
              = (rows[b].version - Len(declines[b])) + 1
        BY ONLY <2>1, <3>1, <3>2, Zenon
      <3>5. Due(b)' = rows'[b].version - Len(declines[b])
        BY <1>4 DEF Due
      <3> QED
        BY ONLY <3>2, <3>3, <3>4, <3>5, Zenon DEF Due
    <2>9. IsFiniteSet(EventsAbout(b)) /\ Cardinality(EventsAbout(b)) \in Nat
          /\ Due(b) <= Cardinality(EventsAbout(b)) + 0
      BY <2>7, FS_CardinalityType DEF Announced
    <2>10. Due(b)' <= Cardinality(EventsAbout(b)) + 1
      BY <2>8, <2>9
    <2> QED
      BY <1>7, <2>7, <2>9, <2>10 DEF Announced
  <1> QED
    BY <1>8, <1>9
-----------------------------------------------------------------------------
(* Shutdown that has not given up has waited for the handlers.             *)
LEMMA HandlersGone ==
    ASSUME TypeOK, [ServerNext]_processVars, ~ timedOut', ~ timedOut => NoHandlerLeft
    PROVE  ~ timedOut /\ NoHandlerLeft'
  <1>1. request \in [Workers -> AnyRequest] /\ Idle.stage = "idle"
    BY IdleType DEF TypeOK
  <1>2. ~ timedOut
    BY DEF ServerNext, Main, Signal, BeginShutdown, Drained, TimeOut, CloseConsumer,
           CloseProducer, Exit, Restart, Die, Step, ServeHTTP, Consume,
           ConsumerCancelled, Outside, serverVars, processVars
  <1>3. NoHandlerLeft
    BY <1>2
  <1> SUFFICES NoHandlerLeft'
    BY <1>2
  <1>4. ASSUME NEW from, NEW to, Step(from, to) PROVE UNCHANGED request
    BY <1>4 DEF Step, allVars, vars
  <1>5. CASE Signal \/ BeginShutdown \/ Restart
    BY <1>5 DEF Signal, BeginShutdown, Restart, Step, NoHandlerLeft
  <1>6. CASE Drained \/ CloseConsumer \/ CloseProducer
    <2>1. \A w \in Workers \ {Consumer} : request[w] = Idle
      BY <1>3, <1>6 DEF Drained, CloseConsumer, CloseProducer, Step, NoHandlerLeft
    <2> QED
      BY <1>4, <1>6, <2>1
         DEF Drained, CloseConsumer, CloseProducer, NoHandlerLeft
  <1>7. CASE Exit \/ Die
    BY <1>7 DEF Exit, Die, Vanish, NoHandlerLeft
  <1>8. CASE TimeOut
    BY <1>8 DEF TimeOut
  <1>9. ASSUME NEW w \in Workers \ {Consumer}, ServeHTTP(w) PROVE NoHandlerLeft'
    <2> SUFFICES ASSUME main' \in {"drained", "consumer closed", "producer closed",
                                   "exited"}
                 PROVE  \A v \in Workers \ {Consumer} : request'[v] = Idle
      BY DEF NoHandlerLeft
    <2>1. /\ main' = main
          /\ \A v \in Workers \ {Consumer} : request[v] = Idle
      BY <1>3, <1>9 DEF ServeHTTP, serverVars, NoHandlerLeft
    <2>2. DatabaseError(w)
      BY <1>1, <1>9, <2>1 DEF ServeHTTP, StartRequest, CarryOn, Save, SaveDuplicate,
         Commit, Conflict, Publish, PublishTooLate, Fail, CommitUnacknowledged,
         PublishError
    <2> QED
      BY <1>1, <2>1, <2>2 DEF DatabaseError, Hold
  <1>10. ASSUME \E q : Hold(Consumer, q) \/ UNCHANGED request, main' = main
         PROVE  NoHandlerLeft'
    BY <1>1, <1>3, <1>10 DEF Hold, NoHandlerLeft
  <1>11. CASE Consume
    <2>1. main' = main
      BY <1>11 DEF Consume, serverVars
    <2>2. \E q : Hold(Consumer, q) \/ UNCHANGED request
      BY <1>11 DEF Consume, IgnoreMessage, HandleEscrow, CompleteBooking, HoldChange,
         HandlerRejects, ConsumerCommit, Commit, ConsumerConflict, Conflict,
         ConsumerPublish, Publish, CommitOffset, ConsumerFails, HandlerLoadError,
         DatabaseError, ConsumerPublishError, PublishError, ConsumerWriteError,
         CommitUnacknowledged, vars
    <2> QED
      BY <1>10, <2>1, <2>2
  <1>12. CASE ConsumerCancelled
    BY <1>10, <1>12 DEF ConsumerCancelled, serverVars
  <1>13. CASE Outside \/ UNCHANGED processVars
    <2>1. UNCHANGED <<request, main>>
      BY <1>13 DEF Outside, OtherPayment, ReleaseEscrow, vars, serverVars, processVars,
                   allVars
    <2> QED
      BY <1>10, <2>1
  <1> QED
    BY <1>2, <1>5, <1>6, <1>7, <1>8, <1>9, <1>11, <1>12, <1>13 DEF ServerNext, Main

LEMMA DrainStep == DrainInv /\ [ServerNext]_processVars => DrainInv'
  <1> SUFFICES ASSUME DrainInv, [ServerNext]_processVars PROVE DrainInv'
    OBVIOUS
  <1>1. /\ ServerInv /\ EventsInv /\ LockInv /\ LoopOK /\ TypeOK
        /\ Consumer \in Workers /\ request \in [Workers -> AnyRequest]
    BY ConsumerAssumption DEF DrainInv, ServerInv, ConsumerInv, LockInv, TypeOK
  <1>2. ServerInv' /\ TableStep /\ EventStep
    BY <1>1, ServerStep, ServerTableSteps, ServerEventSteps
  <1>3. EventsInv'
    BY <1>1, <1>2, EventsKept DEF ServerInv, ConsumerInv
  <1>4. ~ timedOut' => ~ timedOut /\ NoHandlerLeft'
    BY <1>1, HandlersGone DEF DrainInv
  <1>5. ASSUME faults' = 0, ~ timedOut', NEW b \in Bookings PROVE Announced(b)'
    <2>1. ~ timedOut /\ NoHandlerLeft /\ (faults = 0 => Announced(b))
      BY <1>4, <1>5 DEF DrainInv
    <2>2. Released(b) => Released(b)'
      BY <1>1, ReleasedStays
    <2>3. CASE [ConsumerNext]_allVars
      <3>1. [Next]_vars
        BY <1>1, <2>3, ConsumerRefines
      <3>2. ~ Fault
        BY <1>1, <1>5 DEF Fault, TypeOK
      <3>3. faults = 0 /\ LedgerStep
        BY <1>1, <1>5, <3>1, <3>2, LedgerSteps
      <3> QED
        BY <1>1, <1>2, <2>1, <2>2, <3>3, LedgerKeepsAnnounced
    <2>4. CASE Exit
      <3>1. /\ UNCHANGED <<rows, declines, published, payments, faults>>
            /\ \A w \in Workers : request'[w] = Idle
        BY <2>4 DEF Exit, Vanish
      <3>2. \A w \in Workers \ {Consumer} : request[w] = Idle
        BY <2>1, <2>4 DEF Exit, NoHandlerLeft
      <3> QED
        BY <1>1, <1>5, <2>1, <3>1, <3>2, IdleType, SilenceIsSlack
    <2>5. ASSUME NEW w \in Workers \ {Consumer}, PublishTooLate(w) PROVE FALSE
      BY <2>1, <2>5, IdleType DEF PublishTooLate, NoHandlerLeft
    <2>6. CASE ConsumerCancelled
      <3>1. Announced(b)
        BY <1>5, <2>1, <2>6 DEF ConsumerCancelled
      <3>2. CASE request[Consumer].stage = "update" /\ Write(request[Consumer])
        BY <1>1, <2>6, <3>1, <3>2, CancelledCompletes
      <3>3. CASE UNCHANGED <<rows, declines>>
        <4>1. /\ UNCHANGED <<rows, declines, published, payments>>
              /\ Hold(Consumer, Idle)
          BY <2>6, <3>3 DEF ConsumerCancelled, HandlerFails, Loop
        <4>2. /\ request'[Consumer].stage # "publish"
              /\ \A w \in Workers \ {Consumer} : request'[w] = request[w]
          BY <1>1, <4>1, IdleType DEF Hold
        <4> QED
          BY <1>1, <3>1, <4>1, <4>2, SilenceIsSlack
      <3> QED
        BY <2>6, <3>2, <3>3 DEF ConsumerCancelled
    <2> QED
      BY <2>3, <2>4, <2>5, <2>6, ServerSteps DEF Drops
  <1> QED
    BY <1>2, <1>3, <1>4, <1>5 DEF DrainInv

(* A stop that does not time out loses no event of an HTTP request, and of *)
(* the consumer only that a booking whose escrow was released is completed.*)
THEOREM StopsStayAnnounced == ServerSpec => []DrainAnnounces
  <1>1. ServerInit => DrainInv
    <2> SUFFICES ASSUME ServerInit PROVE DrainInv
      OBVIOUS
    <2>1. Init /\ EventsInv /\ Emitted = {} /\ main = "serving"
      BY EventsInit DEF ServerInit, ConsumerInit
    <2>2. ServerInv
      BY ServerInitInv
    <2>3. ASSUME NEW b \in Bookings PROVE Announced(b)
      <3>1. EventsAbout(b) = {} /\ Due(b) = 0
        BY <2>1 DEF EventsAbout, Due, Init
      <3>2. Slack(b) \in {0, 1}
        BY DEF Slack
      <3> QED
        BY <3>1, <3>2, FS_EmptySet DEF Announced
    <2> QED
      BY <2>1, <2>2, <2>3 DEF DrainInv, NoHandlerLeft
  <1>2. DrainInv => DrainAnnounces
    <2> SUFFICES ASSUME DrainInv, faults = 0, ~ timedOut, NEW b \in Bookings
                 PROVE  Unannounced(b) <=
                          (IF HasStatus(b, "completed") /\ Released(b) THEN 1 ELSE 0)
      BY DEF DrainAnnounces
    <2> DEFINE s == IF HasStatus(b, "completed") /\ Released(b) THEN 1 ELSE 0
    <2>1. Due(b) \in Int
      BY DueTypes DEF DrainInv, ServerInv, ConsumerInv, LockInv
    <2>2. /\ Due(b) <= Cardinality(EventsAbout(b)) + Slack(b)
          /\ Cardinality(EventsAbout(b)) \in Nat
      BY FS_CardinalityType DEF DrainInv, Announced
    <2>3. s \in {0, 1} /\ Slack(b) \in {0, 1} /\ Slack(b) <= s
      BY DEF Slack
    <2>4. Unannounced(b) = Due(b) - Cardinality(EventsAbout(b))
      BY DEF Unannounced, Due, EventsAbout
    <2> HIDE DEF s
    <2>5. Due(b) - Cardinality(EventsAbout(b)) <= s
      BY <2>1, <2>2, <2>3
    <2> QED
      BY <2>4, <2>5 DEF s
  <1> QED
    BY <1>1, <1>2, DrainStep, PTL DEF ServerSpec
=============================================================================
