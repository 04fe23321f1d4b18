--------------------------- MODULE BookingStatus ---------------------------
(***************************************************************************)
(* The booking status values and the table of allowed transitions of       *)
(* internal/domain/booking/booking_status.go.                              *)
(***************************************************************************)

Status == {"requested", "accepted", "in_progress",
           "delivered", "completed", "cancelled"}

\* Mutated form of validTransitions: every state may be cancelled.
AnyStateToCancelled ==
    { <<"requested", "accepted">>, <<"accepted", "requested">>,
      <<"accepted", "in_progress">>, <<"in_progress", "delivered">>,
      <<"delivered", "completed">> }
        \cup (Status \X {"cancelled"})

\* Mutated form of validTransitions: a requested booking may be picked up.
PickupBeforeAccept ==
    { <<"requested", "accepted">>, <<"requested", "in_progress">>,
      <<"requested", "cancelled">>, <<"accepted", "requested">>,
      <<"accepted", "in_progress">>, <<"accepted", "cancelled">>,
      <<"in_progress", "delivered">>, <<"in_progress", "cancelled">>,
      <<"delivered", "completed">> }

\* Mutated form of validTransitions: a completed booking completes again.
RepeatedCompletion ==
    { <<"requested", "accepted">>,     <<"requested", "cancelled">>,
      <<"accepted", "in_progress">>,   <<"accepted", "cancelled">>,
      <<"accepted", "requested">>,     <<"completed", "completed">>,
      <<"in_progress", "delivered">>,  <<"in_progress", "cancelled">>,
      <<"delivered", "completed">> }

(* The map from a status to its list of targets, as a set of pairs.        *)
validTransitions ==
    { <<"requested", "accepted">>,     <<"requested", "cancelled">>,
      <<"accepted", "in_progress">>,   <<"accepted", "cancelled">>,
      <<"accepted", "requested">>,
      <<"in_progress", "delivered">>,  <<"in_progress", "cancelled">>,
      <<"delivered", "completed">> }

CanTransitionTo(s, target) == <<s, target>> \in validTransitions

IsTerminal(s) == \A target \in Status : ~ CanTransitionTo(s, target)

CanBeCancelled(s) == CanTransitionTo(s, "cancelled")
=============================================================================
