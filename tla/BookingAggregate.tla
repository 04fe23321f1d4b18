-------------------------- MODULE BookingAggregate --------------------------
(***************************************************************************)
(* The Booking aggregate of internal/domain/booking/booking.go: a record,  *)
(* its constructor, and for each method that changes it the condition      *)
(* under which it returns no error (May...) and the aggregate it leaves    *)
(* behind (After...).  The version column is kept beside the aggregate, in *)
(* the row (see BookingService).                                           *)
(*                                                                         *)
(* A timestamp is abstracted to whether it is set.  The fields no method   *)
(* changes after creation and no decision reads (pet, crate, addresses,    *)
(* schedule, notes) are one value, spec; Quote is the price the pricing    *)
(* strategy returns for it.                                                *)
(***************************************************************************)
EXTENDS Integers, BookingStatus

CONSTANTS Owners,     \* users with the owner role
          Runners,    \* users with the runner role
          Specs,      \* what can be asked for: pet, crate, addresses, notes
          Quote,      \* the estimated price of each spec, in cents
          Unscheduled,\* what is left of a spec when its schedule is dropped
          Numbers,    \* booking numbers generateBookingNumber may draw
          None,       \* a nil pointer: no runner, no final price
          NoBooking   \* the content of a row that does not exist

Booking ==
    [owner          : Owners,
     number         : Numbers,
     spec           : Specs,
     estimatedPrice : Nat \ {0},
     status         : Status,
     runner         : Runners \cup {None},
     pickedUpAt     : BOOLEAN,
     deliveredAt    : BOOLEAN,
     cancelledAt    : BOOLEAN,
     finalPrice     : Nat \cup {None}]

ASSUME AggregateAssumption ==
    /\ None \notin Runners
    /\ None \notin Nat
    /\ NoBooking \notin Booking
    /\ Quote \in [Specs -> Int]
    /\ Unscheduled \in [Specs -> Specs]
-----------------------------------------------------------------------------
\* Mutated form of MayCreate: the price is not validated.
MayCreateUnpriced(s) == s \in Specs

(* The validations of NewBooking that a request can fail: all of them but  *)
(* the price are abstracted to membership in Specs.                        *)
MayCreate(s) == s \in Specs /\ Quote[s] > 0

NewBooking(o, n, s) ==
    [owner |-> o, number |-> n, spec |-> s, estimatedPrice |-> Quote[s],
     status |-> "requested", runner |-> None, pickedUpAt |-> FALSE,
     deliveredAt |-> FALSE, cancelledAt |-> FALSE, finalPrice |-> None]

MayAccept(bk) == CanTransitionTo(bk.status, "accepted")
AfterAccept(bk, r) == [bk EXCEPT !.runner = r, !.status = "accepted"]

MayStartDelivery(bk) == CanTransitionTo(bk.status, "in_progress")
AfterStartDelivery(bk) ==
    [bk EXCEPT !.status = "in_progress", !.pickedUpAt = TRUE]

MayConfirmDelivery(bk) == CanTransitionTo(bk.status, "delivered")
AfterConfirmDelivery(bk) ==
    [bk EXCEPT !.status = "delivered", !.deliveredAt = TRUE]

MayComplete(bk) == CanTransitionTo(bk.status, "completed")
AfterComplete(bk, price) ==
    [bk EXCEPT !.status = "completed", !.finalPrice = price]

MayCancel(bk) == CanBeCancelled(bk.status)
AfterCancel(bk) == [bk EXCEPT !.status = "cancelled", !.cancelledAt = TRUE]

\* Mutated form of MayDecline: the caller need not be the assigned runner.
MayDeclineAnyones(bk, r) ==
    bk.runner # None /\ bk.status = "accepted" /\ r \in Runners

(* The two guards DeclineBooking adds in front of the method's own.        *)
MayDecline(bk, r) ==
    /\ bk.runner # None
    /\ bk.runner = r
    /\ bk.status = "accepted"
    /\ CanTransitionTo(bk.status, "requested")

\* Mutated form of AfterDecline: the runner is not cleared.
AfterDeclineKeepsRunner(bk) == [bk EXCEPT !.status = "requested"]

AfterDecline(bk) == [bk EXCEPT !.status = "requested", !.runner = None]
-----------------------------------------------------------------------------
Operations == {"accept", "pickup", "deliver", "complete", "cancel", "decline"}

(* new is what operation op, called for runner r, makes of bk.             *)
Change(op, r, bk, new) ==
    \/ op = "accept" /\ r \in Runners /\ MayAccept(bk) /\ new = AfterAccept(bk, r)
    \/ op = "pickup" /\ MayStartDelivery(bk) /\ new = AfterStartDelivery(bk)
    \/ op = "deliver" /\ MayConfirmDelivery(bk) /\ new = AfterConfirmDelivery(bk)
    \/ op = "complete" /\ MayComplete(bk)
                       /\ new = AfterComplete(bk, bk.estimatedPrice)
    \/ op = "cancel" /\ MayCancel(bk) /\ new = AfterCancel(bk)
    \/ op = "decline" /\ MayDecline(bk, r) /\ new = AfterDecline(bk)

(* Which optional fields each status goes with.                            *)
FieldsMatchStatus(bk) ==
    /\ bk.cancelledAt <=> bk.status = "cancelled"
    /\ bk.deliveredAt <=> bk.status \in {"delivered", "completed"}
    /\ bk.finalPrice =
         IF bk.status = "completed" THEN bk.estimatedPrice ELSE None
    /\ bk.pickedUpAt => bk.runner # None
    /\ bk.status # "cancelled" =>
         /\ bk.pickedUpAt <=> bk.status \in {"in_progress", "delivered", "completed"}
         /\ bk.runner # None <=> bk.status # "requested"

BoolToNat(p) == IF p THEN 1 ELSE 0

(* How many optional fields of bk are set.                                 *)
FieldsSet(bk) ==
    BoolToNat(bk.runner # None) + BoolToNat(bk.pickedUpAt)
      + BoolToNat(bk.deliveredAt) + BoolToNat(bk.cancelledAt)
      + BoolToNat(bk.finalPrice # None)
=============================================================================
