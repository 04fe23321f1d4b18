-------------------------- MODULE BookingLifecycle --------------------------
(***************************************************************************)
(* What the service promises its clients: bookings that change one at a    *)
(* time, each change being one method of the aggregate applied to the      *)
(* booking as it stands, and a log with one entry for every decline.       *)
(* There are no concurrent requests, versions, events or failures here:    *)
(* BookingService is shown to implement this module.                       *)
(***************************************************************************)
EXTENDS BookingAggregate, Sequences

CONSTANT Bookings     \* booking identifiers

VARIABLES bookings,   \* the content of each booking, or NoBooking
          declines    \* the runners that declined each booking, in order

vars == <<bookings, declines>>

Exists(b) == bookings[b] # NoBooking

Becomes(b, new) ==
    /\ Exists(b)
    /\ bookings' = [bookings EXCEPT ![b] = new]

Init ==
    /\ bookings = [b \in Bookings |-> NoBooking]
    /\ declines = [b \in Bookings |-> <<>>]

(* A booking number is given to one booking only.                          *)
Create(b) ==
    /\ ~ Exists(b)
    /\ \E o \in Owners, n \in Numbers, s \in Specs :
         /\ MayCreate(s)
         /\ \A c \in Bookings : Exists(c) => bookings[c].number # n
         /\ bookings' = [bookings EXCEPT ![b] = NewBooking(o, n, s)]
    /\ UNCHANGED declines

Accept(b, r) ==
    /\ Becomes(b, AfterAccept(bookings[b], r))
    /\ MayAccept(bookings[b])
    /\ UNCHANGED declines

StartDelivery(b) ==
    /\ Becomes(b, AfterStartDelivery(bookings[b]))
    /\ MayStartDelivery(bookings[b])
    /\ UNCHANGED declines

ConfirmDelivery(b) ==
    /\ Becomes(b, AfterConfirmDelivery(bookings[b]))
    /\ MayConfirmDelivery(bookings[b])
    /\ UNCHANGED declines

Complete(b) ==
    /\ Becomes(b, AfterComplete(bookings[b], bookings[b].estimatedPrice))
    /\ MayComplete(bookings[b])
    /\ UNCHANGED declines

Cancel(b) ==
    /\ Becomes(b, AfterCancel(bookings[b]))
    /\ MayCancel(bookings[b])
    /\ UNCHANGED declines

Decline(b, r) ==
    /\ Becomes(b, AfterDecline(bookings[b]))
    /\ MayDecline(bookings[b], r)
    /\ declines' = [declines EXCEPT ![b] = Append(@, r)]

Next ==
    \E b \in Bookings :
        \/ Create(b)
        \/ \E r \in Runners : Accept(b, r) \/ Decline(b, r)
        \/ StartDelivery(b) \/ ConfirmDelivery(b)
        \/ Complete(b) \/ Cancel(b)

Spec == Init /\ [][Next]_vars
=============================================================================
