-------------------------- MODULE MCBookingQuotes --------------------------
(***************************************************************************)
(* Instances of BookingQuotes for TLC.                                     *)
(***************************************************************************)
EXTENDS BookingQuotes, TLC

(* Each size of crate and a weight of zero, both sides of a sen, half a    *)
(* great circle, a schedule, and a pet the pricing does not know.          *)
MCSpecs ==
    [petType : {"reptile"}, weight : {0, 5000, 5001, 15001, 30001},
     distance : {3}, scheduled : {FALSE}]
    \cup [petType : {"reptile"}, weight : {5000},
          distance : {4, NaN}, scheduled : {FALSE}]
    \cup [petType : {"reptile", UnknownPet}, weight : {5000},
          distance : {3}, scheduled : BOOLEAN]

MCQuote == [q \in Specs |-> QuoteOf(q)]
MCUnscheduled == [q \in Specs |-> [q EXCEPT !.scheduled = FALSE]]
MCAmd64 == -2000000000

MCSymmetry ==
    Permutations(Workers) \cup Permutations(Bookings)
      \cup Permutations(Numbers) \cup Permutations(Owners)
=============================================================================
