------------------------------ MODULE Pricing ------------------------------
(***************************************************************************)
(* What a transport costs: DetermineCrateRequirement (pet_specification.go)*)
(* and StandardPricingStrategy.Calculate (pricing.go), as CreateBooking    *)
(* puts them together.                                                     *)
(*                                                                         *)
(* Weights are whole grams, distances whole metres, prices sen.  At MYR    *)
(* 2.50 a kilometre a sen buys four metres, and the conversion to int64    *)
(* drops the rest.  haversineDistance never returns a negative number, but *)
(* rounding makes it NaN for some points on opposite sides of the globe,   *)
(* and int64 of NaN is whatever the processor makes of it.                 *)
(***************************************************************************)
EXTENDS Integers

CONSTANTS NaN,     \* the distance that is not a number
          NaNCents \* int64(NaN): the least int64 on amd64, 0 on arm64

ASSUME PricingAssumption == NaN \notin Int /\ NaNCents \in Int

PetTypes == {"cat", "dog", "bird", "rabbit", "reptile", "other"}
UnknownPet == "unknown"

Request == [petType   : PetTypes \cup {UnknownPet},
            weight    : Int,
            distance  : Nat \cup {NaN},
            scheduled : BOOLEAN]
-----------------------------------------------------------------------------
(* The crate.  The capacity, weight * 1.2, is in fifths of a gram.         *)
MinimumSize(w) ==
    CASE w <= 5000                -> "small"
      [] w > 5000 /\ w <= 15000   -> "medium"
      [] w > 15000 /\ w <= 30000  -> "large"
      [] w > 30000                -> "xlarge"

DetermineCrateRequirement(q) ==
    [minimumSize |-> MinimumSize(q.weight),
     needsTempControl |-> q.petType = "reptile",
     minimumWeightCapacity |-> 6 * q.weight]
-----------------------------------------------------------------------------
petTypeSurcharge ==
    [p \in PetTypes |-> CASE p \in {"dog", "other"}  -> 500
                          [] p \in {"cat", "rabbit"} -> 300
                          [] p = "bird"              -> 200
                          [] p = "reptile"           -> 800]

CrateSizes == {"small", "medium", "large", "xlarge"}

\* Mutated form of crateSizeSurcharge: two sizes swapped.
crateSizeSurchargeSwapped ==
    [c \in CrateSizes |-> CASE c = "small"  -> 0
                            [] c = "medium" -> 1000
                            [] c = "large"  -> 500
                            [] c = "xlarge" -> 2000]

crateSizeSurcharge ==
    [c \in CrateSizes |-> CASE c = "small"  -> 0
                            [] c = "medium" -> 500
                            [] c = "large"  -> 1000
                            [] c = "xlarge" -> 2000]

BaseFare == 500

\* Mutated form of DistanceCharge: what is not a number costs nothing.
DistanceChargeNaNFree(d) == IF d = NaN THEN 0 ELSE d \div 4

DistanceCharge(d) == IF d = NaN THEN NaNCents ELSE d \div 4

(* IsScheduled is passed to Calculate and not used.                        *)
Calculate(q) ==
    BaseFare + DistanceCharge(q.distance) + petTypeSurcharge[q.petType]
      + crateSizeSurcharge[DetermineCrateRequirement(q).minimumSize]

\* Mutated form of QuoteOf: the weight is not validated.
QuoteWeightless(q) == IF q.petType \in PetTypes THEN Calculate(q) ELSE 0

(* The price CreateBooking hands to NewBooking; 0, which NewBooking never  *)
(* stores, for the pet Calculate does not know and for the weight          *)
(* NewBooking itself rejects.                                              *)
QuoteOf(q) ==
    IF q.petType \in PetTypes /\ q.weight > 0 THEN Calculate(q) ELSE 0
=============================================================================
