------------------------ MODULE BookingQuotes_proofs ------------------------
(***************************************************************************)
(* Proofs about BookingQuotes, for any requests and any table of bookings: *)
(* what was priced once is never priced otherwise, whichever handlers race.*)
(***************************************************************************)
EXTENDS BookingQuotes, BookingService_proofs

(* Every stored booking still has the request it was created for, and its  *)
(* price is what the pricing makes of it.                                  *)
PricedAsAsked ==
    \A b \in Stored :
        /\ Asked(b) \in Specs
        /\ MayCreate(Asked(b))
        /\ Price(b) = Quote[Asked(b)]

(* No method of the aggregate touches the request or the price.            *)
LEMMA QuoteKept ==
    ASSUME NEW bk \in Booking, NEW new, NEW op, NEW r, Change(op, r, bk, new)
    PROVE  new.spec = bk.spec /\ new.estimatedPrice = bk.estimatedPrice
  BY DEF Change, Booking, AfterAccept, AfterStartDelivery, AfterConfirmDelivery,
         AfterComplete, AfterCancel, AfterDecline

LEMMA PricedStep == LockInv /\ PricedAsAsked /\ [Next]_vars => PricedAsAsked'
  <1> SUFFICES ASSUME LockInv, PricedAsAsked, [Next]_vars PROVE PricedAsAsked'
    OBVIOUS
  <1>0. rows \in [Bookings -> Row]
    BY DEF LockInv, TypeOK
  <1>1. CASE UNCHANGED <<rows, declines>>
    BY <1>1 DEF PricedAsAsked, Stored, Asked, Price, Present
  <1>2. ASSUME NEW q \in SaveRequest, Inserts(q) PROVE PricedAsAsked'
    <2>1. /\ rows' = [rows EXCEPT ![q.id] = [bk |-> q.bk, version |-> 1]]
          /\ q.id \in Bookings
      BY <1>2 DEF Inserts, Insert, SaveRequest
    <2>2. /\ rows'[q.id].bk = q.bk
          /\ \A c \in Bookings \ {q.id} : rows'[c] = rows[c]
      BY <1>0, <2>1
    <2>3. PICK o \in Owners, n \in Numbers, s \in Specs :
            MayCreate(s) /\ q.bk = NewBooking(o, n, s)
      BY <1>2 DEF Inserts, HeldCreationApplies
    <2>4. q.bk.spec = s /\ q.bk.estimatedPrice = Quote[s]
      BY <2>3 DEF NewBooking
    <2> QED
      BY <2>1, <2>2, <2>3, <2>4 DEF PricedAsAsked, Stored, Asked, Price, Present
  <1>3. ASSUME NEW q \in UpdateRequest, Updates(q) PROVE PricedAsAsked'
    <2>1. /\ q.id \in Bookings /\ rows'[q.id].bk = q.bk
          /\ \A c \in Bookings \ {q.id} : rows'[c] = rows[c]
      BY <1>3, UpdateEffect DEF LockInv
    <2>2. /\ Present(q.id)
          /\ q.bk.spec = rows[q.id].bk.spec
          /\ q.bk.estimatedPrice = rows[q.id].bk.estimatedPrice
      BY <1>3, <2>1, RowTypes, QuoteKept DEF Updates, LockInv
    <2> QED
      BY <2>1, <2>2 DEF PricedAsAsked, Stored, Asked, Price, Present
  <1> QED
    BY <1>1, <1>2, <1>3, TableSteps DEF TableStep

(* A booking keeps the request it was made for and the price computed of   *)
(* it, through every change and every race.                                *)
THEOREM PricesStayAsQuoted == Spec => []PricedAsAsked
  <1>1. Init => PricedAsAsked
    BY DEF Init, PricedAsAsked, Stored, Present
  <1> QED
    BY <1>1, PricedStep, LockCorrect, PTL DEF Spec
-----------------------------------------------------------------------------
(* What is charged besides the base fare and the distance.                 *)
Surcharges(q) ==
    petTypeSurcharge[q.petType] + crateSizeSurcharge[MinimumSize(q.weight)]

LEMMA SurchargeRange ==
    ASSUME NEW p \in PetTypes, NEW w \in Int
    PROVE  /\ petTypeSurcharge[p] \in Nat /\ petTypeSurcharge[p] <= 800
           /\ crateSizeSurcharge[MinimumSize(w)] \in Nat
           /\ crateSizeSurcharge[MinimumSize(w)] <= 2000
  <1>1. MinimumSize(w) \in CrateSizes
    BY DEF MinimumSize, CrateSizes
  <1>2. petTypeSurcharge[p] \in Nat /\ petTypeSurcharge[p] <= 800
    BY DEF petTypeSurcharge, PetTypes
  <1>3. \A c \in CrateSizes : crateSizeSurcharge[c] \in Nat /\ crateSizeSurcharge[c] <= 2000
    BY DEF crateSizeSurcharge, CrateSizes
  <1> QED
    BY <1>1, <1>2, <1>3

(* A request that was priced: how its price is put together.               *)
LEMMA QuoteParts ==
    ASSUME NEW q \in Request, QuoteOf(q) > 0
    PROVE  /\ q.petType \in PetTypes /\ q.weight \in Int /\ q.weight > 0
           /\ Surcharges(q) \in Nat /\ Surcharges(q) <= 2800
           /\ DistanceCharge(q.distance) \in Int
           /\ QuoteOf(q) = BaseFare + DistanceCharge(q.distance) + Surcharges(q)
  <1>1. q.petType \in PetTypes /\ q.weight \in Int /\ q.weight > 0
        /\ q.distance \in Nat \cup {NaN}
    BY DEF QuoteOf, Request
  <1>2. DistanceCharge(q.distance) \in Int
    BY <1>1, PricingAssumption DEF DistanceCharge
  <1>3. /\ petTypeSurcharge[q.petType] \in Nat /\ petTypeSurcharge[q.petType] <= 800
        /\ crateSizeSurcharge[MinimumSize(q.weight)] \in Nat
        /\ crateSizeSurcharge[MinimumSize(q.weight)] <= 2000
    BY <1>1, SurchargeRange
  <1>4. QuoteOf(q) = BaseFare + DistanceCharge(q.distance) + petTypeSurcharge[q.petType]
                       + crateSizeSurcharge[MinimumSize(q.weight)]
    BY <1>1 DEF QuoteOf, Calculate, DetermineCrateRequirement
  <1> QED
    BY <1>1, <1>2, <1>3, <1>4 DEF Surcharges, BaseFare

(* A heavier pet is not charged less for its crate, across the sizes.      *)
LEMMA CrateChargeMonotonic ==
    ASSUME NEW v \in Int, NEW w \in Int, v <= w
    PROVE  crateSizeSurcharge[MinimumSize(v)] <= crateSizeSurcharge[MinimumSize(w)]
  <1>1. crateSizeSurcharge["small"] = 0 /\ crateSizeSurcharge["medium"] = 500
        /\ crateSizeSurcharge["large"] = 1000 /\ crateSizeSurcharge["xlarge"] = 2000
    BY DEF crateSizeSurcharge, CrateSizes
  <1> QED
    BY <1>1 DEF MinimumSize

(* Where int64(NaN) is below what the surcharges could make up for, as on  *)
(* amd64, a request without a distance gets no positive price.             *)
NaNRefused == NaNCents < -3300

LEMMA NoNaNStored ==
    ASSUME NaNRefused, NEW q \in Request, QuoteOf(q) > 0
    PROVE  /\ q.distance \in Nat /\ DistanceCharge(q.distance) = q.distance \div 4
           /\ Metres(q.distance) = q.distance
  <1>1. q.distance \in Nat \cup {NaN}
    BY DEF Request
  <1>2. q.distance # NaN
    <2>1. /\ Surcharges(q) \in Nat /\ Surcharges(q) <= 2800
          /\ 500 + DistanceCharge(q.distance) + Surcharges(q) > 0
          /\ DistanceCharge(q.distance) \in Int
      BY QuoteParts DEF BaseFare
    <2>2. DistanceCharge(q.distance) # NaNCents
      BY <2>1, PricingAssumption DEF NaNRefused
    <2> QED
      BY <2>2 DEF DistanceCharge
  <1> QED
    BY <1>1, <1>2 DEF DistanceCharge, Metres

(* What PricedAsAsked says of a stored booking, in terms of Pricing.       *)
LEMMA StoredQuotes ==
    ASSUME PricedAsAsked, NEW b \in Stored
    PROVE  /\ Asked(b) \in Request /\ QuoteOf(Asked(b)) > 0
           /\ Price(b) = QuoteOf(Asked(b))
  <1>1. Asked(b) \in Specs /\ Quote[Asked(b)] > 0 /\ Price(b) = Quote[Asked(b)]
    BY DEF PricedAsAsked, MayCreate
  <1>2. Asked(b) \in Request /\ Quote[Asked(b)] = QuoteOf(Asked(b))
    BY <1>1, QuoteAssumption
  <1> QED
    BY <1>1, <1>2

(* Every stored booking has a known pet of positive weight and a crate     *)
(* with room for more than it.                                             *)
THEOREM RequestsStaySound == Spec => []RequestsSound
  <1>1. ASSUME PricedAsAsked, NEW b \in Stored
        PROVE  /\ Asked(b).petType \in PetTypes
               /\ DetermineCrateRequirement(Asked(b)).minimumWeightCapacity
                    > 5 * Asked(b).weight
    BY <1>1, StoredQuotes, QuoteParts DEF DetermineCrateRequirement
  <1>2. PricedAsAsked => RequestsSound
    BY <1>1 DEF RequestsSound
  <1> QED
    BY <1>2, PricesStayAsQuoted, PTL

(* No heavier or farther transport of the same pet type is cheaper, where  *)
(* NaN is refused.                                                         *)
THEOREM PricesStayMonotonic ==
    ASSUME NaNRefused
    PROVE  Spec => []PricesMonotonic
  <1>1. ASSUME PricedAsAsked, NEW b \in Stored, NEW c \in Stored,
               Asked(b).petType = Asked(c).petType,
               Asked(b).weight <= Asked(c).weight,
               Metres(Asked(b).distance) <= Metres(Asked(c).distance)
        PROVE  Price(b) <= Price(c)
    <2> DEFINE p == Asked(b)
               q == Asked(c)
    <2>1. /\ p \in Request /\ QuoteOf(p) > 0 /\ Price(b) = QuoteOf(p)
          /\ q \in Request /\ QuoteOf(q) > 0 /\ Price(c) = QuoteOf(q)
      BY <1>1, StoredQuotes
    <2> HIDE DEF p, q
    <2>2. p.petType = q.petType /\ p.weight <= q.weight
          /\ Metres(p.distance) <= Metres(q.distance)
      BY <1>1 DEF p, q
    <2>3. /\ DistanceCharge(p.distance) = p.distance \div 4 /\ p.distance \in Nat
          /\ DistanceCharge(q.distance) = q.distance \div 4 /\ q.distance \in Nat
          /\ p.distance <= q.distance
      BY <2>1, <2>2, NoNaNStored
    <2>4. p.distance \div 4 <= q.distance \div 4
      BY <2>3
    <2>5. /\ p.petType \in PetTypes /\ p.weight \in Int /\ q.weight \in Int
          /\ QuoteOf(p) = BaseFare + DistanceCharge(p.distance) + Surcharges(p)
          /\ Surcharges(p) \in Nat /\ Surcharges(q) \in Nat
      BY <2>1, QuoteParts
    <2>6. QuoteOf(q) = BaseFare + DistanceCharge(q.distance) + Surcharges(q)
      BY <2>1, QuoteParts
    <2>7. Surcharges(p) <= Surcharges(q)
      BY <2>2, <2>5, SurchargeRange, CrateChargeMonotonic DEF Surcharges
    <2>8. QuoteOf(p) <= QuoteOf(q)
      BY <2>3, <2>4, <2>5, <2>6, <2>7 DEF BaseFare
    <2> QED
      BY <2>1, <2>8
  <1>2. PricedAsAsked => PricesMonotonic
    BY <1>1 DEF PricesMonotonic
  <1> QED
    BY <1>2, PricesStayAsQuoted, PTL

(* The base fare and the distance are paid for, where NaN is refused.      *)
THEOREM DistanceStaysPaid ==
    ASSUME NaNRefused
    PROVE  Spec => []DistancePaid
  <1>1. ASSUME PricedAsAsked, NEW b \in Stored
        PROVE  Price(b) >= BaseFare + Metres(Asked(b).distance) \div 4
    <2> DEFINE q == Asked(b)
    <2>1. q \in Request /\ QuoteOf(q) > 0 /\ Price(b) = QuoteOf(q)
      BY <1>1, StoredQuotes
    <2> HIDE DEF q
    <2>2. /\ QuoteOf(q) = BaseFare + DistanceCharge(q.distance) + Surcharges(q)
          /\ Surcharges(q) \in Nat
      BY <2>1, QuoteParts
    <2>3. /\ DistanceCharge(q.distance) = q.distance \div 4 /\ q.distance \in Nat
          /\ Metres(q.distance) = q.distance
      BY <2>1, NoNaNStored
    <2>4. QuoteOf(q) >= BaseFare + Metres(q.distance) \div 4
      BY <2>2, <2>3 DEF BaseFare
    <2> QED
      BY <2>1, <2>4 DEF q
  <1>2. PricedAsAsked => DistancePaid
    BY <1>1 DEF DistancePaid
  <1> QED
    BY <1>2, PricesStayAsQuoted, PTL
=============================================================================
