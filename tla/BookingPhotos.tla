--------------------------- MODULE BookingPhotos ---------------------------
(***************************************************************************)
(* Proof photos: runners upload them while bookings live.  The bookings    *)
(* are those of BookingLifecycle, which the booking service implements.    *)
(* UploadPhoto looks at neither the booking nor its runner: what it stores *)
(* is limited by NewBookingPhoto, by the CHECK constraints of the table    *)
(* and by the foreign key to the bookings.                                 *)
(***************************************************************************)
EXTENDS BookingLifecycle, FiniteSets

CONSTANTS Workers,     \* goroutines that serve uploads
          Kinds,       \* photo types a request may name
          Urls,        \* photo URLs a request may hold
          NoUrl,       \* the empty one
          MaxPhotos,   \* bound: rows of the table
          MaxFaults,   \* bound: failed calls
          MaxDeclines  \* bound: declines of a booking

ASSUME PhotosAssumption ==
    /\ NoUrl \notin Urls
    /\ MaxPhotos \in Nat /\ MaxFaults \in Nat /\ MaxDeclines \in Nat

VARIABLES photos,   \* the booking_photos table
          upload,   \* the photo each worker is about to store
          told,     \* the photos whose upload was answered with success
          faults    \* failed calls so far

photoVars == <<photos, upload, told, faults>>
galleryVars == <<vars, photoVars>>

PhotoTypes == {"pickup", "delivery"}

(* The id is the one NewBookingPhoto draws.                                *)
Photo == [id : 1..MaxPhotos, booking : Bookings, runner : Runners,
          type : Kinds, url : Urls \cup {NoUrl}]

NoUpload == [id |-> 0]

Ids == {p.id : p \in photos} \cup {upload[w].id : w \in Workers}

PhotosInit ==
    /\ Init
    /\ photos = {}
    /\ upload = [w \in Workers |-> NoUpload]
    /\ told = {}
    /\ faults = 0
-----------------------------------------------------------------------------
(* The binding and NewBookingPhoto: a known type and a URL.                *)
MayUpload(type, url) == type \in PhotoTypes /\ url # NoUrl

UploadPhoto(w, b, r) ==
    /\ upload[w] = NoUpload
    /\ \E type \in Kinds, url \in Urls \cup {NoUrl}, i \in 1..MaxPhotos :
         /\ MayUpload(type, url)
         /\ i \notin Ids
         /\ upload' = [upload EXCEPT ![w] = [id |-> i, booking |-> b,
                          runner |-> r, type |-> type, url |-> url]]
    /\ UNCHANGED <<vars, photos, told, faults>>

(* The constraints of migration 005.                                       *)
PassesChecks(p) == p.type \in {"pickup", "delivery"} /\ p.url # NoUrl

\* Mutated form of Storable: there is no foreign key.
StorableAnywhere(p) == PassesChecks(p)

Storable(p) == PassesChecks(p) /\ Exists(p.booking)

Release(w) == upload' = [upload EXCEPT ![w] = NoUpload]

SavePhoto(w) ==
    /\ upload[w] # NoUpload
    /\ Storable(upload[w])
    /\ photos' = photos \cup {upload[w]}
    /\ told' = told \cup {upload[w]}
    /\ Release(w)
    /\ UNCHANGED <<vars, faults>>

\* Mutated form of SaveRejected: the error of Save is not returned.
SaveIgnored(w) ==
    /\ upload[w] # NoUpload
    /\ ~ Storable(upload[w])
    /\ told' = told \cup {upload[w]}
    /\ Release(w)
    /\ UNCHANGED <<vars, photos, faults>>

(* There is no such booking: an error for the runner.                      *)
SaveRejected(w) ==
    /\ upload[w] # NoUpload
    /\ ~ Storable(upload[w])
    /\ Release(w)
    /\ UNCHANGED <<vars, photos, told, faults>>

(* The insert fails, or it succeeds and its answer is lost, or the process *)
(* stops before or after it.                                               *)
SaveFails(w) ==
    /\ upload[w] # NoUpload
    /\ faults < MaxFaults
    /\ faults' = faults + 1
    /\ photos' \in {photos} \cup
         (IF Storable(upload[w]) THEN {photos \cup {upload[w]}} ELSE {})
    /\ Release(w)
    /\ UNCHANGED <<vars, told>>

(* Any step of the bookings.                                               *)
BookingStep ==
    /\ Next
    /\ \A b \in Bookings : Len(declines'[b]) <= MaxDeclines
    /\ UNCHANGED photoVars

PhotosNext ==
    \/ BookingStep
    \/ \E w \in Workers :
         \/ \E b \in Bookings, r \in Runners : UploadPhoto(w, b, r)
         \/ SavePhoto(w) \/ SaveRejected(w) \/ SaveFails(w)

PhotosSpec == PhotosInit /\ [][PhotosNext]_galleryVars
-----------------------------------------------------------------------------
(* Every variable has its type, a photo has an id of its own, and it is of *)
(* a booking that is there, though no code looks for the booking.          *)
PhotosTypeOK ==
    /\ photos \subseteq Photo
    /\ \A p, q \in photos : p.id = q.id => p = q
    /\ \A p \in photos : Exists(p.booking)
    /\ upload \in [Workers -> Photo \cup {NoUpload}]
    /\ told \subseteq Photo
    /\ faults \in 0..MaxFaults

(* What a runner was told is stored is stored, and every stored photo that *)
(* he was not told of goes back to a failed call of its own: no proof is   *)
(* lost behind a success, and at most one per failure hides behind an      *)
(* error, for a runner who then sends it again.                            *)
ToldIfStored ==
    /\ told \subseteq photos
    /\ Cardinality(photos \ told) <= faults
=============================================================================
