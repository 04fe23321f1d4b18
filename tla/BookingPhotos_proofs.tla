------------------------ MODULE BookingPhotos_proofs ------------------------
(***************************************************************************)
(* Proofs about BookingPhotos, for every value of its constants: what is   *)
(* in the table of photos, and what runners were told of it.               *)
(***************************************************************************)
EXTENDS BookingPhotos, FiniteSetTheorems, TLAPS

(* Bookings have their type, so none that is there disappears.             *)
BookingsTyped == bookings \in [Bookings -> Booking \cup {NoBooking}]

Uploading == {w \in Workers : upload[w] # NoUpload}

Unreported == photos \ told

(* The inductive invariant: ids in use or about to be used are all         *)
(* different, and the photos nobody was told of can be counted.            *)
PhotosInv ==
    /\ BookingsTyped
    /\ PhotosTypeOK
    /\ ToldIfStored
    /\ IsFiniteSet(Unreported)
    /\ \A w \in Uploading : \A p \in photos : p.id # upload[w].id
    /\ \A v, w \in Uploading : upload[v].id = upload[w].id => v = w

LEMMA NewBookingType ==
    ASSUME NEW o \in Owners, NEW n \in Numbers, NEW s \in Specs, MayCreate(s)
    PROVE  NewBooking(o, n, s) \in Booking
  <1>1. Quote[s] \in Nat \ {0}
    BY AggregateAssumption DEF MayCreate
  <1> QED
    BY <1>1 DEF NewBooking, Booking, Status

LEMMA MethodTypes ==
    ASSUME NEW bk \in Booking
    PROVE  /\ \A r \in Runners : AfterAccept(bk, r) \in Booking
           /\ AfterStartDelivery(bk) \in Booking
           /\ AfterConfirmDelivery(bk) \in Booking
           /\ AfterComplete(bk, bk.estimatedPrice) \in Booking
           /\ AfterCancel(bk) \in Booking
           /\ AfterDecline(bk) \in Booking
  BY DEF Booking, Status, AfterAccept, AfterStartDelivery, AfterConfirmDelivery,
         AfterComplete, AfterCancel, AfterDecline

(* What a method leaves is a booking.                                      *)
LEMMA BecomesKeeps ==
    ASSUME BookingsTyped, NEW b \in Bookings, NEW new,
           Becomes(b, new), bookings[b] \in Booking => new \in Booking
    PROVE  BookingsTyped' /\ \A c \in Bookings : Exists(c) => Exists(c)'
  <1>1. bookings[b] \in Booking /\ new \in Booking
    BY DEF Becomes, Exists, BookingsTyped
  <1> QED
    BY <1>1, AggregateAssumption DEF Becomes, Exists, BookingsTyped

(* No step of the bookings removes one.                                    *)
LEMMA BookingsStay ==
    ASSUME BookingsTyped, Next
    PROVE  BookingsTyped' /\ \A c \in Bookings : Exists(c) => Exists(c)'
  <1>1. ASSUME NEW b \in Bookings, Create(b)
        PROVE  BookingsTyped' /\ \A c \in Bookings : Exists(c) => Exists(c)'
    <2>1. PICK o \in Owners, n \in Numbers, s \in Specs :
            /\ MayCreate(s)
            /\ bookings' = [bookings EXCEPT ![b] = NewBooking(o, n, s)]
      BY <1>1 DEF Create
    <2>2. NewBooking(o, n, s) \in Booking
      BY <2>1, NewBookingType
    <2> QED
      BY <2>1, <2>2, AggregateAssumption DEF Exists, BookingsTyped
  <1>2. ASSUME NEW b \in Bookings, NEW r \in Runners, Accept(b, r) \/ Decline(b, r)
        PROVE  BookingsTyped' /\ \A c \in Bookings : Exists(c) => Exists(c)'
    BY <1>2, BecomesKeeps, MethodTypes DEF Accept, Decline
  <1>3. ASSUME NEW b \in Bookings,
               StartDelivery(b) \/ ConfirmDelivery(b) \/ Complete(b) \/ Cancel(b)
        PROVE  BookingsTyped' /\ \A c \in Bookings : Exists(c) => Exists(c)'
    <2>1. \/ Becomes(b, AfterStartDelivery(bookings[b]))
          \/ Becomes(b, AfterConfirmDelivery(bookings[b]))
          \/ Becomes(b, AfterComplete(bookings[b], bookings[b].estimatedPrice))
          \/ Becomes(b, AfterCancel(bookings[b]))
      BY <1>3 DEF StartDelivery, ConfirmDelivery, Complete, Cancel
    <2> QED
      BY <2>1, BecomesKeeps, MethodTypes
  <1> QED
    BY <1>1, <1>2, <1>3 DEF Next
-----------------------------------------------------------------------------
LEMMA UploadType ==
    ASSUME PhotosTypeOK, NEW w \in Uploading
    PROVE  /\ upload[w] \in Photo /\ upload[w].booking \in Bookings
           /\ upload[w].id \in 1..MaxPhotos
  BY DEF PhotosTypeOK, Uploading, Photo

(* A new upload takes an id that is nobody's.                              *)
LEMMA UploadKeeps ==
    ASSUME PhotosInv, NEW w \in Workers, NEW b \in Bookings, NEW r \in Runners,
           UploadPhoto(w, b, r)
    PROVE  PhotosInv'
  <1>1. PICK type \in Kinds, url \in Urls \cup {NoUrl}, i \in 1..MaxPhotos :
          /\ MayUpload(type, url) /\ i \notin Ids
          /\ upload' = [upload EXCEPT ![w] = [id |-> i, booking |-> b,
                            runner |-> r, type |-> type, url |-> url]]
    BY DEF UploadPhoto
  <1> DEFINE p == [id |-> i, booking |-> b, runner |-> r, type |-> type, url |-> url]
  <1>2. /\ p \in Photo /\ p.id = i /\ p.type = type /\ p.url = url
        /\ p # NoUpload
    BY DEF Photo, NoUpload
  <1>3. upload \in [Workers -> Photo \cup {NoUpload}] /\ upload' = [upload EXCEPT ![w] = p]
    BY <1>1 DEF PhotosInv, PhotosTypeOK
  <1>4. /\ \A q \in photos : q.id # i
        /\ \A v \in Workers : upload[v].id # i
    BY <1>1 DEF Ids
  <1>5. /\ upload' \in [Workers -> Photo \cup {NoUpload}] /\ upload'[w] = p
        /\ \A v \in Workers : v # w => upload'[v] = upload[v]
    <2> HIDE DEF p
    <2> QED
      BY <1>2, <1>3
  <1>6. UNCHANGED <<bookings, declines, photos, told, faults>>
    BY DEF UploadPhoto, vars
  <1>7. BookingsTyped' /\ PhotosTypeOK' /\ ToldIfStored'
    <2> HIDE DEF p
    <2> QED
      BY <1>5, <1>6 DEF PhotosInv, BookingsTyped, PhotosTypeOK, ToldIfStored, Exists
  <1>8. \A v \in Uploading' : v = w \/ (v \in Uploading /\ upload'[v] = upload[v])
    <2> HIDE DEF p
    <2> QED
      BY <1>5 DEF Uploading
  <1>9. IsFiniteSet(Unreported)'
    BY <1>6 DEF PhotosInv, Unreported
  <1>10. \A v \in Uploading' : \A q \in photos' : q.id # upload'[v].id
    <2> HIDE DEF p
    <2> QED
      BY <1>2, <1>4, <1>5, <1>6, <1>8 DEF PhotosInv
  <1>11. \A u, v \in Uploading' : upload'[u].id = upload'[v].id => u = v
    <2> HIDE DEF p
    <2> QED
      BY <1>2, <1>4, <1>5, <1>8 DEF PhotosInv, Uploading
  <1> QED
    BY <1>7, <1>9, <1>10, <1>11 DEF PhotosInv

(* The end of an upload: its photo is stored or not, and told or not.      *)
LEMMA ReleaseKeeps ==
    ASSUME PhotosInv, NEW w \in Uploading, Release(w), UNCHANGED vars,
           photos' = photos \/ (Storable(upload[w]) /\ photos' = photos \cup {upload[w]}),
           told' = told \/ told' = told \cup {upload[w]},
           faults' \in 0..MaxFaults,
           ToldIfStored', IsFiniteSet(Unreported)'
    PROVE  PhotosInv'
  <1>1. /\ upload[w] \in Photo /\ upload[w].booking \in Bookings /\ w \in Workers
        /\ upload \in [Workers -> Photo \cup {NoUpload}]
    BY UploadType DEF PhotosInv, PhotosTypeOK, Uploading
  <1>2. /\ upload' \in [Workers -> Photo \cup {NoUpload}] /\ upload'[w] = NoUpload
        /\ \A v \in Workers : v # w => upload'[v] = upload[v]
    BY <1>1 DEF Release
  <1>3. \A v \in Uploading' : v \in Uploading /\ v # w /\ upload'[v] = upload[v]
    BY <1>2 DEF Uploading
  <1>4. /\ photos' \subseteq Photo /\ told' \subseteq Photo
        /\ \A p \in photos' : bookings[p.booking] # NoBooking
    BY <1>1 DEF PhotosInv, PhotosTypeOK, Storable, Exists
  <1>5. \A p, q \in photos' : p.id = q.id => p = q
    BY DEF PhotosInv, PhotosTypeOK
  <1>6. PhotosTypeOK' /\ BookingsTyped'
    BY <1>2, <1>4, <1>5 DEF PhotosTypeOK, PhotosInv, BookingsTyped, Exists, vars
  <1>7. \A v \in Uploading' : \A p \in photos' : p.id # upload'[v].id
    BY <1>3 DEF PhotosInv
  <1> QED
    BY <1>3, <1>6, <1>7 DEF PhotosInv

(* Photos nobody was told of become fewer, or one more.                    *)
LEMMA FewerUnreported ==
    ASSUME ToldIfStored, IsFiniteSet(Unreported), faults \in Nat, faults' = faults,
           Unreported' \subseteq Unreported, told' \subseteq photos'
    PROVE  ToldIfStored' /\ IsFiniteSet(Unreported)'
  <1>1. /\ IsFiniteSet(Unreported')
        /\ Cardinality(Unreported') <= Cardinality(Unreported)
        /\ Cardinality(Unreported') \in Nat /\ Cardinality(Unreported) \in Nat
    BY FS_Subset, FS_CardinalityType
  <1>2. Cardinality(Unreported) <= faults
    BY DEF ToldIfStored, Unreported
  <1>3. Cardinality(Unreported') <= faults'
    BY <1>1, <1>2
  <1> QED
    BY <1>1, <1>3 DEF ToldIfStored, Unreported

LEMMA OneMoreUnreported ==
    ASSUME ToldIfStored, IsFiniteSet(Unreported), faults \in Nat, faults' = faults + 1,
           NEW p, Unreported' \subseteq Unreported \cup {p}, told' \subseteq photos'
    PROVE  ToldIfStored' /\ IsFiniteSet(Unreported)'
  <1> DEFINE most == Unreported \cup {p}
  <1>1. /\ IsFiniteSet(most) /\ Cardinality(Unreported) \in Nat
        /\ Cardinality(most) <= Cardinality(Unreported) + 1
    <2>1. Cardinality(Unreported) \in Nat
      BY FS_CardinalityType
    <2>2. /\ IsFiniteSet(most)
          /\ Cardinality(most) = IF p \in Unreported THEN Cardinality(Unreported)
                                 ELSE Cardinality(Unreported) + 1
      BY FS_AddElement
    <2> HIDE DEF most
    <2> QED
      BY <2>1, <2>2
  <1>2. /\ IsFiniteSet(Unreported')
        /\ Cardinality(Unreported') <= Cardinality(most)
        /\ Cardinality(Unreported') \in Nat /\ Cardinality(most) \in Nat
    BY <1>1, FS_Subset, FS_CardinalityType
  <1>3. Cardinality(Unreported) <= faults
    BY DEF ToldIfStored, Unreported
  <1>4. Cardinality(Unreported') <= faults'
    <2> HIDE DEF most
    <2> QED
      BY <1>1, <1>2, <1>3
  <1> QED
    BY <1>2, <1>4 DEF ToldIfStored, Unreported

LEMMA PhotosStep == PhotosInv /\ [PhotosNext]_galleryVars => PhotosInv'
  <1> SUFFICES ASSUME PhotosInv, [PhotosNext]_galleryVars PROVE PhotosInv'
    OBVIOUS
  <1>0. /\ MaxFaults \in Nat /\ faults \in 0..MaxFaults /\ ToldIfStored
        /\ IsFiniteSet(Unreported)
    BY PhotosAssumption DEF PhotosInv, PhotosTypeOK
  <1>1. CASE BookingStep
    <2>1. /\ BookingsTyped' /\ UNCHANGED <<photos, upload, told, faults>>
          /\ \A b \in Bookings : bookings[b] # NoBooking => bookings'[b] # NoBooking
      BY <1>1, BookingsStay DEF BookingStep, PhotosInv, photoVars, Exists
    <2>2. \A p \in photos : p.booking \in Bookings
      BY DEF PhotosInv, PhotosTypeOK, Photo
    <2> QED
      BY <2>1, <2>2 DEF PhotosInv, PhotosTypeOK, ToldIfStored, Unreported, Uploading, Exists
  <1>2. ASSUME NEW w \in Workers, NEW b \in Bookings, NEW r \in Runners,
               UploadPhoto(w, b, r)
        PROVE  PhotosInv'
    BY <1>2, UploadKeeps
  <1>3. ASSUME NEW w \in Workers, SavePhoto(w) PROVE PhotosInv'
    <2>1. /\ photos' = photos \cup {upload[w]} /\ told' = told \cup {upload[w]}
          /\ faults' = faults
      BY <1>3 DEF SavePhoto
    <2>2. Unreported' \subseteq Unreported
      BY <2>1 DEF Unreported
    <2>3. told' \subseteq photos' /\ faults' <= MaxFaults
      BY <1>0, <2>1 DEF ToldIfStored
    <2>4. ToldIfStored' /\ IsFiniteSet(Unreported)'
      BY <1>0, <2>1, <2>2, <2>3, FewerUnreported
    <2> QED
      BY <1>0, <1>3, <2>1, <2>4, ReleaseKeeps DEF SavePhoto, Uploading
  <1>4. ASSUME NEW w \in Workers, SaveRejected(w) PROVE PhotosInv'
    BY <1>0, <1>4, ReleaseKeeps DEF SaveRejected, Uploading, ToldIfStored, Unreported
  <1>5. ASSUME NEW w \in Workers, SaveFails(w) PROVE PhotosInv'
    <2>1. /\ w \in Uploading /\ Release(w) /\ UNCHANGED vars /\ told' = told
          /\ photos' = photos \/ (Storable(upload[w]) /\ photos' = photos \cup {upload[w]})
          /\ faults' = faults + 1 /\ faults < MaxFaults
      BY <1>5 DEF SaveFails, Uploading
    <2>2. faults' \in 0..MaxFaults
      BY <1>0, <2>1
    <2>3. Unreported' \subseteq Unreported \cup {upload[w]} /\ told' \subseteq photos'
      BY <1>0, <2>1 DEF Unreported, ToldIfStored
    <2>4. ToldIfStored' /\ IsFiniteSet(Unreported)'
      BY <1>0, <2>1, <2>3, OneMoreUnreported
    <2> QED
      BY <2>1, <2>2, <2>4, ReleaseKeeps
  <1>6. CASE UNCHANGED galleryVars
    BY <1>6 DEF galleryVars, vars, photoVars, PhotosInv, BookingsTyped, PhotosTypeOK,
                ToldIfStored, Unreported, Uploading, Exists
  <1> QED
    BY <1>1, <1>2, <1>3, <1>4, <1>5, <1>6 DEF PhotosNext

(* The inductive invariant of the photos holds in every reachable state.   *)
THEOREM PhotosCorrect == PhotosSpec => []PhotosInv
  <1>1. PhotosInit => PhotosInv
    BY PhotosAssumption, FS_EmptySet DEF PhotosInit, Init, PhotosInv, BookingsTyped,
       PhotosTypeOK, ToldIfStored, Unreported, Uploading
  <1> QED
    BY <1>1, PhotosStep, PTL DEF PhotosSpec

(* Photos have ids of their own and bookings that are there.               *)
THEOREM PhotosTypeCorrect == PhotosSpec => []PhotosTypeOK
  <1>1. PhotosInv => PhotosTypeOK
    BY DEF PhotosInv
  <1> QED
    BY <1>1, PhotosCorrect, PTL

(* A runner is told of stored photos only, and of all of them but at most  *)
(* one for every failed call.                                              *)
THEOREM RunnersToldTruth == PhotosSpec => []ToldIfStored
  <1>1. PhotosInv => ToldIfStored
    BY DEF PhotosInv
  <1> QED
    BY <1>1, PhotosCorrect, PTL
=============================================================================
