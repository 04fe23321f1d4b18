------------------------ MODULE PetService_proofs ------------------------
(***************************************************************************)
(* Theorems about PetService, for any sets of pets, workers, owners,       *)
(* fields and values, and any bounds.                                      *)
(***************************************************************************)
EXTENDS PetService, TLAPS

(* What a method makes of a profile is a profile, and what is stored of a  *)
(* profile fits the columns.                                               *)
LEMMA ProfileTypes ==
    /\ \A f, change \in Profile : Merge(f, change) \in Profile
    /\ \A f \in Profile : AsStored(f) \in Columns /\ AsStored(f) \in Profile
    /\ \A f \in Columns : f \in Profile /\ AsStored(f) = f
  <1>1. ASSUME NEW f \in Profile, NEW change \in Profile
        PROVE  Merge(f, change) \in Profile
    BY ProfileAssumption DEF Merge, Profile
  <1>2. ASSUME NEW f \in Profile
        PROVE  AsStored(f) \in Columns /\ AsStored(f) \in Profile
    <2>1. \A x \in Fields : f[x] \in Domain[x] /\ Domain[x] \subseteq Values
      BY ProfileAssumption DEF Profile
    <2>2. AsStored(f) \in Profile
      BY <2>1, ProfileAssumption DEF Profile, AsStored
    <2>3. \A x \in Fields : Stored[AsStored(f)[x]] = AsStored(f)[x]
      BY <2>1, ProfileAssumption DEF AsStored
    <2> QED
      BY <2>2, <2>3 DEF Columns
  <1>3. ASSUME NEW f \in Columns PROVE f \in Profile /\ AsStored(f) = f
    BY DEF Columns, Profile, AsStored
  <1> QED
    BY <1>1, <1>2, <1>3

(* A statement that skips the zero values of a copy stores the copy, if    *)
(* the copy is zero only where the row is.                                 *)
LEMMA OverwriteStores ==
    ASSUME NEW old \in StoredPet, NEW new \in Pet,
           \A x \in Fields : new.fields[x] = Blank => old.fields[x] = Blank
    PROVE  Overwrite(old, new) = [new EXCEPT !.fields = AsStored(@)]
  <1>1. [x \in Fields |-> IF new.fields[x] = Blank THEN old.fields[x]
                          ELSE Stored[new.fields[x]]]
          = AsStored(new.fields)
    BY ProfileAssumption DEF AsStored
  <1> QED
    BY <1>1 DEF Overwrite, Pet

(* What the methods make of a stored profile.                              *)
LEMMA MethodEffect ==
    ASSUME NEW old \in StoredPet, NEW q \in UpdateRequest, q.pet = MethodOn(old, q)
    PROVE  /\ q.pet \in Pet
           /\ q.pet.owner = old.owner
           /\ \A x \in Fields : q.pet.fields[x] = Blank => old.fields[x] = Blank
           /\ q.op = "archive" =>
                q.pet.status = "archived" /\ q.pet.fields = old.fields
           /\ q.op = "update" =>
                q.pet.status = old.status /\ q.pet.fields = Merge(old.fields, q.change)
  <1>1. /\ old.fields \in Profile /\ old.owner \in PetOwners
        /\ old.status \in PetStatus /\ old.fields \in Columns
        /\ q.change \in Profile /\ q.op \in {"update", "archive"}
    BY ProfileTypes DEF StoredPet, UpdateRequest
  <1>2. old = [owner |-> old.owner, fields |-> old.fields, status |-> old.status]
    BY DEF StoredPet
  <1>3. CASE q.op = "archive"
    <2>1. q.pet = [old EXCEPT !.status = "archived"]
      BY <1>3 DEF MethodOn, AfterArchive
    <2> QED
      BY <1>1, <1>2, <1>3, <2>1 DEF Pet, PetStatus
  <1>4. CASE q.op = "update"
    <2>1. q.pet = [old EXCEPT !.fields = Merge(old.fields, q.change)]
      BY <1>4 DEF MethodOn, AfterUpdate
    <2>2. /\ q.pet.fields = Merge(old.fields, q.change)
          /\ q.pet.owner = old.owner /\ q.pet.status = old.status
      BY <1>2, <2>1
    <2>3. \A x \in Fields :
            Merge(old.fields, q.change)[x] = Blank => old.fields[x] = Blank
      BY ProfileAssumption DEF Merge
    <2>4. q.pet \in Pet
      BY DEF UpdateRequest
    <2> QED
      BY <1>4, <2>2, <2>3, <2>4
  <1> QED
    BY <1>1, <1>3, <1>4
-----------------------------------------------------------------------------
(* The invariant, by parts: what it says of the table and of each worker.  *)
TableOK ==
    /\ table \in [Pets -> Row]
    /\ \A p \in Pets : Present(p) <=> table[p].pet # NoPet
    /\ \A p \in Pets : Present(p) =>
         \A x \in Required : table[p].pet.fields[x] # Blank

WorkerOK(w) ==
    /\ HeldApplies(w)
    /\ request[w].stage = "answer" => AnswerStored(request[w])

PetInv == PetTypeOK /\ HeldPetsApply /\ AnswersStored

LEMMA PetInvParts ==
    PetInv <=> /\ TableOK
               /\ request \in [PetWorkers -> AnyRequest]
               /\ faults \in 0..MaxPetFaults
               /\ \A w \in PetWorkers : WorkerOK(w)
  BY DEF PetInv, PetTypeOK, TableOK, WorkerOK, HeldPetsApply, AnswersStored

LEMMA PetInvPartsNext ==
    ASSUME TableOK', request' \in [PetWorkers -> AnyRequest],
           faults' \in 0..MaxPetFaults, \A w \in PetWorkers : WorkerOK(w)'
    PROVE  PetInv'
  BY DEF PetInv, PetTypeOK, TableOK, WorkerOK, HeldPetsApply, AnswersStored

LEMMA StageTypes ==
    ASSUME NEW q \in AnyRequest
    PROVE  /\ q.stage = "save" => q \in SaveRequest
           /\ q.stage = "update" => q \in UpdateRequest
           /\ q.stage = "answer" => q \in AnswerRequest
  BY DEF AnyRequest, Idle, SaveRequest, UpdateRequest, AnswerRequest

LEMMA RowTypes ==
    ASSUME TableOK, NEW p \in Pets
    PROVE  /\ table[p].version \in Nat
           /\ Present(p) => table[p].pet \in StoredPet
           /\ ~ Present(p) => table[p].version = 0 /\ table[p].pet = NoPet
           /\ table[p] = [pet |-> table[p].pet, version |-> table[p].version]
  BY DEF TableOK, Row, Present

(* Row p moves on to a later version and a content that is well formed.    *)
MovesOn(p, pet, n) ==
    /\ n \in Nat /\ n > table[p].version
    /\ table' = [table EXCEPT ![p] = [pet |-> pet, version |-> n]]

LEMMA MovesOnTable ==
    ASSUME TableOK, NEW p \in Pets, NEW pet \in StoredPet, NEW n, MovesOn(p, pet, n),
           \A x \in Required : pet.fields[x] # Blank
    PROVE  /\ TableOK'
           /\ table'[p] = [pet |-> pet, version |-> n]
           /\ \A c \in Pets \ {p} : table'[c] = table[c]
  <1>1. table \in [Pets -> Row] /\ table[p].version \in Nat
    BY RowTypes DEF TableOK
  <1>2. /\ table'[p] = [pet |-> pet, version |-> n] /\ n \in Nat /\ n > 0
        /\ \A c \in Pets \ {p} : table'[c] = table[c]
    BY <1>1 DEF MovesOn
  <1>3. pet # NoPet
    <2>1. pet \in Pet
      BY ProfileTypes DEF StoredPet, Pet
    <2> QED
      BY <2>1, ProfileAssumption
  <1>4. table' \in [Pets -> Row]
    BY <1>1, <1>2 DEF MovesOn, Row
  <1> QED
    BY <1>2, <1>3, <1>4 DEF TableOK, Present

(* Whatever a worker holds stays as good when a row moves on.              *)
LEMMA MovesOnWorker ==
    ASSUME TableOK, NEW p \in Pets, NEW pet, NEW n, MovesOn(p, pet, n),
           NEW w \in PetWorkers, request[w] \in AnyRequest, WorkerOK(w),
           request'[w] = request[w]
    PROVE  WorkerOK(w)'
  <1>0. /\ table[p].version \in Nat /\ n \in Nat /\ n > table[p].version
        /\ table'[p].version = n
        /\ \A c \in Pets \ {p} : table'[c] = table[c]
    BY RowTypes DEF TableOK, MovesOn
  <1>1. CASE request[w].stage = "update"
    <2>1. request[w].id \in Pets /\ request[w].version \in Nat
      BY <1>1, StageTypes DEF UpdateRequest
    <2>2. HeldUpdateApplies(request[w])
      BY <1>1 DEF WorkerOK, HeldApplies
    <2>3. HeldUpdateApplies(request[w])'
      <3>1. CASE request[w].id = p
        BY <1>0, <2>1, <2>2, <3>1 DEF HeldUpdateApplies, Matches
      <3>2. CASE request[w].id # p
        BY <1>0, <2>1, <2>2, <3>2 DEF HeldUpdateApplies, Matches
      <3> QED
        BY <3>1, <3>2
    <2> QED
      BY <1>1, <2>3 DEF WorkerOK, HeldApplies
  <1>2. CASE request[w].stage = "answer"
    <2>1. request[w].id \in Pets /\ request[w].version \in Nat
      BY <1>2, StageTypes DEF AnswerRequest
    <2>2. AnswerStored(request[w])
      BY <1>2 DEF WorkerOK
    <2>3. AnswerStored(request[w])'
      <3>1. CASE request[w].id = p
        BY <1>0, <2>1, <2>2, <3>1 DEF AnswerStored
      <3>2. CASE request[w].id # p
        BY <1>0, <2>1, <2>2, <3>2 DEF AnswerStored
      <3> QED
        BY <3>1, <3>2
    <2> QED
      BY <1>2, <2>3 DEF WorkerOK, HeldApplies
  <1>3. CASE request[w].stage \notin {"update", "answer"}
    BY <1>3 DEF WorkerOK, HeldApplies, HeldCreationApplies
  <1> QED
    BY <1>1, <1>2, <1>3

LEMMA SameTableWorker ==
    ASSUME NEW w \in PetWorkers, WorkerOK(w), request'[w] = request[w], table' = table
    PROVE  WorkerOK(w)'
  BY DEF WorkerOK, HeldApplies, HeldCreationApplies, HeldUpdateApplies, Matches,
         AnswerStored

(* A worker that takes up q, or drops what it had, beside workers that     *)
(* keep theirs.                                                            *)
LEMMA HoldType ==
    ASSUME request \in [PetWorkers -> AnyRequest], NEW w \in PetWorkers,
           NEW q \in AnyRequest, Hold(w, q)
    PROVE  /\ request' \in [PetWorkers -> AnyRequest]
           /\ request'[w] = q
           /\ \A v \in PetWorkers \ {w} : request'[v] = request[v]
  BY DEF Hold

LEMMA IdleOK ==
    /\ Idle \in AnyRequest
    /\ \A w \in PetWorkers : request[w] = Idle => WorkerOK(w)
  BY DEF AnyRequest, Idle, WorkerOK, HeldApplies

(* Worker w takes up a request that is good, and no row changes.           *)
LEMMA HoldKeeps ==
    ASSUME PetInv, NEW w \in PetWorkers, NEW q \in AnyRequest, Hold(w, q),
           table' = table, faults' \in 0..MaxPetFaults, WorkerOK(w)'
    PROVE  PetInv'
  <1>1. TableOK'
    BY PetInvParts DEF TableOK, Present
  <1>2. request' \in [PetWorkers -> AnyRequest]
    BY PetInvParts, HoldType
  <1>3. ASSUME NEW v \in PetWorkers PROVE WorkerOK(v)'
    <2>1. CASE v # w
      <3>1. request'[v] = request[v] /\ WorkerOK(v)
        BY <2>1, PetInvParts, HoldType
      <3> QED
        BY <3>1, SameTableWorker
    <2> QED
      BY <2>1
  <1> QED
    BY <1>1, <1>2, <1>3, PetInvPartsNext

(* A row moves on and the worker that did it takes up a request.           *)
LEMMA MoveKeeps ==
    ASSUME PetInv, NEW p \in Pets, NEW pet \in StoredPet, NEW n, MovesOn(p, pet, n),
           \A x \in Required : pet.fields[x] # Blank,
           NEW w \in PetWorkers, NEW q \in AnyRequest, Hold(w, q),
           faults' \in 0..MaxPetFaults, WorkerOK(w)'
    PROVE  PetInv'
  <1>1. TableOK'
    BY PetInvParts, MovesOnTable
  <1>2. request' \in [PetWorkers -> AnyRequest]
    BY PetInvParts, HoldType
  <1>3. ASSUME NEW v \in PetWorkers PROVE WorkerOK(v)'
    <2>1. CASE v # w
      <3>1. request'[v] = request[v] /\ WorkerOK(v) /\ request[v] \in AnyRequest
        BY <2>1, PetInvParts, HoldType
      <3> QED
        BY <3>1, PetInvParts, MovesOnWorker
    <2> QED
      BY <2>1
  <1> QED
    BY <1>1, <1>2, <1>3, PetInvPartsNext
-----------------------------------------------------------------------------
(* What an insertion does to the table.                                    *)
InsertedPet(q) == [q.pet EXCEPT !.fields = AsStored(@)]

LEMMA StoredPetType ==
    ASSUME NEW pet \in Pet
    PROVE  /\ [pet EXCEPT !.fields = AsStored(@)] \in StoredPet
           /\ [pet EXCEPT !.fields = AsStored(@)].fields = AsStored(pet.fields)
           /\ [pet EXCEPT !.fields = AsStored(@)].status = pet.status
           /\ [pet EXCEPT !.fields = AsStored(@)].owner = pet.owner
  <1>1. pet.fields \in Profile /\ AsStored(pet.fields) \in Columns
    BY ProfileTypes DEF Pet
  <1> QED
    BY <1>1 DEF Pet, StoredPet

(* The required fields are stored as they are.                             *)
LEMMA RequiredStored ==
    ASSUME NEW f \in Profile, NEW x \in Required, f[x] # Blank
    PROVE  AsStored(f)[x] # Blank
  <1>1. x \in Fields /\ f[x] \in Domain[x]
    BY ProfileAssumption DEF Profile
  <1> QED
    BY <1>1, ProfileAssumption DEF AsStored

LEMMA InsertMoves ==
    ASSUME PetInv, NEW w \in PetWorkers, request[w].stage = "save",
           ~ Present(request[w].id), Insert(request[w])
    PROVE  /\ request[w].id \in Pets
           /\ request[w].pet \in Pet
           /\ InsertedPet(request[w]) \in StoredPet
           /\ MovesOn(request[w].id, InsertedPet(request[w]), 1)
           /\ \A x \in Required : InsertedPet(request[w]).fields[x] # Blank
           /\ HeldCreationApplies(request[w])
  <1> DEFINE q == request[w]
  <1>1. q \in SaveRequest /\ HeldCreationApplies(q) /\ TableOK
    BY PetInvParts, StageTypes DEF WorkerOK, HeldApplies
  <1>2. q.id \in Pets /\ q.pet \in Pet
    BY <1>1 DEF SaveRequest
  <1>3. /\ InsertedPet(q) \in StoredPet
        /\ InsertedPet(q).fields = AsStored(q.pet.fields)
    BY <1>2, StoredPetType DEF InsertedPet
  <1>4. q.pet.fields \in Profile /\ \A x \in Required : q.pet.fields[x] # Blank
    BY <1>1 DEF HeldCreationApplies, MayCreatePet, NewPet
  <1>5. \A x \in Required : InsertedPet(q).fields[x] # Blank
    BY <1>3, <1>4, RequiredStored
  <1>6. table[q.id].version = 0
    BY <1>1, <1>2, RowTypes
  <1>7. MovesOn(q.id, InsertedPet(q), 1)
    BY <1>6 DEF MovesOn, Insert, InsertedPet
  <1> QED
    BY <1>1, <1>2, <1>3, <1>5, <1>7

(* What an update under a matching version does to the table.              *)
LEMMA WriteMoves ==
    ASSUME PetInv, NEW w \in PetWorkers, request[w].stage = "update",
           Write(request[w])
    PROVE  /\ request[w] \in UpdateRequest
           /\ request[w].id \in Pets
           /\ Present(request[w].id)
           /\ table[request[w].id].pet \in StoredPet
           /\ request[w].pet = MethodOn(table[request[w].id].pet, request[w])
           /\ InsertedPet(request[w]) \in StoredPet
           /\ MovesOn(request[w].id, InsertedPet(request[w]), request[w].version)
           /\ \A x \in Required : InsertedPet(request[w]).fields[x] # Blank
  <1> DEFINE q == request[w]
             old == table[q.id].pet
  <1>1. q \in UpdateRequest /\ HeldUpdateApplies(q) /\ TableOK
    BY PetInvParts, StageTypes DEF WorkerOK, HeldApplies
  <1>2. q.id \in Pets /\ q.pet \in Pet /\ q.version \in Nat \ {0, 1}
    BY <1>1 DEF UpdateRequest
  <1>3. table[q.id].version = q.version - 1 /\ table[q.id].version \in Nat
    BY <1>1, <1>2, RowTypes DEF Write, Matches
  <1>4. Present(q.id)
    <2>1. table[q.id].version > 0
      <3> HIDE DEF q
      <3> QED
        BY <1>2, <1>3
    <2> QED
      BY <2>1 DEF Present
  <1>5. old \in StoredPet /\ \A x \in Required : old.fields[x] # Blank
    BY <1>1, <1>2, <1>4, RowTypes DEF TableOK
  <1>6. q.pet = MethodOn(old, q)
    BY <1>1 DEF HeldUpdateApplies, Write
  <1>7. \A x \in Fields : q.pet.fields[x] = Blank => old.fields[x] = Blank
    BY <1>1, <1>5, <1>6, MethodEffect
  <1>8. Overwrite(old, q.pet) = InsertedPet(q)
    BY <1>2, <1>5, <1>7, OverwriteStores DEF InsertedPet
  <1>9. /\ InsertedPet(q) \in StoredPet
        /\ InsertedPet(q).fields = AsStored(q.pet.fields)
    BY <1>2, StoredPetType DEF InsertedPet
  <1>10. \A x \in Required : q.pet.fields[x] # Blank
    BY <1>5, <1>7, ProfileAssumption
  <1>11. \A x \in Required : InsertedPet(q).fields[x] # Blank
    <2>1. q.pet.fields \in Profile
      BY <1>2 DEF Pet
    <2> QED
      BY <1>9, <1>10, <2>1, RequiredStored
  <1>12. table' = [table EXCEPT ![q.id] = [pet |-> InsertedPet(q), version |-> q.version]]
    BY <1>8 DEF Write
  <1>13. q.version \in Nat /\ q.version > table[q.id].version
    <2> HIDE DEF q
    <2> QED
      BY <1>2, <1>3
  <1>14. MovesOn(q.id, InsertedPet(q), q.version)
    BY <1>12, <1>13 DEF MovesOn
  <1> QED
    BY <1>1, <1>2, <1>4, <1>5, <1>6, <1>9, <1>11, <1>14

(* An answer that has just been made is that of the row.                   *)
LEMMA AnswerFresh ==
    ASSUME TableOK, NEW w \in PetWorkers, NEW q, q.id \in Pets, q.pet \in Pet,
           NEW n, MovesOn(q.id, InsertedPet(q), n),
           request'[w] = AnswerTo(q, n)
    PROVE  WorkerOK(w)' /\ AnswerTo(q, n) \in AnyRequest
  <1>1. table'[q.id].pet = InsertedPet(q) /\ table'[q.id].version = n /\ n \in Nat
    BY RowTypes DEF MovesOn, TableOK
  <1>2. /\ request'[w].stage = "answer" /\ request'[w].id = q.id
        /\ request'[w].pet = q.pet /\ request'[w].version = n
    BY DEF AnswerTo
  <1>3. AnswerStored(request[w])'
    BY <1>1, <1>2 DEF AnswerStored, InsertedPet
  <1>4. AnswerTo(q, n) \in AnyRequest
    BY <1>1 DEF AnswerTo, AnswerRequest, AnyRequest
  <1> QED
    BY <1>2, <1>3, <1>4 DEF WorkerOK, HeldApplies
-----------------------------------------------------------------------------
LEMMA PetInit == Init => PetInv
  <1> SUFFICES ASSUME Init PROVE PetInv
    OBVIOUS
  <1>1. TableOK
    BY DEF Init, TableOK, Row, Present
  <1>2. request \in [PetWorkers -> AnyRequest] /\ faults \in 0..MaxPetFaults
    BY IdleOK, PetServiceAssumption DEF Init
  <1>3. \A w \in PetWorkers : WorkerOK(w)
    BY IdleOK DEF Init
  <1> QED
    BY <1>1, <1>2, <1>3, PetInvParts

(* Every step keeps the invariant.                                         *)
LEMMA PetStep == PetInv /\ [Next]_vars => PetInv'
  <1> SUFFICES ASSUME PetInv, [Next]_vars PROVE PetInv'
    OBVIOUS
  <1>0. /\ TableOK /\ request \in [PetWorkers -> AnyRequest]
        /\ faults \in 0..MaxPetFaults /\ MaxPetFaults \in Nat
    BY PetInvParts, PetServiceAssumption
  <1>1. ASSUME NEW w \in PetWorkers, NEW p \in Pets, CreatePet(w, p) PROVE PetInv'
    <2>1. PICK o \in PetOwners, f \in Profile :
            /\ MayCreatePet(f)
            /\ Hold(w, [stage |-> "save", id |-> p, pet |-> NewPet(o, f)])
      BY <1>1 DEF CreatePet
    <2> DEFINE q == [stage |-> "save", id |-> p, pet |-> NewPet(o, f)]
    <2>2. q \in AnyRequest
      BY DEF AnyRequest, SaveRequest, NewPet, Pet, PetStatus
    <2>3. request'[w] = q
      BY <1>0, <2>1, <2>2, HoldType
    <2>4. WorkerOK(w)'
      BY <2>1, <2>3 DEF WorkerOK, HeldApplies, HeldCreationApplies
    <2>5. Hold(w, q) /\ table' = table /\ faults' \in 0..MaxPetFaults
      BY <1>0, <1>1, <2>1 DEF CreatePet
    <2> HIDE DEF q
    <2> QED
      BY <2>2, <2>4, <2>5, HoldKeeps
  <1>2. ASSUME NEW w \in PetWorkers, NEW p \in Pets, NEW o \in PetOwners,
               LoadsOwn(w, p, o), NEW op \in {"update", "archive"},
               NEW change \in Profile, NEW pet,
               pet = IF op = "archive" THEN AfterArchive(table[p].pet)
                                       ELSE AfterUpdate(table[p].pet, change),
               HoldChange(w, p, op, change, pet)
        PROVE  PetInv'
    <2> DEFINE q == [stage |-> "update", op |-> op, id |-> p, change |-> change,
                     pet |-> pet, version |-> table[p].version + 1]
    <2>1. /\ table[p].version \in Nat /\ table[p].version > 0
          /\ table[p].pet \in StoredPet
      BY <1>0, <1>2, RowTypes DEF LoadsOwn, Present
    <2>2. pet \in Pet
      <3>1. /\ table[p].pet.fields \in Profile
            /\ Merge(table[p].pet.fields, change) \in Profile
        BY <2>1, ProfileTypes DEF StoredPet
      <3> QED
        BY <1>2, <2>1, <3>1 DEF AfterArchive, AfterUpdate, StoredPet, Pet, PetStatus
    <2>3. q \in AnyRequest
      <3>1. table[p].version + 1 \in Nat \ {0, 1}
        BY <2>1
      <3> QED
        BY <2>2, <3>1 DEF AnyRequest, UpdateRequest
    <2>4. Hold(w, q) /\ table' = table /\ faults' = faults
      BY <1>2 DEF HoldChange
    <2>5. request'[w] = q
      BY <1>0, <2>3, <2>4, HoldType
    <2>6. HeldUpdateApplies(request[w])'
      BY <1>2, <2>1, <2>4, <2>5 DEF HeldUpdateApplies, Matches, MethodOn
    <2>7. WorkerOK(w)'
      BY <2>5, <2>6 DEF WorkerOK, HeldApplies
    <2> HIDE DEF q
    <2> QED
      BY <1>0, <2>3, <2>4, <2>7, HoldKeeps
  <1>3. ASSUME NEW w \in PetWorkers, NEW p \in Pets, DeletePet(w, p) PROVE PetInv'
    <2>1. NoChange \in Profile
      BY ProfileAssumption DEF NoChange, Profile
    <2> QED
      BY <1>2, <1>3, <2>1 DEF DeletePet
  <1>4. ASSUME NEW w \in PetWorkers, NEW p \in Pets, NEW change \in Profile,
               UpdatePet(w, p, change)
        PROVE  PetInv'
    BY <1>2, <1>4 DEF UpdatePet
  <1>5. ASSUME NEW w \in PetWorkers, SavePet(w) PROVE PetInv'
    <2> DEFINE q == request[w]
    <2>1. q.stage = "save" /\ ~ Present(q.id) /\ Insert(q)
          /\ Hold(w, AnswerTo(q, 1)) /\ faults' = faults
      BY <1>5 DEF SavePet
    <2>2. request'[w] = AnswerTo(q, 1)
      BY <1>0, <2>1 DEF Hold
    <2>3. /\ q.id \in Pets /\ q.pet \in Pet /\ InsertedPet(q) \in StoredPet
          /\ MovesOn(q.id, InsertedPet(q), 1)
          /\ \A x \in Required : InsertedPet(q).fields[x] # Blank
      BY <2>1, InsertMoves
    <2>4. WorkerOK(w)' /\ AnswerTo(q, 1) \in AnyRequest
      BY <1>0, <2>2, <2>3, AnswerFresh
    <2> HIDE DEF q
    <2> QED
      BY <1>0, <2>1, <2>3, <2>4, MoveKeeps
  <1>6. ASSUME NEW w \in PetWorkers, Commit(w) PROVE PetInv'
    <2> DEFINE q == request[w]
    <2>1. q.stage = "update" /\ Write(q)
          /\ Hold(w, AnswerTo(q, q.version)) /\ faults' = faults
      BY <1>6 DEF Commit
    <2>2. request'[w] = AnswerTo(q, q.version)
      BY <1>0, <2>1 DEF Hold
    <2>3. /\ q \in UpdateRequest /\ q.id \in Pets /\ InsertedPet(q) \in StoredPet
          /\ MovesOn(q.id, InsertedPet(q), q.version)
          /\ \A x \in Required : InsertedPet(q).fields[x] # Blank
      BY <2>1, WriteMoves
    <2>4. q.pet \in Pet
      BY <2>3 DEF UpdateRequest
    <2>5. WorkerOK(w)' /\ AnswerTo(q, q.version) \in AnyRequest
      BY <1>0, <2>2, <2>3, <2>4, AnswerFresh
    <2> HIDE DEF q
    <2> QED
      BY <1>0, <2>1, <2>3, <2>5, MoveKeeps
  <1>7. ASSUME NEW w \in PetWorkers, Hold(w, Idle)
        PROVE  WorkerOK(w)'
    <2>1. request'[w] = Idle
      BY <1>0, <1>7 DEF Hold
    <2> QED
      BY <2>1 DEF Idle, WorkerOK, HeldApplies
  <1>8. ASSUME NEW w \in PetWorkers,
               SaveDuplicate(w) \/ Conflict(w) \/ Answer(w) \/ DatabaseError(w)
        PROVE  PetInv'
    <2>1. Hold(w, Idle) /\ table' = table
      BY <1>8 DEF SaveDuplicate, Conflict, Answer, DatabaseError
    <2>2. faults' \in 0..MaxPetFaults
      BY <1>0, <1>8 DEF SaveDuplicate, Conflict, Answer, DatabaseError, Fault
    <2> QED
      BY <1>7, <2>1, <2>2, IdleOK, HoldKeeps
  <1>9. ASSUME NEW w \in PetWorkers, CommitUnacknowledged(w) PROVE PetInv'
    <2> DEFINE q == request[w]
    <2>1. Hold(w, Idle) /\ faults' \in 0..MaxPetFaults
      BY <1>0, <1>9 DEF CommitUnacknowledged, Fault
    <2>2. CASE q.stage = "save" /\ ~ Present(q.id) /\ Insert(q)
      <3>1. /\ q.id \in Pets /\ InsertedPet(q) \in StoredPet
            /\ MovesOn(q.id, InsertedPet(q), 1)
            /\ \A x \in Required : InsertedPet(q).fields[x] # Blank
        BY <2>2, InsertMoves
      <3> HIDE DEF q
      <3> QED
        BY <1>7, <2>1, <3>1, IdleOK, MoveKeeps
    <2>3. CASE q.stage = "update" /\ Write(q)
      <3>1. /\ q.id \in Pets /\ InsertedPet(q) \in StoredPet
            /\ MovesOn(q.id, InsertedPet(q), q.version)
            /\ \A x \in Required : InsertedPet(q).fields[x] # Blank
        BY <2>3, WriteMoves
      <3> HIDE DEF q
      <3> QED
        BY <1>7, <2>1, <3>1, IdleOK, MoveKeeps
    <2> QED
      BY <1>9, <2>2, <2>3 DEF CommitUnacknowledged
  <1>10. ASSUME table' = table, faults' \in 0..MaxPetFaults,
                request' \in [PetWorkers -> AnyRequest],
                \A w \in PetWorkers : request'[w] \in {request[w], Idle}
         PROVE  PetInv'
    <2>1. TableOK'
      BY <1>0, <1>10 DEF TableOK, Present
    <2>2. ASSUME NEW w \in PetWorkers PROVE WorkerOK(w)'
      <3>1. CASE request'[w] = request[w]
        BY <1>10, <3>1, PetInvParts, SameTableWorker
      <3>2. CASE request'[w] = Idle
        BY <3>2 DEF Idle, WorkerOK, HeldApplies
      <3> QED
        BY <1>10, <3>1, <3>2
    <2> QED
      BY <1>10, <2>1, <2>2, PetInvPartsNext
  <1>11. ASSUME NEW S \in SUBSET PetWorkers, Crash(S) PROVE PetInv'
    <2>1. /\ table' = table /\ faults' \in 0..MaxPetFaults
          /\ request' = [w \in PetWorkers |-> IF w \in S THEN Idle ELSE request[w]]
      BY <1>0, <1>11 DEF Crash, Fault
    <2> QED
      BY <1>0, <1>10, <2>1, IdleOK
  <1>12. CASE UNCHANGED vars
    BY <1>0, <1>10, <1>12 DEF vars
  <1> QED
    BY <1>1, <1>3, <1>4, <1>5, <1>6, <1>8, <1>9, <1>11, <1>12 DEF Next

(* The invariant holds in every reachable state.                           *)
THEOREM PetInvariant == Spec => []PetInv
  BY PetInit, PetStep, PTL DEF Spec

(* Types, and no stored profile without its required fields.               *)
THEOREM PetTypeCorrect == Spec => []PetTypeOK
  <1>1. PetInv => PetTypeOK
    BY DEF PetInv
  <1> QED
    BY <1>1, PetInvariant, PTL

(* A change in progress is out of date, or applies to the row as it is.    *)
THEOREM HeldPetsStayApplicable == Spec => []HeldPetsApply
  <1>1. PetInv => HeldPetsApply
    BY DEF PetInv
  <1> QED
    BY <1>1, PetInvariant, PTL

(* What a client is told is what was stored.                               *)
THEOREM AnswersAreStored == Spec => []AnswersStored
  <1>1. PetInv => AnswersStored
    BY DEF PetInv
  <1> QED
    BY <1>1, PetInvariant, PTL
-----------------------------------------------------------------------------
(* The only steps that touch the table: an insertion, and an update under  *)
(* a matching version.                                                     *)
Inserts(w) ==
    request[w].stage = "save" /\ ~ Present(request[w].id) /\ Insert(request[w])
Updates(w) == request[w].stage = "update" /\ Write(request[w])

LEMMA PetTableSteps ==
    ASSUME [Next]_vars
    PROVE  \/ UNCHANGED table
           \/ \E w \in PetWorkers : Inserts(w) \/ Updates(w)
  <1>1. CASE UNCHANGED vars
    BY <1>1 DEF vars
  <1>2. ASSUME NEW w \in PetWorkers, NEW p \in Pets,
               CreatePet(w, p) \/ DeletePet(w, p)
                 \/ \E change \in Profile : UpdatePet(w, p, change)
        PROVE  UNCHANGED table
    BY <1>2 DEF CreatePet, DeletePet, UpdatePet, HoldChange
  <1>3. ASSUME NEW w \in PetWorkers, SavePet(w) \/ Commit(w) \/ CommitUnacknowledged(w)
        PROVE  Inserts(w) \/ Updates(w)
    BY <1>3 DEF SavePet, Commit, CommitUnacknowledged, Inserts, Updates
  <1>4. ASSUME NEW w \in PetWorkers,
               SaveDuplicate(w) \/ Conflict(w) \/ Answer(w) \/ DatabaseError(w)
        PROVE  UNCHANGED table
    BY <1>4 DEF SaveDuplicate, Conflict, Answer, DatabaseError
  <1>5. ASSUME NEW S \in SUBSET PetWorkers, Crash(S) PROVE UNCHANGED table
    BY <1>5 DEF Crash
  <1> QED
    BY <1>1, <1>2, <1>3, <1>4, <1>5 DEF Next

(* The row after an insertion or an update.                                *)
LEMMA RowAfter ==
    ASSUME TableOK, NEW p \in Pets, NEW pet, NEW n, MovesOn(p, pet, n)
    PROVE  /\ table'[p].pet = pet
           /\ \A c \in Pets \ {p} : table'[c] = table[c]
  BY DEF TableOK, MovesOn

(* An archived profile stays archived.                                     *)
THEOREM ArchivedStaysFinal == Spec => ArchivedIsFinal
  <1>1. ASSUME PetInv, [Next]_vars PROVE StaysArchived
    <2>1. CASE UNCHANGED table
      BY <2>1 DEF StaysArchived
    <2>2. ASSUME NEW w \in PetWorkers, Inserts(w) PROVE StaysArchived
      <3> DEFINE q == request[w]
      <3>1. q.id \in Pets /\ MovesOn(q.id, InsertedPet(q), 1) /\ ~ Present(q.id)
        BY <1>1, <2>2, InsertMoves DEF Inserts
      <3>2. \A c \in Pets \ {q.id} : table'[c] = table[c]
        BY <1>1, <3>1, PetInvParts, RowAfter
      <3> QED
        BY <3>1, <3>2 DEF StaysArchived
    <2>3. ASSUME NEW w \in PetWorkers, Updates(w) PROVE StaysArchived
      <3> DEFINE q == request[w]
                 old == table[q.id].pet
      <3>1. /\ q \in UpdateRequest /\ q.id \in Pets /\ old \in StoredPet
            /\ q.pet = MethodOn(old, q) /\ MovesOn(q.id, InsertedPet(q), q.version)
        BY <1>1, <2>3, WriteMoves DEF Updates
      <3>2. q.op \in {"update", "archive"} /\ q.pet \in Pet
        BY <3>1 DEF UpdateRequest
      <3>3. old.status = "archived" => q.pet.status = "archived"
        BY <3>1, <3>2, MethodEffect
      <3>4. InsertedPet(q).status = q.pet.status
        BY <3>2, StoredPetType DEF InsertedPet
      <3>5. /\ table'[q.id].pet = InsertedPet(q)
            /\ \A c \in Pets \ {q.id} : table'[c] = table[c]
        BY <1>1, <3>1, PetInvParts, RowAfter
      <3> QED
        BY <3>3, <3>4, <3>5 DEF StaysArchived
    <2> QED
      BY <1>1, <2>1, <2>2, <2>3, PetTableSteps
  <1> QED
    BY <1>1, PetInvariant, PTL DEF Spec, ArchivedIsFinal
-----------------------------------------------------------------------------
(* The content of the table, which is the store's variable.                *)
Contents == [p \in Pets |-> table[p].pet]

LEMMA ContentsAfter ==
    ASSUME TableOK, NEW p \in Pets, NEW pet, NEW n, MovesOn(p, pet, n)
    PROVE  Contents' = [Contents EXCEPT ![p] = pet]
  BY RowAfter DEF Contents

(* The operators of the store's own copy of PetProfile are those here.     *)
LEMMA SameOperators ==
    /\ Store!Profile = Profile
    /\ \A f : Store!MayCreatePet(f) <=> MayCreatePet(f)
    /\ \A o, f : Store!NewPet(o, f) = NewPet(o, f)
    /\ \A f : Store!AsStored(f) = AsStored(f)
  BY DEF Store!Profile, Profile, Store!MayCreatePet, MayCreatePet,
         Store!NewPet, NewPet, Store!AsStored, AsStored

(* An insertion creates the profile in the store.                          *)
LEMMA InsertCreates ==
    ASSUME PetInv, NEW w \in PetWorkers, Inserts(w), NEW q, q = request[w]
    PROVE  Store!Next
  <1>1. /\ q.id \in Pets /\ MovesOn(q.id, InsertedPet(q), 1)
        /\ HeldCreationApplies(q) /\ ~ Present(q.id)
    BY InsertMoves DEF Inserts
  <1>2. TableOK
    BY PetInvParts
  <1>3. PICK o \in PetOwners, f \in Profile : MayCreatePet(f) /\ q.pet = NewPet(o, f)
    BY <1>1 DEF HeldCreationApplies
  <1>4. InsertedPet(q) = NewPet(o, AsStored(f))
    BY <1>3 DEF InsertedPet, NewPet
  <1>5. Contents' = [Contents EXCEPT ![q.id] = NewPet(o, AsStored(f))]
    BY <1>1, <1>2, <1>4, ContentsAfter
  <1>6. Contents[q.id] = NoPet
    BY <1>1, <1>2, RowTypes DEF Contents
  <1>7. Store!Create(q.id)
    BY <1>3, <1>5, <1>6, SameOperators DEF Store!Create, Contents
  <1> QED
    BY <1>1, <1>7 DEF Store!Next

(* An update is the store's update or archiving of the profile as it is.   *)
LEMMA UpdateChanges ==
    ASSUME PetInv, NEW w \in PetWorkers, Updates(w), NEW q, q = request[w]
    PROVE  Store!Next
  <1> DEFINE old == table[q.id].pet
  <1>1. /\ q \in UpdateRequest /\ q.id \in Pets /\ Present(q.id)
        /\ old \in StoredPet /\ q.pet = MethodOn(old, q)
        /\ MovesOn(q.id, InsertedPet(q), q.version)
    BY WriteMoves DEF Updates
  <1>2. TableOK
    BY PetInvParts
  <1>3. q.op \in {"update", "archive"} /\ q.pet \in Pet /\ q.change \in Profile
    BY <1>1 DEF UpdateRequest
  <1>4. Contents[q.id] = old /\ old # NoPet
    BY <1>1, <1>2 DEF Contents, TableOK
  <1>5. Contents' = [Contents EXCEPT ![q.id] = InsertedPet(q)]
    BY <1>1, <1>2, ContentsAfter
  <1>6. /\ InsertedPet(q) = [owner |-> q.pet.owner, fields |-> AsStored(q.pet.fields),
                             status |-> q.pet.status]
        /\ old = [owner |-> old.owner, fields |-> old.fields, status |-> old.status]
    BY <1>1, <1>3 DEF InsertedPet, Pet, StoredPet
  <1>7. /\ q.pet.owner = old.owner
        /\ q.op = "archive" =>
             q.pet.status = "archived" /\ q.pet.fields = old.fields
        /\ q.op = "update" =>
             q.pet.status = old.status /\ q.pet.fields = Merge(old.fields, q.change)
    BY <1>1, MethodEffect
  <1>8. AsStored(old.fields) = old.fields
    BY <1>1, ProfileTypes DEF StoredPet
  <1>9. CASE q.op = "archive"
    <2>1. InsertedPet(q) = [old EXCEPT !.status = "archived"]
      BY <1>6, <1>7, <1>8, <1>9
    <2>2. Contents' = [Contents EXCEPT ![q.id].status = "archived"]
      BY <1>4, <1>5, <2>1
    <2>3. Store!Archive(q.id)
      BY <1>4, <2>2 DEF Store!Archive, Contents
    <2> QED
      BY <1>1, <2>3 DEF Store!Next
  <1>10. CASE q.op = "update"
    <2> DEFINE new == [x \in Fields |-> IF q.change[x] \in Unset THEN old.fields[x]
                                        ELSE Stored[q.change[x]]]
    <2>1. AsStored(Merge(old.fields, q.change)) = new
      <3>1. \A x \in Fields : Stored[old.fields[x]] = old.fields[x]
        BY <1>1 DEF StoredPet, Columns
      <3> QED
        BY <3>1 DEF AsStored, Merge
    <2>2. InsertedPet(q) = [old EXCEPT !.fields = new]
      <3>1. /\ InsertedPet(q).owner = old.owner /\ InsertedPet(q).fields = new
            /\ InsertedPet(q).status = old.status
        BY <1>6, <1>7, <1>10, <2>1
      <3> HIDE DEF old, new
      <3> QED
        BY <1>6, <3>1
    <2>3. Contents' = [Contents EXCEPT ![q.id].fields =
             [x \in Fields |-> IF q.change[x] \in Unset THEN @[x]
                               ELSE Stored[q.change[x]]]]
      BY <1>4, <1>5, <2>2
    <2>4. Store!Update(q.id, q.change)
      BY <1>4, <2>3 DEF Store!Update, Contents
    <2> QED
      BY <1>1, <1>3, <2>4, SameOperators DEF Store!Next
  <1> QED
    BY <1>3, <1>9, <1>10

(* The service implements the store: with versions, requests and failures  *)
(* hidden, each step is a step of the store or changes nothing in it.      *)
THEOREM ServiceImplementsStore == Spec => ImplementsStore
  <1>1. Init => Store!Init
    BY DEF Init, Store!Init
  <1>2. ASSUME PetInv, [Next]_vars PROVE [Store!Next]_Contents
    <2>1. CASE UNCHANGED table
      BY <2>1 DEF Contents
    <2>2. ASSUME NEW w \in PetWorkers, Inserts(w) \/ Updates(w) PROVE Store!Next
      <3>1. PICK q : q = request[w]
        OBVIOUS
      <3> QED
        BY <1>2, <2>2, <3>1, InsertCreates, UpdateChanges
    <2> QED
      BY <1>2, <2>1, <2>2, PetTableSteps
  <1> QED
    BY <1>1, <1>2, PetInvariant, PTL DEF Spec, ImplementsStore, Store!Spec, Contents
=============================================================================
