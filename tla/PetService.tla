---------------------------- MODULE PetService ----------------------------
(***************************************************************************)
(* The pet service: workers that run the handlers of                       *)
(* internal/application/pet_service.go against the pets table.  A handler  *)
(* is cut as in BookingService: load and apply, write under the optimistic *)
(* lock, answer.  The aggregate increments its own version here, and the   *)
(* answer is the handler's own copy, not the row.                          *)
(***************************************************************************)
EXTENDS PetProfile, Integers

CONSTANTS Pets,         \* pet identifiers
          PetWorkers,   \* goroutines that serve requests
          MaxPetVersion,\* bound: no handler starts on a row at this version
          MaxPetFaults  \* bound: failed calls and crashes in a behaviour

ASSUME PetServiceAssumption == MaxPetVersion \in Nat /\ MaxPetFaults \in Nat

VARIABLES table,        \* the pets table: content and version column
          request,      \* what each worker holds between two steps
          faults        \* failures so far

vars == <<table, request, faults>>
-----------------------------------------------------------------------------
StoredPet == [owner : PetOwners, fields : Columns, status : PetStatus]
Row == [pet : StoredPet \cup {NoPet}, version : Nat]

Present(p) == table[p].version > 0

Idle == [stage |-> "idle"]

SaveRequest   == [stage : {"save"}, id : Pets, pet : Pet]
UpdateRequest == [stage : {"update"}, op : {"update", "archive"}, id : Pets,
                  change : Profile, pet : Pet, version : Nat \ {0, 1}]
AnswerRequest == [stage : {"answer"}, id : Pets, pet : Pet, version : Nat]

AnyRequest == {Idle} \cup SaveRequest \cup UpdateRequest \cup AnswerRequest

Hold(w, q) == request' = [request EXCEPT ![w] = q]

AnswerTo(q, v) == [stage |-> "answer", id |-> q.id, pet |-> q.pet, version |-> v]

Init ==
    /\ table = [p \in Pets |-> [pet |-> NoPet, version |-> 0]]
    /\ request = [w \in PetWorkers |-> Idle]
    /\ faults = 0
-----------------------------------------------------------------------------
CreatePet(w, p) ==
    /\ request[w].stage = "idle"
    /\ ~ Present(p)
    /\ \E o \in PetOwners, f \in Profile :
         /\ MayCreatePet(f)
         /\ Hold(w, [stage |-> "save", id |-> p, pet |-> NewPet(o, f)])
    /\ UNCHANGED <<table, faults>>

(* FindByID and IsOwnedBy: only the owner gets further.  A profile that is *)
(* archived is found too.                                                  *)
LoadsOwn(w, p, o) ==
    /\ request[w].stage = "idle"
    /\ Present(p)
    /\ table[p].pet.owner = o
    /\ table[p].version < MaxPetVersion

(* The private copy as the method leaves it, its version incremented.      *)
HoldChange(w, p, op, change, pet) ==
    /\ Hold(w, [stage |-> "update", op |-> op, id |-> p, change |-> change,
                pet |-> pet, version |-> table[p].version + 1])
    /\ UNCHANGED <<table, faults>>

UpdatePet(w, p, change) ==
    /\ \E o \in PetOwners : LoadsOwn(w, p, o)
    /\ HoldChange(w, p, "update", change, AfterUpdate(table[p].pet, change))

NoChange == [x \in Fields |-> Blank]

DeletePet(w, p) ==
    /\ \E o \in PetOwners : LoadsOwn(w, p, o)
    /\ HoldChange(w, p, "archive", NoChange, AfterArchive(table[p].pet))

Insert(q) ==
    table' = [table EXCEPT ![q.id] =
        [pet |-> [q.pet EXCEPT !.fields = AsStored(@)], version |-> 1]]

SavePet(w) ==
    /\ request[w].stage = "save"
    /\ ~ Present(request[w].id)
    /\ Insert(request[w])
    /\ Hold(w, AnswerTo(request[w], 1))
    /\ UNCHANGED faults

(* The primary key is taken: an error for the client.                      *)
SaveDuplicate(w) ==
    /\ request[w].stage = "save"
    /\ Present(request[w].id)
    /\ Hold(w, Idle)
    /\ UNCHANGED <<table, faults>>

\* Mutated form of Matches: the version column is not compared.
MatchesAnyVersion(q) == Present(q.id)

Matches(q) == table[q.id].version = q.version - 1

Write(q) ==
    /\ Matches(q)
    /\ table' = [table EXCEPT ![q.id] =
           [pet |-> Overwrite(@.pet, q.pet), version |-> q.version]]

Commit(w) ==
    /\ request[w].stage = "update"
    /\ Write(request[w])
    /\ Hold(w, AnswerTo(request[w], request[w].version))
    /\ UNCHANGED faults

\* Mutated form of Conflict: RowsAffected is not looked at.
ConflictUnnoticed(w) ==
    /\ request[w].stage = "update"
    /\ ~ Matches(request[w])
    /\ Hold(w, AnswerTo(request[w], request[w].version))
    /\ UNCHANGED <<table, faults>>

Conflict(w) ==
    /\ request[w].stage = "update"
    /\ ~ Matches(request[w])
    /\ Hold(w, Idle)
    /\ UNCHANGED <<table, faults>>

Answer(w) ==
    /\ request[w].stage = "answer"
    /\ Hold(w, Idle)
    /\ UNCHANGED <<table, faults>>
-----------------------------------------------------------------------------
Fault == faults < MaxPetFaults /\ faults' = faults + 1

(* The insert or the update fails and changes nothing.                     *)
DatabaseError(w) ==
    /\ request[w].stage \in {"save", "update"}
    /\ Hold(w, Idle)
    /\ Fault
    /\ UNCHANGED table

(* The database commits but the worker gets an error.                      *)
CommitUnacknowledged(w) ==
    /\ \/ request[w].stage = "save" /\ ~ Present(request[w].id) /\ Insert(request[w])
       \/ request[w].stage = "update" /\ Write(request[w])
    /\ Hold(w, Idle)
    /\ Fault

Crash(S) ==
    /\ S # {}
    /\ request' = [w \in PetWorkers |-> IF w \in S THEN Idle ELSE request[w]]
    /\ Fault
    /\ UNCHANGED table

Next ==
    \/ \E w \in PetWorkers, p \in Pets :
         CreatePet(w, p) \/ DeletePet(w, p)
           \/ \E change \in Profile : UpdatePet(w, p, change)
    \/ \E w \in PetWorkers :
         SavePet(w) \/ SaveDuplicate(w) \/ Commit(w) \/ Conflict(w) \/ Answer(w)
           \/ DatabaseError(w) \/ CommitUnacknowledged(w)
    \/ \E S \in SUBSET PetWorkers : Crash(S)

Spec == Init /\ [][Next]_vars
-----------------------------------------------------------------------------
(* Every variable has its type; in particular every field of a row holds   *)
(* what its column can hold, and no stored profile lacks a required field, *)
(* though updates come without any validation.                             *)
PetTypeOK ==
    /\ table \in [Pets -> Row]
    /\ \A p \in Pets : Present(p) <=> table[p].pet # NoPet
    /\ \A p \in Pets : Present(p) =>
         \A x \in Required : table[p].pet.fields[x] # Blank
    /\ request \in [PetWorkers -> AnyRequest]
    /\ faults \in 0..MaxPetFaults

(* A change a worker holds is at most one version ahead of its row, and    *)
(* while its version is still the next one its copy is what the method     *)
(* makes of the row as it is stored now.                                   *)
MethodOn(pet, q) ==
    IF q.op = "archive" THEN AfterArchive(pet) ELSE AfterUpdate(pet, q.change)

HeldUpdateApplies(q) ==
    /\ q.version - 1 <= table[q.id].version
    /\ Matches(q) => q.pet = MethodOn(table[q.id].pet, q)

HeldCreationApplies(q) ==
    \E o \in PetOwners, f \in Profile : MayCreatePet(f) /\ q.pet = NewPet(o, f)

HeldApplies(w) ==
    /\ request[w].stage = "save" => HeldCreationApplies(request[w])
    /\ request[w].stage = "update" => HeldUpdateApplies(request[w])

HeldPetsApply == \A w \in PetWorkers : HeldApplies(w)

(* The answer a client gets is the handler's copy, which was never read    *)
(* back.  As long as nobody changed the row since, it says what the row    *)
(* holds, up to the rounding of its columns: the zero values that Update   *)
(* skips are the ones the statement skips.                                 *)
AnswerStored(q) ==
    /\ q.version <= table[q.id].version
    /\ q.version = table[q.id].version =>
         table[q.id].pet = [q.pet EXCEPT !.fields = AsStored(@)]

AnswersStored ==
    \A w \in PetWorkers :
        request[w].stage = "answer" => AnswerStored(request[w])

(* An archived profile stays archived: an update loaded before it was      *)
(* archived, which writes the status it has read, cannot bring it back.    *)
StaysArchived ==
    \A p \in Pets :
        Present(p) /\ table[p].pet.status = "archived"
            => table'[p].pet.status = "archived"

ArchivedIsFinal == [][StaysArchived]_vars

(* The service implements the store: each step changes at most one         *)
(* profile, an update changes in the row as it stands only the fields it   *)
(* gives, and two updates of different fields both survive.                *)
Store == INSTANCE PetStore WITH pets <- [p \in Pets |-> table[p].pet]

ImplementsStore == Store!Spec
=============================================================================
