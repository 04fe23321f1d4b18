---------------------------- MODULE PetProfile ----------------------------
(***************************************************************************)
(* The Pet aggregate of internal/domain/pet/pet.go and what becomes of its *)
(* fields in the pets table.                                               *)
(*                                                                         *)
(* The ten descriptive fields (name, type, breed, weight, age, ...) are a  *)
(* function on Fields.  Two conversions lie between a request and the      *)
(* table: Update ignores the values in Unset ("" and numbers that are not  *)
(* positive), and a column keeps Stored[v] of a value v (weight_kg is      *)
(* DECIMAL(5,2), so a weight is rounded, a tiny one to zero).              *)
(***************************************************************************)
CONSTANTS PetOwners, \* users with the owner role
          Fields,    \* the descriptive fields
          Required,  \* those CreatePet and the table require
          Values,    \* what a request may say of a field
          Domain,    \* the values that make sense for each field
          Blank,     \* the zero value of Go: "" or 0
          Unset,     \* the values Update takes for "not given"
          Stored,    \* what a column keeps of a value
          NoPet      \* the content of a row that does not exist

(* What a request says, and what a row of the table can hold.              *)
Profile == {f \in [Fields -> Values] : \A x \in Fields : f[x] \in Domain[x]}
Columns == {f \in Profile : \A x \in Fields : Stored[f[x]] = f[x]}

PetStatus == {"active", "archived"}

Pet == [owner : PetOwners, fields : Profile, status : PetStatus]

ASSUME ProfileAssumption ==
    /\ Required \subseteq Fields
    /\ Domain \in [Fields -> SUBSET Values]
    /\ Blank \in Unset
    /\ \A x \in Fields : Blank \in Domain[x]
    /\ Stored[Blank] = Blank
    /\ \A x \in Fields : \A v \in Domain[x] :
         Stored[v] \in Domain[x] /\ Stored[Stored[v]] = Stored[v]
    /\ \A x \in Required : \A v \in Domain[x] : Stored[v] = v
    /\ NoPet \notin Pet
-----------------------------------------------------------------------------
\* Mutated form of MayCreatePet: nothing is required.
MayCreateAnonymous(f) == f \in Profile

MayCreatePet(f) == f \in Profile /\ \A x \in Required : f[x] # Blank

NewPet(o, f) == [owner |-> o, fields |-> f, status |-> "active"]

\* Mutated form of Merge: every field of the request is assigned.
MergeEverything(f, change) == change

(* Update: a field that is not given keeps its value.                      *)
Merge(f, change) ==
    [x \in Fields |-> IF change[x] \in Unset THEN f[x] ELSE change[x]]

AfterUpdate(pet, change) == [pet EXCEPT !.fields = Merge(@, change)]

(* Archive; nothing makes an archived profile active again.                *)
AfterArchive(pet) == [pet EXCEPT !.status = "archived"]
-----------------------------------------------------------------------------
AsStored(f) == [x \in Fields |-> Stored[f[x]]]

(* Updates(model) with a struct writes the columns whose field is not the  *)
(* zero value, and leaves the others as they are in the row.               *)
Overwrite(old, new) ==
    [new EXCEPT !.fields = [x \in Fields |->
        IF @[x] = Blank THEN old.fields[x] ELSE Stored[@[x]]]]
=============================================================================
