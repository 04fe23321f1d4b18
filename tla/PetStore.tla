----------------------------- MODULE PetStore -----------------------------
(***************************************************************************)
(* What the pet service promises owners: profiles that change one at a     *)
(* time, where an update changes the fields it gives and no others, and    *)
(* archiving changes nothing else.  No requests in progress, no versions,  *)
(* no failures: PetService is shown to implement this module.              *)
(***************************************************************************)
EXTENDS PetProfile

CONSTANT Pets         \* pet identifiers

VARIABLE pets         \* the content of each profile, or NoPet

Init == pets = [p \in Pets |-> NoPet]

Create(p) ==
    /\ pets[p] = NoPet
    /\ \E o \in PetOwners, f \in Profile :
         /\ MayCreatePet(f)
         /\ pets' = [pets EXCEPT ![p] = NewPet(o, AsStored(f))]

(* The fields given are stored, the others stay.  An archived profile can  *)
(* be updated too.                                                         *)
Update(p, change) ==
    /\ pets[p] # NoPet
    /\ pets' = [pets EXCEPT ![p].fields = [x \in Fields |->
           IF change[x] \in Unset THEN @[x] ELSE Stored[change[x]]]]

Archive(p) ==
    /\ pets[p] # NoPet
    /\ pets' = [pets EXCEPT ![p].status = "archived"]

Next ==
    \E p \in Pets :
        Create(p) \/ Archive(p) \/ \E change \in Profile : Update(p, change)

Spec == Init /\ [][Next]_pets
=============================================================================
