\* One profile, two workers that update different fields or archive it, all
\* kinds of values, one fault.
CONSTANTS
    Pets = {p1}
    PetWorkers = {w1, w2}
    PetOwners = {o1}
    name = name
    weight = weight
    rex = rex
    tom = tom
    zero = zero
    tiny = tiny
    heavy = heavy
    rounded = rounded
    negative = negative
    Fields <- MCFields
    Required = {name}
    Values = {zero, rex, tom, tiny, heavy, rounded, negative}
    Domain <- MCDomain
    Blank = zero
    Unset = {zero, negative}
    Stored <- MCStored
    NoPet = NoPet
    MaxPetVersion = 4
    MaxPetFaults = 1
SPECIFICATION Spec
SYMMETRY PetSymmetry
INVARIANTS
    PetTypeOK
    HeldPetsApply
    AnswersStored
PROPERTIES
    ArchivedIsFinal
    ImplementsStore
CHECK_DEADLOCK FALSE
