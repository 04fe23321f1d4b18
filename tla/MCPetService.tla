--------------------------- MODULE MCPetService ---------------------------
(***************************************************************************)
(* An instance of PetService for TLC: a name, which is required and stored *)
(* as it is, and a weight in kilograms, rounded to two decimals, with one  *)
(* value that is rounded to zero and one below zero.                       *)
(***************************************************************************)
EXTENDS PetService, TLC

CONSTANTS name, weight, rex, tom, zero, tiny, heavy, rounded, negative

MCFields == {name, weight}
MCDomain == name :> {zero, rex, tom} @@
            weight :> {zero, tiny, heavy, rounded, negative}
MCStored == [v \in Values |-> IF v = tiny THEN zero
                              ELSE IF v = heavy THEN rounded ELSE v]
PetSymmetry == Permutations(PetWorkers)
=============================================================================
