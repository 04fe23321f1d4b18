------------------------- MODULE MCServerShutdown -------------------------
(***************************************************************************)
(* Instances of ServerShutdown for TLC.                                    *)
(***************************************************************************)
EXTENDS ServerShutdown, TLC

MCQuote == [s \in Specs |-> 7]
MCUnscheduled == [s \in Specs |-> s]

MCSymmetry == Permutations(Workers \ {Consumer})
=============================================================================
