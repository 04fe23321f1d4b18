------------------------- MODULE MCPaymentConsumer -------------------------
(***************************************************************************)
(* Instances of PaymentConsumer for TLC.                                   *)
(***************************************************************************)
EXTENDS PaymentConsumer, TLC

MCQuote == [s \in Specs |-> 7]
MCUnscheduled == [s \in Specs |-> s]
MCStatuses == Status

MCSymmetry == Permutations(Workers \ {Consumer})
=============================================================================
