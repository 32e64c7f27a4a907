------------------------- MODULE MCFulfillmentOutbox -------------------------
(* Instances of FulfillmentOutbox for TLC.                                   *)
EXTENDS FulfillmentOutboxInductive, TLC

\* Processors are interchangeable.  Used by runs of safety properties only.
MCSymmetry == Permutations(Processors)
=============================================================================
