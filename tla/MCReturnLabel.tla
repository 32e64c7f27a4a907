---------------------------- MODULE MCReturnLabel ----------------------------
(* Instances of ReturnLabel for TLC.                                       *)
EXTENDS ReturnPostage, TLC

\* The two labels of a return cost the customer different amounts.
MCAmount == [k \in 1..MaxKey |-> k]

\* Requests are interchangeable, and so are voids: no property names one.
MCSymmetry == Permutations(Requests) \cup Permutations(Voiders)
=============================================================================
