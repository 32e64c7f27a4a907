-------------------------- MODULE MCPortalInbound --------------------------
(* Two saves and two receivers of shipments with one line.                 *)
EXTENDS PortalInboundRefinement, TLC

CONSTANTS s1, s2, k1, d1, d2, q1, q2, w1, w2

MCSymmetry == Permutations(Saves) \cup Permutations(Details)
              \cup Permutations(Receivers) \cup Permutations(Rows)
=============================================================================
