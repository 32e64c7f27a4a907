-------------------------- MODULE MCOutboundLabel --------------------------
(* The instance of OutboundLabel that TLC checks. *)
EXTENDS OutboundLabelInductive, TLC

\* Whatever two calls ask for, which of them asks for what being indifferent.
\* Two offline labels, which cost nothing and tell no carrier, are left out.
CONSTANTS first, second
MCAsks == {first :> a @@ second :> b : <<a, b>> \in
    {<<"shipstation", "shipstation">>, <<"shipstation", "direct">>,
     <<"shipstation", "test">>, <<"direct", "direct">>, <<"direct", "test">>}}
=============================================================================
