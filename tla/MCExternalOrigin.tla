-------------------------- MODULE MCExternalOrigin --------------------------
(***************************************************************************)
(* Small instances of ExternalOrigin for TLC: a route straight to the end  *)
(* and one through the interchange of the first route.                     *)
(***************************************************************************)
EXTENDS ExternalOrigin, TLC

\* The hubs are alike: no offer names one.
Symmetry == Permutations(Hubs)

MCOffers == {<<>>, <<Interchange>>}
=============================================================================
