---------------------------- MODULE MCRoutePlan ----------------------------
(***************************************************************************)
(* Small instances of RoutePlan for TLC: routes of up to two stops, a pair *)
(* of them in either order, and one that only fits a shortened stay.       *)
(***************************************************************************)
EXTENDS RoutePlan, TLC

CONSTANTS p1, p2

Offer(stops, impact) == [stops |-> stops, impact |-> impact]

MCOffers ==
    {Offer(<<>>, "FITS"), Offer(<<p1>>, "SQUEEZES"),
     Offer(<<p1, p2>>, "FITS"), Offer(<<p2, p1>>, "FITS")}
=============================================================================
