------------------------ MODULE MCProspectPromotion ------------------------
(* Two requests that promote the same restaurants in opposite orders.      *)
EXTENDS ProspectPromotion, TLC

CONSTANTS q1, q2, r1, r2, ghost, c1

\* ghost is an id without a restaurant.
Crossed  == q1 :> <<r1, ghost, r2>> @@ q2 :> <<r2, r1>>
Single   == q1 :> <<r1>> @@ q2 :> <<r1>>

MCCampaign == q1 :> c1 @@ q2 :> None
============================================================================
