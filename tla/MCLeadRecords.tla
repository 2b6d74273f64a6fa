---------------------------- MODULE MCLeadRecords ----------------------------
(* A small instance of LeadRecords: two people whose companies match one     *)
(* restaurant, one of them for certain.                                      *)
EXTENDS LeadRecords, TLC

CONSTANTS ann, bob, x1

MCMatches == ann :> x1 @@ bob :> x1

RequestSymmetry == Permutations(Requests)
=============================================================================
