---------------------------- MODULE MCBackOffice ----------------------------
(***************************************************************************)
(* Eleven services that share no rows, each on a small instance, one at a  *)
(* time.  One restaurant is there to be scored, and another is found later;*)
(* the profile begins without the density signal.                          *)
(***************************************************************************)
EXTENDS BackOffice, TLC

CONSTANTS w1, w2, r3, r4, l1, l2, l3, l4, l5

MCWorkers     == {w1, w2}
\* Enough leads for two of three variants.
MCVariantOf   == (l1 :> "A") @@ (l2 :> "A") @@ (l3 :> "B") @@ (l4 :> "B") @@ (l5 :> "C")
MCValues      == {<<"string", "a">>, <<"int", "1">>}
MCRaw         == (r3 :> [volume |-> 70, density |-> 50]) @@ (r4 :> [volume |-> 20, density |-> 50])
MCConfigs     == {[volume |-> 6000, density |-> None], [volume |-> 4900, density |-> 1000]}
MCRules       == {[signal |-> "volume", type |-> "threshold", min |-> 50, max |-> 0,
                   expected |-> FALSE, points |-> -90]}
MCStageMap    == [buy |-> "qualified", won |-> "won", other |-> None]
MCContexts    == {{"zip_codes"}, {"zip_codes", "restaurant_id", "lead_id"},
                  {"zip_codes", "restaurant_id", "lead_id", "handoff"}}
MCMetrics     == {[sends |-> 100, bounces |-> 10, complaints |-> 2, before |-> 50],
                  [sends |-> 0, bounces |-> 0, complaints |-> 0, before |-> 11]}

Interchangeable == Permutations(MCWorkers)

\* The services that do not run begin in one way.
MCInit ==
    /\ Init
    /\ profile.weights["density"] = None
    /\ present = IF service = "scoring" THEN {r3} ELSE {}
    /\ service # "crm" => column = "stage"
    /\ service # "health" => writes[1].to = "active"
    /\ service # "clients" => client.scopes = {}

MCSpec == MCInit /\ [][Next]_vars

=============================================================================
