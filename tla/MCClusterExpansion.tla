------------------------- MODULE MCClusterExpansion -------------------------
(***************************************************************************)
(* The crawls and what is made of restaurants, each on a small instance,   *)
(* one at a time.                                                          *)
(***************************************************************************)
EXTENDS DerivedData, TLC

CONSTANTS w1, w2, r1, r2, r3, r4

MCWorkers == {w1, w2}
Interchangeable == Permutations(MCWorkers)

Dist(a, b) == IF a > b THEN a - b ELSE b - a

\* Restaurants on a street; the radius is one block, the reach one and a half
\* from the middle of the group.
Place  == (r1 :> 1) @@ (r2 :> 2) @@ (r3 :> 3) @@ (r4 :> 3)
All    == {r1, r2, r3, r4}
NearBy == {e \in All \X All : Dist(Place[e[1]], Place[e[2]]) <= 1}
SumOf[S \in SUBSET All] ==
    IF S = {} THEN 0 ELSE LET r == CHOOSE r \in S : TRUE IN Place[r] + SumOf[S \ {r}]
Reach  == [S \in SUBSET All |->
              {r \in All : 2 * Dist(Cardinality(S) * Place[r], SumOf[S]) <= 3 * Cardinality(S)}]
MCZips == {All}
Scores == (r1 :> 60) @@ (r2 :> 80) @@ (r3 :> 80) @@ (r4 :> 90)

\* Where a signal or a penalty changes.
MCLogs  == (0 :> 0) @@ (9 :> 3333) @@ (10 :> 3471) @@ (50 :> 5692) @@ (100 :> 6681)
           @@ (200 :> 7677) @@ (500 :> 8999) @@ (1000 :> 10000)
MCKnown == {<<[chain |-> FALSE, reviews |-> 200, rating |-> "top", cuisine |-> "other",
               price |-> 2, located |-> TRUE], [platforms |-> 2, pos |-> "modern"]>>,
            <<[chain |-> FALSE, reviews |-> 9, rating |-> "good", cuisine |-> "other",
               price |-> 4, located |-> TRUE], [platforms |-> 0, pos |-> "none"]>>}
\* One that passes the rules, one in doubt, one without a score.
MCFacts == {[scored |-> TRUE, score |-> 80, delivery |-> TRUE, platforms |-> 2,
             independent |-> TRUE, reviews |-> 200],
            [scored |-> TRUE, score |-> 50, delivery |-> TRUE, platforms |-> 0,
             independent |-> TRUE, reviews |-> 40],
            [scored |-> FALSE, score |-> 0, delivery |-> FALSE, platforms |-> 0,
             independent |-> TRUE, reviews |-> 100]}
\* r1 and r2 share a zip code; r3 has the cuisine of r1 only as its third.
\* r1 is in both of its sources; r3 has no address; the city has no ZIP codes.
MCKind    == [every |-> "all", task |-> "celery", city |-> "city"]
MCSources == [every |-> <<<<r1>>, <<r3, r1>>>>, task |-> <<<<r1, r2>>>>, city |-> <<>>]
MCTypes   == <<"same_neighborhood", "same_cuisine">>
MCRelated == <<{r1, r2} \X {r1, r2} \cup {<<r3, r3>>},
               ({r1, r2, r3} \X {r1, r2, r3}) \ {<<r3, r1>>}>>
MCJobs    == {"every", "task", "city"}
MCAreas   == {{r1, r2}, {r3}}
MCClose   == {<<r1, r2>>, <<r2, r1>>}
MCLeadOf  == <<"ann", "bob", "ann">>

\* The services that do not run begin in one way; the two restaurants that are
\* scored are alike but for their facts.
MCInit ==
    /\ DerivedInit
    /\ service = "scores" => facts[r1][1].reviews >= facts[r2][1].reviews
    /\ service # "scores" => \A r \in {r1, r2} : facts[r][1].reviews = 9

MCSpec == MCInit /\ [][DerivedNext]_allVars

=============================================================================
