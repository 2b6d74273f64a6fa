----------------------------- MODULE IcpScores ------------------------------
(***************************************************************************)
(* ICP scoring (src/src/scoring, the scoring task, the recalculation of    *)
(* the API, the rescore of the dashboard, the inline scoring of a crawl):  *)
(* signals of what the crawls have found, weighted, less the penalties.    *)
(* Signals are in ten-thousandths, scores in hundredths of a point.        *)
(*                                                                         *)
(* A scoring reads restaurants, then their source records, and upserts one *)
(* row per restaurant.  The task leaves out the cuisine and the price, and *)
(* writes only some of the columns.  Nothing passes communication events   *)
(* to a batch: that signal is None, and its weight of 0 is redistributed.  *)
(***************************************************************************)
EXTENDS Naturals, FiniteSets

CONSTANTS
    Workers,       \* processes that score
    Restaurants,   \* rows of restaurants
    Near,          \* pairs of restaurants within radius_km
    MinCluster,    \* min_cluster_size
    Known,         \* facts the crawls find in this instance
    Logs,          \* min(log10(n + 1) / 3, 1) of each number n of reviews
    NoRow,         \* a restaurant without a score
    MaxChanges     \* bound: changes of facts

\* Number of delivery platforms, rating under 4, from 4, from 4.5; number of
\* "$" of the price tier, 0 if unknown.
Platforms == 0..3
Ratings   == {"low", "good", "top"}
Prices    == 0..4
Cuisines  == {"unknown", "fine", "other"}
Pos       == {"none", "legacy", "unknown", "modern"}
Reviews   == DOMAIN Logs
Share     == 0..10000

\* What a restaurant's name and listing tell, and what its records tell.
Listing == [chain : BOOLEAN, reviews : Reviews, rating : Ratings,
            cuisine : Cuisines, price : Prices, located : BOOLEAN]
Records == [platforms : Platforms, pos : Pos]

ScoreAssumption ==
    /\ IsFiniteSet(Restaurants)
    /\ Near \subseteq Restaurants \X Restaurants
    /\ MinCluster \in Nat \ {0}
    /\ Reviews \subseteq Nat /\ Logs \in [Reviews -> Share]
    /\ \A m, n \in Reviews : m <= n => Logs[m] <= Logs[n]
    /\ Known \subseteq Listing \X Records
    /\ MaxChanges \in Nat

-----------------------------------------------------------------------------
Uncapped(x) == x    \* wrong on purpose
Capped(x)   == IF x > 10000 THEN 10000 ELSE x
AtLeast0(x, less) == IF x > less THEN x - less ELSE 0

IndependentSignal(l) == IF l.chain THEN 0 ELSE 10000

PlatformSignal(n) == CASE n = 0 -> 0 [] n = 1 -> 5000 [] n = 2 -> 7500 [] n = 3 -> 10000

PosSignal(p) ==
    CASE p = "none" -> 3000 [] p = "legacy" -> 5000 [] p = "unknown" -> 7000
      [] p = "modern" -> 10000

VolumeSignal(l) ==
    IF l.reviews = 0 THEN 0
    ELSE Capped(Logs[l.reviews] + IF l.rating = "low" THEN 0 ELSE 1000)

CuisineSignal(l) ==
    CASE l.cuisine = "unknown" -> 8000
      [] l.cuisine = "fine" \/ (l.cuisine = "other" /\ l.price = 4) -> 2000
      [] OTHER -> 10000

PriceSignal(l) ==
    CASE l.price \in {0, 1} -> 7000 [] l.price = 2 -> 10000
      [] l.price = 3 -> 5000 [] l.price = 4 -> 1000

EngagementGap(l) ==    \* wrong on purpose: no band from 100 to 199
    CASE l.reviews < 10 -> 1000 [] l.reviews \in 10..49 -> 4000 [] l.reviews \in 50..99 -> 6000
      [] l.reviews \in 100..199 -> 0 [] l.reviews >= 200 -> 10000

EngagementSignal(l) ==
    IF l.reviews < 10 THEN 1000
    ELSE Capped((CASE l.reviews >= 500 -> 10000 [] l.reviews \in 200..499 -> 8000
                   [] l.reviews \in 50..199 -> 6000 [] l.reviews < 50 -> 4000)
                + IF l.rating = "top" /\ l.reviews >= 100 THEN 1000 ELSE 0)

\* In points.
Penalty(l, n) ==
    (IF l.chain THEN 30 ELSE 0) + (IF CuisineSignal(l) <= 2000 THEN 15 ELSE 0)
    + (IF n = 0 THEN 20 ELSE 0) + (IF l.reviews < 10 THEN 10 ELSE 0)

Weighted(independent, platforms, pos, density, volume, cuisine, price, engagement) ==
    15 * independent + 20 * platforms + 12 * pos + 12 * density
    + 15 * volume + 10 * cuisine + 8 * price + 8 * engagement

\* round(max(0, sum - penalty), 2)
Total(l, s, density) ==
    (AtLeast0(Weighted(IndependentSignal(l), PlatformSignal(s.platforms), PosSignal(s.pos),
                       density, VolumeSignal(l), CuisineSignal(l), PriceSignal(l),
                       EngagementSignal(l)),
              10000 * Penalty(l, s.platforms)) + 50) \div 100

Label(total) ==
    CASE total >= 7500 -> "excellent"        [] total \in 5500..7499 -> "good"
      [] total \in 3500..5499 -> "moderate"  [] total < 3500 -> "poor"

\* Where volume_proxy is rounded to three digits.
Thousandths(x) == 10 * ((x + 5) \div 10)

-----------------------------------------------------------------------------
VARIABLES
    facts,     \* [Restaurants -> <<listing, records>>]: what the crawls stored
    rows,      \* icp_scores, at most one per restaurant
    txn,       \* the scoring each worker is in
    changes    \* changes of facts so far

vars == <<facts, rows, txn, changes>>

Breakdown == [count : Platforms, volume : 0..10000, cuisine : 0..10000, price : 0..10000,
              engagement : 0..10000, penalty : 0..75]
Row == [independent : BOOLEAN, platforms : Platforms, pos : Pos, density : 0..10000,
        total : 0..10000, label : {"excellent", "good", "moderate", "poor"},
        columns : Breakdown, task : BOOLEAN]

NoTxn == [pc |-> "idle", task |-> FALSE, listings |-> <<>>]
Txn   == [pc : {"idle", "records", "write"}, task : BOOLEAN]

Init ==
    /\ facts \in [Restaurants -> Known]
    /\ rows = [r \in Restaurants |-> NoRow]
    /\ txn = [w \in Workers |-> NoTxn]
    /\ changes = 0

\* A crawl stores what it has found: any of Known.
Learn(r) ==
    /\ changes < MaxChanges
    /\ changes' = changes + 1
    /\ \E f \in Known \ {facts[r]} : facts' = [facts EXCEPT ![r] = f]
    /\ UNCHANGED <<rows, txn>>

Begin(w, R, task) ==
    /\ txn[w].pc = "idle"
    /\ R # {}
    /\ txn' = [txn EXCEPT ![w] =
                 [pc |-> "records", task |-> task,
                  listings |-> [r \in R |->
                     IF task THEN [facts[r][1] EXCEPT !.cuisine = "unknown", !.price = 0]
                             ELSE facts[r][1]]]]
    /\ UNCHANGED <<facts, rows, changes>>

\* score_restaurants: the listed restaurants, or all of them.
BeginTask(w) == \E R \in SUBSET Restaurants : Begin(w, R, TRUE)

\* Those of a city, or all of them.
BeginRecalculate(w) == \E R \in SUBSET Restaurants : Begin(w, R, FALSE)

BeginRescore(w) == Begin(w, Restaurants, FALSE)

\* After a crawl: those without a score.
BeginInline(w) == Begin(w, {r \in Restaurants : rows[r] = NoRow}, FALSE)

\* The second read may see records the first did not.
ReadRecords(w) ==
    /\ txn[w].pc = "records"
    /\ txn' = [txn EXCEPT ![w] =
                 [pc |-> "write", task |-> txn[w].task, listings |-> txn[w].listings,
                  records |-> [r \in DOMAIN txn[w].listings |-> facts[r][2]]]]
    /\ UNCHANGED <<facts, rows, changes>>

Neighbors(R, r) == Cardinality({q \in R \ {r} : <<q, r>> \in Near})

\* Relative to the densest of the restaurants scored together; bonus: those
\* HDBSCAN puts in a cluster.
Density(R, bonus, r) ==
    LET max == CHOOSE n \in {Neighbors(R, q) : q \in R} :
                  \A q \in R : Neighbors(R, q) <= n
    IN  CASE r \notin R -> 0
          [] r \in R /\ Cardinality(R) < MinCluster -> 5000
          [] OTHER -> Capped((IF max = 0 THEN 0 ELSE (10000 * Neighbors(R, r)) \div max)
                             + IF r \in bonus THEN 1000 ELSE 0)

NewBreakdown(l, s) ==
    [count |-> s.platforms, volume |-> Thousandths(VolumeSignal(l)),
     cuisine |-> CuisineSignal(l), price |-> PriceSignal(l),
     engagement |-> EngagementSignal(l), penalty |-> Penalty(l, s.platforms)]

\* The defaults of the columns the task does not name.
Unset == [count |-> 0, volume |-> 0, cuisine |-> 10000, price |-> 7000,
          engagement |-> 3000, penalty |-> 0]

KeepColumns(task, r, l, s) ==    \* wrong on purpose: every update leaves them
    IF rows[r] # NoRow THEN rows[r].columns
    ELSE IF task THEN Unset ELSE NewBreakdown(l, s)

\* The columns ON CONFLICT DO UPDATE sets, and those it leaves.
Columns(task, r, l, s) ==
    IF ~task THEN NewBreakdown(l, s)
    ELSE IF rows[r] = NoRow THEN Unset ELSE rows[r].columns

Upsert(r, l, s, density, task) ==
    [independent |-> ~l.chain, platforms |-> s.platforms, pos |-> s.pos,
     density |-> density, total |-> Total(l, s, density),
     label |-> Label(Total(l, s, density)),
     columns |-> Columns(task, r, l, s), task |-> task]

Write(w) ==
    LET t       == txn[w]
        scored  == DOMAIN t.listings
        located == {r \in scored : t.listings[r].located}
    IN  /\ t.pc = "write"
        /\ \E bonus \in SUBSET IF Cardinality(located) < MinCluster THEN {} ELSE located :
              rows' = [r \in Restaurants |->
                 IF r \notin scored THEN rows[r]
                 ELSE Upsert(r, t.listings[r], t.records[r],
                             Density(located, bonus, r), t.task)]
        /\ txn' = [txn EXCEPT ![w] = NoTxn]
        /\ UNCHANGED <<facts, changes>>

\* An error, or two scorings that lock the rows in opposite orders.
Rollback(w) ==
    /\ txn[w].pc # "idle"
    /\ txn' = [txn EXCEPT ![w] = NoTxn]
    /\ UNCHANGED <<facts, rows, changes>>

Next ==
    \/ \E r \in Restaurants : Learn(r)
    \/ \E w \in Workers :
          \/ BeginTask(w) \/ BeginRecalculate(w) \/ BeginRescore(w) \/ BeginInline(w)
          \/ ReadRecords(w) \/ Write(w) \/ Rollback(w)

Spec == Init /\ [][Next]_vars

-----------------------------------------------------------------------------
TypeOK ==
    /\ facts \in [Restaurants -> Known]
    /\ \A r \in Restaurants : rows[r] # NoRow => rows[r] \in Row
    /\ \A w \in Workers :
          /\ [pc |-> txn[w].pc, task |-> txn[w].task] \in Txn
          /\ txn[w].pc # "idle" => \A r \in DOMAIN txn[w].listings :
                                       txn[w].listings[r] \in Listing
          /\ txn[w].pc = "write" => txn[w].records \in [DOMAIN txn[w].listings -> Records]
    /\ changes \in 0..MaxChanges

\* A better lead never scores less: a restaurant that is no chain, is on more
\* platforms, has more reviews, a higher rating or a newer POS than another
\* like it scores at least as high, across every threshold, bonus, cap and
\* penalty (src/src/scoring/signals.py and icp_scorer.py, score_restaurant).
Rank(v) ==
    CASE v \in {"none", "low"} -> 0 [] v \in {"legacy", "good"} -> 1
      [] v \in {"unknown", "top"} -> 2 [] v = "modern" -> 3
MonotoneAt(density) ==
    \A l \in Listing, s \in Records :
        LET total == Total(l, s, density)
        IN  /\ Total([l EXCEPT !.chain = FALSE], s, density) >= total
            /\ \A n \in Platforms : n > s.platforms =>
                  Total(l, [s EXCEPT !.platforms = n], density) >= total
            /\ \A p \in Pos : Rank(p) > Rank(s.pos) =>
                  Total(l, [s EXCEPT !.pos = p], density) >= total
            /\ \A n \in Reviews : n > l.reviews =>
                  Total([l EXCEPT !.reviews = n], s, density) >= total
            /\ \A v \in Ratings : Rank(v) > Rank(l.rating) =>
                  Total([l EXCEPT !.rating = v], s, density) >= total
\* TLC evaluates it at two densities; it is proved for every one.
ScoreMonotone == \A density \in {0, 5000} : MonotoneAt(density)

\* The breakdown the score API shows adds up to the stored total, to the
\* rounding of the columns, for every row a scoring other than the task wrote
\* last, whatever wrote it before (api/routers/scores.py, recalculate_scores;
\* tasks/score_tasks.py, score_restaurants).
Sum(row) ==
    (AtLeast0(Weighted(IF row.independent THEN 10000 ELSE 0, PlatformSignal(row.columns.count),
                       PosSignal(row.pos), row.density, row.columns.volume,
                       row.columns.cuisine, row.columns.price, row.columns.engagement),
              10000 * row.columns.penalty) + 50) \div 100
BreakdownTellsTotal ==
    \A r \in Restaurants :
        rows[r] # NoRow /\ ~rows[r].task =>
            Sum(rows[r]) \in {rows[r].total - 1, rows[r].total, rows[r].total + 1}

=============================================================================
