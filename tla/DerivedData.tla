---------------------------- MODULE DerivedData ----------------------------
(***************************************************************************)
(* The crawls of many sources and what is made of restaurants: clusters,   *)
(* scores, qualifications, a graph and the engagement of their leads.      *)
(* These share no rows, one of them runs: what holds of one does not       *)
(* depend on the others.  The clusters are those of ClusterExpansion.      *)
(***************************************************************************)
EXTENDS ClusterExpansion

CONSTANTS
    None,
    Jobs, Kind, Sources, Addressed, MaxFaults,                   \* CrawlJobs
    Rated, Close, MinCluster, Known, Logs, MaxChanges,           \* IcpScores
    Facts, Expiry, MaxDay, MaxResults, MaxReviews,               \* Qualifications
    Merchants, Areas, TypeOf, Related, MaxPeers, MaxBuilds,      \* MerchantGraph
    Leads, Tokens, LeadOf, Targeted, MaxVisits,                  \* Tracking
    MaxSignals, MaxRuns                                          \* EngagementScores

VARIABLES service,
    jobs, age, restaurants, copies, pc, src, nth, loaded, held, faults,   \* CrawlJobs
    facts, scores, changes, scoreTxn,                            \* IcpScores
    day, results, reviewTxn,                                     \* Qualifications
    entities, edges, apart, limited, builds, graphTxn,           \* MerchantGraph
    stored, queue, visits, visited, lost, reachable, seen, visitTxn,   \* Tracking
    events, activities, happened, score, last, runs, runTxn      \* EngagementScores

Crawls  == INSTANCE CrawlJobs WITH row <- jobs, rows <- restaurants, pos <- nth, tx <- held
Ratings == INSTANCE IcpScores WITH
              Restaurants <- Rated, Near <- Close, NoRow <- None, rows <- scores, txn <- scoreTxn
Reviews == INSTANCE Qualifications WITH txn <- reviewTxn
Graph   == INSTANCE MerchantGraph WITH Restaurants <- Merchants, Zips <- Areas, txn <- graphTxn
Links   == INSTANCE Tracking WITH targets <- reachable, events <- seen, txn <- visitTxn
Signals == INSTANCE EngagementScores WITH
              MaxChanges <- MaxSignals, changes <- happened, txn <- runTxn

ASSUME DerivedAssumption ==
    /\ Crawls!CrawlAssumption /\ Ratings!ScoreAssumption /\ Reviews!QualificationAssumption
    /\ Graph!GraphAssumption /\ Links!TrackingAssumption /\ Signals!EngagementAssumption

crawlVars  == <<jobs, age, restaurants, copies, pc, src, nth, loaded, held, faults>>
scoreVars  == <<facts, scores, changes, scoreTxn>>
reviewVars == <<day, results, reviewTxn>>
graphVars  == <<entities, edges, apart, limited, builds, graphTxn>>
linkVars   == <<stored, queue, visits, visited, lost, reachable, seen, visitTxn>>
signalVars == <<events, activities, happened, score, last, runs, runTxn>>
clusterVars == <<clusters, members, plans, targets, txn, commits, requests>>
allVars    == <<service, clusterVars, crawlVars, scoreVars, reviewVars, graphVars, linkVars,
                signalVars>>

Services == {"clusters", "crawls", "scores", "reviews", "graph", "links", "signals"}

DerivedInit ==
    /\ service \in Services
    /\ Init /\ Crawls!Init /\ Ratings!Init /\ Reviews!Init /\ Graph!Init /\ Links!Init
    /\ Signals!Init

ClusterStep ==
    /\ service = "clusters"
    /\ Next
    /\ UNCHANGED <<service, crawlVars, scoreVars, reviewVars, graphVars, linkVars, signalVars>>

CrawlsStep ==
    /\ service = "crawls"
    /\ Crawls!Next
    /\ UNCHANGED <<service, clusterVars, scoreVars, reviewVars, graphVars, linkVars, signalVars>>

ScoresStep ==
    /\ service = "scores"
    /\ Ratings!Next
    /\ UNCHANGED <<service, clusterVars, crawlVars, reviewVars, graphVars, linkVars, signalVars>>

ReviewsStep ==
    /\ service = "reviews"
    /\ Reviews!Next
    /\ UNCHANGED <<service, clusterVars, crawlVars, scoreVars, graphVars, linkVars, signalVars>>

GraphStep ==
    /\ service = "graph"
    /\ Graph!Next
    /\ UNCHANGED <<service, clusterVars, crawlVars, scoreVars, reviewVars, linkVars, signalVars>>

LinksStep ==
    /\ service = "links"
    /\ Links!Next
    /\ UNCHANGED <<service, clusterVars, crawlVars, scoreVars, reviewVars, graphVars, signalVars>>

SignalsStep ==
    /\ service = "signals"
    /\ Signals!Next
    /\ UNCHANGED <<service, clusterVars, crawlVars, scoreVars, reviewVars, graphVars, linkVars>>

DerivedNext ==
    \/ ClusterStep \/ CrawlsStep \/ ScoresStep \/ ReviewsStep
    \/ GraphStep \/ LinksStep \/ SignalsStep

DerivedSpec == DerivedInit /\ [][DerivedNext]_allVars

-----------------------------------------------------------------------------
\* The values of what is made of the clusters' restaurants have their types.
TypesOK ==
    /\ service = "crawls" => Crawls!TypeOK
    /\ service = "scores" => Ratings!TypeOK
    /\ service = "reviews" => Reviews!TypeOK
    /\ service = "graph" => Graph!TypeOK
    /\ service = "links" => Links!TypeOK
    /\ service = "signals" => Signals!TypeOK

\* A score tells what is known: better facts make no lower score, the columns of
\* a breakdown make its total, the engagement is that of the events, but for
\* what overlaps (scoring/icp_scorer.py, tasks/score_tasks.py,
\* tasks/engagement_tasks.py).
ScoresTellFacts ==
    /\ service = "scores" => Ratings!ScoreMonotone /\ Ratings!BreakdownTellsTotal
    /\ service = "signals" => Signals!ScoreTellsEvents

\* The status of a qualification is that of its reviews
\* (services/qualification.py, review_qualification).
ReviewsTellStatus == service = "reviews" => Reviews!ReviewsTellStatus

\* Restaurants that find each other are connected, whichever was built first
\* (services/merchant_graph.py, build_relationships_for_entity).
GraphLinksPeers == service = "graph" => Graph!GraphLinksPeers

\* What is found of a restaurant or a lead is stored as often as it was found:
\* a visit leaves one event, or was lost, or its lead erased
\* (tasks/tracking_tasks.py, log_tracker_event); a request for every source
\* keeps the records of a source once, whatever the others do
\* (api/routers/jobs.py, create_crawl_job).
FindingsAccounted ==
    /\ service = "links" => Links!VisitsAccounted
    /\ service = "crawls" => Crawls!JobTellsRecords /\ Crawls!CopiesAreFaults

=============================================================================
