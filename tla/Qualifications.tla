--------------------------- MODULE Qualifications ---------------------------
(***************************************************************************)
(* Qualification results (src/src/services/qualification.py, its API and   *)
(* the dashboard): the verdict of the rules, stored as a new row by every  *)
(* evaluation, and the reviews by which people overrule it.  A review      *)
(* reads the row, and its UPDATE names only the columns that differ from   *)
(* what it has read: nothing is locked in between.  Scores are in points,  *)
(* confidence in ten-thousandths, time in days.                            *)
(***************************************************************************)
EXTENDS Integers, Sequences
LOCAL INSTANCE SequencesExt

CONSTANTS
    Workers,      \* processes that serve requests
    Facts,        \* what is known of a restaurant when it is evaluated
    Expiry,       \* days a qualification lasts
    None,         \* a column that is not set
    MaxDay,       \* bound: the last day
    MaxResults,   \* bound: rows of qualification_results
    MaxReviews    \* bound: reviews

\* Without a scored row the restaurant's listing tells independence and reviews.
\* The scoring task leaves the number of platforms at 0.
Fact == [scored : BOOLEAN, score : 0..100, delivery : BOOLEAN, platforms : 0..3,
         independent : BOOLEAN, reviews : Nat]

QualificationAssumption ==
    /\ Facts \subseteq Fact
    /\ Expiry \in Nat \ {0} /\ MaxDay \in Nat /\ None \notin Int
    /\ MaxResults \in Nat /\ MaxReviews \in Nat

VARIABLES
    day,       \* today
    results,   \* rows of qualification_results, in the order of their commits
    txn        \* the open transaction of each worker

vars == <<day, results, txn>>

Statuses  == {"qualified", "needs_review", "not_qualified"}
Decisions == {"approved", "rejected"}
\* reviews: those committed, in order; seen: how many a review had read.
Result == [confidence : 0..10000, status : Statuses, decision : Decisions \cup {None},
           qualified : Nat \cup {None}, expires : Nat \cup {None},
           reviews : Seq([decision : Decisions, seen : Nat])]

NoTxn == [pc |-> "idle"]

Init ==
    /\ day = 0
    /\ results = <<>>
    /\ txn = [w \in Workers |-> NoTxn]

Step(w, t) == txn' = [txn EXCEPT ![w] = t]

Tomorrow ==
    /\ day < MaxDay
    /\ day' = day + 1
    /\ UNCHANGED <<results, txn>>

-----------------------------------------------------------------------------
ScoreSignal(f)        == IF f.scored THEN 35 * f.score ELSE 0
DeliverySignal(f)     == IF f.scored /\ f.delivery THEN (2000 * f.platforms + 1) \div 3 ELSE 0
IndependenceSignal(f) == IF f.independent THEN 2500 ELSE 0
ReviewSignal(f)       == IF f.reviews >= 200 THEN 2000 ELSE 10 * f.reviews

Confidence(f) == ScoreSignal(f) + DeliverySignal(f) + IndependenceSignal(f) + ReviewSignal(f)

Verdict(confidence) ==
    CASE confidence >= 7000         -> "qualified"
      [] confidence \in 4500..6999  -> "needs_review"
      [] confidence < 4500          -> "not_qualified"

Evaluated(f) ==
    LET status == Verdict(Confidence(f))
    IN  [confidence |-> Confidence(f), status |-> status, decision |-> None,
         qualified |-> IF status = "qualified" THEN day ELSE None,
         expires |-> IF status = "qualified" THEN day + Expiry ELSE None,
         reviews |-> <<>>]

\* One restaurant, from the API, the dashboard, the agent or the task; or a
\* batch: the results of a request are committed together.
BeginEvaluate(w) ==
    /\ txn[w].pc = "idle"
    /\ \E f \in Facts : Step(w, [pc |-> "insert", rows |-> <<Evaluated(f)>>])
    /\ UNCHANGED <<day, results>>

EvaluateMore(w) ==
    /\ txn[w].pc = "insert"
    /\ Len(txn[w].rows) < MaxResults
    /\ \E f \in Facts : Step(w, [pc |-> "insert", rows |-> Append(txn[w].rows, Evaluated(f))])
    /\ UNCHANGED <<day, results>>

CommitEvaluate(w) ==
    /\ txn[w].pc = "insert"
    /\ Len(results) + Len(txn[w].rows) <= MaxResults
    /\ results' = results \o txn[w].rows
    /\ Step(w, NoTxn)
    /\ UNCHANGED day

-----------------------------------------------------------------------------
ApprovedOnly(decision) == "qualified"    \* wrong on purpose

\* What a review makes of the row it has read.
NewStatus(decision) == IF decision = "approved" THEN "qualified" ELSE "not_qualified"

DatesKept(decision, row) == decision = "approved" /\ row.qualified # None   \* wrong on purpose

\* A row that was qualified before keeps its dates.
DatesSet(decision, row) == decision = "approved" /\ row.qualified = None

BeginReview(w) ==
    /\ txn[w].pc = "idle"
    /\ FoldLeft(LAMBDA n, row : n + Len(row.reviews), 0, results) < MaxReviews
    /\ \E i \in DOMAIN results, decision \in Decisions :
          Step(w, [pc |-> "review", result |-> i, decision |-> decision,
                   read |-> results[i].status, dated |-> DatesSet(decision, results[i]),
                   day |-> day, seen |-> Len(results[i].reviews)])
    /\ UNCHANGED <<day, results>>

\* The status is in the UPDATE only if it differs from the one that was read.
CommitReview(w) ==
    LET t == txn[w]
        row == results[t.result]
        status == NewStatus(t.decision)
    IN  /\ t.pc = "review"
        /\ results' = [results EXCEPT ![t.result] =
              [row EXCEPT
                 !.status    = IF status = t.read THEN row.status ELSE status,
                 !.decision  = t.decision,
                 !.qualified = IF t.dated THEN t.day ELSE row.qualified,
                 !.expires   = IF t.dated THEN t.day + Expiry ELSE row.expires,
                 !.reviews   = Append(row.reviews, [decision |-> t.decision, seen |-> t.seen])]]
        /\ Step(w, NoTxn)
        /\ UNCHANGED day

\* An error or a crash.
Rollback(w) ==
    /\ txn[w].pc # "idle"
    /\ Step(w, NoTxn)
    /\ UNCHANGED <<day, results>>

Next ==
    \/ Tomorrow
    \/ \E w \in Workers :
          \/ BeginEvaluate(w) \/ EvaluateMore(w) \/ CommitEvaluate(w)
          \/ BeginReview(w) \/ CommitReview(w)
          \/ Rollback(w)

Spec == Init /\ [][Next]_vars

-----------------------------------------------------------------------------
TypeOK ==
    /\ day \in 0..MaxDay
    /\ results \in Seq(Result)
    /\ \A w \in Workers : txn[w].pc \in {"idle", "insert", "review"}

\* A result says what its reviewers said: its status is that of the last
\* decision, or the verdict of its confidence when there is none; a decision
\* that stands beside the opposite status comes from two reviews that
\* overlapped.  And a qualified result always carries the day it was qualified
\* and expires so many days later (services/qualification.py,
\* review_qualification).
ReviewsTellStatus ==
    \A i \in DOMAIN results :
        LET row == results[i]
            n   == Len(row.reviews)
        IN  /\ n = 0 => row.status = Verdict(row.confidence)
            /\ n > 0 => \/ row.status = NewStatus(row.reviews[n].decision)
                        \/ row.reviews[n].seen < n - 1
            /\ row.status = "qualified" => row.qualified # None
            /\ row.qualified # None => row.expires = row.qualified + Expiry

=============================================================================
