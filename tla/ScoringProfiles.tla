-------------------------- MODULE ScoringProfiles ---------------------------
(***************************************************************************)
(* Configurable scoring (src/src/services/scoring_engine.py and its API)   *)
(* and the feedback loop that adjusts the weights of a profile             *)
(* (src/src/services/feedback_loop.py): one profile, its rules, its        *)
(* numbered snapshots, the explanations it gives restaurants, and batch    *)
(* recalculations, while crawls add restaurants.  Nothing is locked by a   *)
(* read, and no unique key covers explanations or version numbers.  Raw    *)
(* values of signals are in hundredths; weights and scores in hundredths   *)
(* of a point.  Links of a profile to markets are left out: no code reads  *)
(* them to score.                                                          *)
(***************************************************************************)
EXTENDS Integers, Sequences, FiniteSets, SequencesExt

CONSTANTS
    Workers,        \* processes that serve requests
    Restaurants,    \* restaurants that may be found
    Signals,        \* the signals of the profile
    Lazy,           \* the density signal: reading it loads a related row lazily
    Raw,            \* what each signal gives for each restaurant, 0..100
    Configs,        \* weights the profile is given by hand; Off: not enabled
    Off,
    RuleChoices,    \* rules that may be added
    Converted,      \* restaurants with a conversion in the period; the others
                    \* were discovered in it
    Gone,           \* a deleted profile
    MaxVersions,    \* bound: snapshots
    MaxJobs         \* bound: recalculations, and single scorings

ProfileAssumption ==
    /\ IsFiniteSet(Restaurants) /\ IsFiniteSet(Signals)
    /\ Lazy \subseteq Signals /\ Converted \subseteq Restaurants
    /\ Raw \in [Restaurants -> [Signals -> 0..100]]
    /\ Off \notin Int
    /\ Configs \subseteq [Signals -> Int \cup {Off}]
    /\ RuleChoices \subseteq [signal : Signals, type : {"threshold", "range", "boolean", "custom"},
                              min : 0..100, max : 0..100, expected : BOOLEAN, points : Int]
    /\ MaxVersions \in Nat /\ MaxJobs \in Nat

VARIABLES
    profile,        \* its version and the weights of its signals, or Gone
    rules,          \* rows of scoring_rules
    versions,       \* rows of score_versions, in the order of their commits
    explanations,   \* rows of score_explanations
    jobs,           \* rows of score_recalc_jobs
    present,        \* rows of restaurants
    txn,            \* the open transaction of each worker
    begun           \* scorings and recalculations begun

db   == <<profile, rules, versions, explanations, jobs, present>>
vars == <<db, txn, begun>>

Weights == [Signals -> Int \cup {Off}]
\* seen: the snapshots committed when the profile was read; wrote: the weights
\* were written.
Version == [number : Nat, changed : SUBSET Signals, weights : Weights, seen : Nat,
            wrote : BOOLEAN]
\* seen: the explanations committed when the restaurant's was looked up.
Explanation == [restaurant : Restaurants, total : 0..10000, seen : Nat]
\* listed: the restaurants the job has gone through.
Job == [status : {"completed", "failed"}, total : Nat, processed : Nat,
        listed : SUBSET Restaurants, lazy : BOOLEAN]

NoTxn == [pc |-> "idle"]

Init ==
    /\ \E c \in Configs : profile = [version |-> 1, weights |-> c]
    /\ rules = {}
    /\ versions = <<>>
    /\ explanations = <<>>
    /\ jobs = <<>>
    /\ present \in SUBSET Restaurants
    /\ txn = [w \in Workers |-> NoTxn]
    /\ begun = 0

Step(w, t) == txn' = [txn EXCEPT ![w] = t]

SameVersion == profile.version    \* wrong on purpose

NextVersion == profile.version + 1

-----------------------------------------------------------------------------
\* What the rules add to a signal, in points.
Applies(rule, raw) ==
    CASE rule.type = "threshold" -> raw >= rule.min
      [] rule.type = "range"     -> rule.min <= raw /\ raw <= rule.max
      [] rule.type = "boolean"   -> (raw > 50) = rule.expected
      [] rule.type = "custom"    -> TRUE
Bonus(R, signal, raw) ==
    SumFunction([rule \in {q \in R : q.signal = signal /\ Applies(q, raw)} |-> rule.points])

\* round(max(0, min(total, 100)), 2)
Total(weights, R, r) ==
    LET sum == SumFunction([s \in Signals |->
                  IF weights[s] = Off THEN 0
                  ELSE weights[s] * Raw[r][s] + 10000 * Bonus(R, s, Raw[r][s])])
    IN  IF sum <= 0 THEN 0 ELSE IF sum >= 100 * 10000 THEN 10000 ELSE (sum + 50) \div 100

Rows(r) == {i \in DOMAIN explanations : explanations[i].restaurant = r}

-----------------------------------------------------------------------------
\* The signals of the request, a new flag, or nothing new: nothing changes then.
BeginUpdate(w) ==
    /\ txn[w].pc = "idle" /\ profile # Gone
    /\ \/ \E c \in Configs :
             Step(w, [pc |-> "update", number |-> NextVersion, changed |-> Signals,
                      weights |-> c, read |-> profile.weights, seen |-> Len(versions)])
       \/ Step(w, [pc |-> "update", number |-> NextVersion, changed |-> {},
                   weights |-> profile.weights, read |-> profile.weights,
                   seen |-> Len(versions)])
    /\ UNCHANGED <<db, begun>>

\* The average over explanations, one weight per row.
Mean(R, s) ==
    LET rows == {i \in DOMAIN explanations : explanations[i].restaurant \in R}
    IN  IF rows = {} THEN 0
        ELSE MapThenSumSet(LAMBDA i : Raw[explanations[i].restaurant][s], rows)
                \div Cardinality(rows)

\* In proportion to the difference, by at most three points.
Adjustment(delta) ==
    CASE delta > 60              -> 300
      [] delta < -60             -> -300
      [] delta \in (-60)..(-6) \cup 6..60 -> 5 * delta
      [] OTHER                   -> 0

\* suggest_weight_adjustments, in a request of its own.
Suggest(w) ==
    /\ txn[w].pc = "idle" /\ profile # Gone
    /\ Converted # {}
    /\ \E s \in {q \in Signals : profile.weights[q] # Off} :
          Step(w, [pc |-> "suggested", signal |-> s,
                   weight |-> profile.weights[s]
                      + Adjustment(Mean(Converted, s) - Mean(Restaurants \ Converted, s))])
    /\ UNCHANGED <<db, begun>>

\* What is applied to the weights as they are by then.
Adjusted(t) == [profile.weights EXCEPT ![t.signal] = t.weight]

Acceptable == 0..5000    \* the request refuses other weights

\* apply_adjustments
BeginApply(w) ==
    LET t == txn[w]
    IN  /\ t.pc = "suggested" /\ profile # Gone
        /\ t.weight \in Acceptable
        /\ profile.weights[t.signal] # Off
        /\ Step(w, [pc |-> "update", number |-> NextVersion, changed |-> {t.signal},
                    weights |-> Adjusted(t), read |-> profile.weights,
                    seen |-> Len(versions)])
        /\ UNCHANGED <<db, begun>>

\* One column holds all the weights; it is not in the UPDATE when it is equal to
\* the one that was read.
Writes(t) == t.weights # t.read

CommitUpdate(w) ==
    LET t == txn[w]
    IN  /\ t.pc = "update" /\ profile # Gone
        /\ Len(versions) < MaxVersions
        /\ profile' = [version |-> t.number,
                       weights |-> IF Writes(t) THEN t.weights ELSE profile.weights]
        /\ versions' = Append(versions, [number |-> t.number, changed |-> t.changed,
                                         weights |-> t.weights, seen |-> t.seen,
                                         wrote |-> Writes(t)])
        /\ Step(w, NoTxn)
        /\ UNCHANGED <<rules, explanations, jobs, present, begun>>

AddRule(w) ==
    /\ txn[w].pc = "idle" /\ profile # Gone
    /\ \E rule \in RuleChoices \ rules : rules' = rules \cup {rule}
    /\ UNCHANGED <<profile, versions, explanations, jobs, present, txn, begun>>

\* Refused by the foreign keys of explanations and jobs; those of an open
\* recalculation make it wait.
Delete(w) ==
    /\ txn[w].pc = "idle" /\ profile # Gone
    /\ explanations = <<>> /\ jobs = <<>>
    /\ \A v \in Workers : txn[v].pc \notin {"list", "recalculate"}
    /\ profile' = Gone
    /\ rules' = {}
    /\ versions' = <<>>
    /\ UNCHANGED <<explanations, jobs, present, txn, begun>>

\* A crawl stores a restaurant; nothing deletes one.
AddRestaurant ==
    /\ \E r \in Restaurants \ present : present' = present \cup {r}
    /\ UNCHANGED <<profile, rules, versions, explanations, jobs, txn, begun>>

-----------------------------------------------------------------------------
\* evaluate_restaurant finds no row, or one; it raises when there are two, and
\* when an enabled signal loads a row lazily.
Raises(weights, r) ==
    \/ Cardinality(Rows(r)) > 1
    \/ \E s \in Lazy : weights[s] # Off
Evaluated(weights, r) ==
    [row |-> Rows(r), restaurant |-> r, total |-> Total(weights, rules, r),
     seen |-> Len(explanations)]

\* What the API scores; an exception is answered by an error.
BeginScore(w) ==
    /\ txn[w].pc = "idle" /\ profile # Gone
    /\ begun < MaxJobs
    /\ begun' = begun + 1
    /\ \E r \in present :
          /\ ~Raises(profile.weights, r)
          /\ Step(w, [pc |-> "score", done |-> {Evaluated(profile.weights, r)}])
    /\ UNCHANGED db

\* The upsert: updates of rows that were found, inserts of the others, in any
\* order of the scan.
Updated(done) ==
    [i \in DOMAIN explanations |->
        IF \E e \in done : e.row = {i}
        THEN [restaurant |-> explanations[i].restaurant,
              total |-> (CHOOSE e \in done : e.row = {i}).total,
              seen |-> explanations[i].seen]
        ELSE explanations[i]]

Inserted(done) ==
    {[restaurant |-> e.restaurant, total |-> e.total, seen |-> e.seen] :
        e \in {d \in done : d.row = {}}}

Skipped(done) == Updated(done)    \* wrong on purpose: adds no rows

Stored(done) == Updated(done) \o SetToSeq(Inserted(done))

CommitScore(w) ==
    /\ txn[w].pc = "score" /\ profile # Gone
    /\ explanations' = Stored(txn[w].done)
    /\ Step(w, NoTxn)
    /\ UNCHANGED <<profile, rules, versions, jobs, present, begun>>

\* recalculate_batch reads the profile once and the rules for every restaurant;
\* it counts the restaurants, adds its job and then lists them.
BeginRecalculate(w) ==
    /\ txn[w].pc = "idle" /\ profile # Gone
    /\ begun < MaxJobs
    /\ begun' = begun + 1
    /\ Step(w, [pc |-> "list", weights |-> profile.weights, total |-> Cardinality(present)])
    /\ UNCHANGED db

ListRestaurants(w) ==
    LET t == txn[w]
    IN  /\ t.pc = "list"
        /\ Step(w, [pc |-> "recalculate", weights |-> t.weights, total |-> t.total,
                    listed |-> present, left |-> present, done |-> {}])
        /\ UNCHANGED <<db, begun>>

EvaluateNext(w) ==
    LET t == txn[w]
    IN  /\ t.pc = "recalculate"
        /\ \E r \in t.left :
              /\ ~Raises(t.weights, r)
              /\ Step(w, [t EXCEPT !.left = t.left \ {r},
                                   !.done = t.done \cup {Evaluated(t.weights, r)}])
        /\ UNCHANGED <<db, begun>>

\* At the end, or at the first restaurant that raises: what was scored before
\* is stored as well.
FinishRecalculate(w) ==
    LET t == txn[w]
        failed == \E r \in t.left : Raises(t.weights, r)
    IN  /\ t.pc = "recalculate"
        /\ failed \/ t.left = {}
        /\ explanations' = Stored(t.done)
        /\ jobs' = Append(jobs, [status |-> IF failed THEN "failed" ELSE "completed",
                                 total |-> t.total, processed |-> Cardinality(t.done),
                                 listed |-> t.listed,
                                 lazy |-> \E s \in Lazy : t.weights[s] # Off])
        /\ Step(w, NoTxn)
        /\ UNCHANGED <<profile, rules, versions, present, begun>>

\* A database error or a crash: after an error the transaction is aborted, so
\* the failed status of a recalculation cannot be written and its job is gone.
Rollback(w) ==
    /\ txn[w].pc # "idle"
    /\ Step(w, NoTxn)
    /\ UNCHANGED <<db, begun>>

Next ==
    \/ AddRestaurant
    \/ \E w \in Workers :
          \/ BeginUpdate(w) \/ Suggest(w) \/ BeginApply(w) \/ CommitUpdate(w)
          \/ AddRule(w) \/ Delete(w)
          \/ BeginScore(w) \/ CommitScore(w)
          \/ BeginRecalculate(w) \/ ListRestaurants(w) \/ EvaluateNext(w)
          \/ FinishRecalculate(w)
          \/ Rollback(w)

Spec == Init /\ [][Next]_vars

-----------------------------------------------------------------------------
TypeOK ==
    /\ profile = Gone \/ profile \in [version : Nat, weights : Weights]
    /\ rules \subseteq RuleChoices
    /\ versions \in Seq(Version)
    /\ explanations \in Seq(Explanation)
    /\ jobs \in Seq(Job)
    /\ present \subseteq Restaurants
    /\ \A w \in Workers : txn[w].pc \in {"idle", "update", "suggested", "score", "list",
                                         "recalculate"}
    /\ begun \in 0..MaxJobs

\* Changes of a profile that do not overlap get numbers that grow and are not
\* undone: a number that an earlier snapshot has reached already comes from a
\* change since then that overlapped another, and a weight that is no longer
\* what the last snapshot naming it says from a change that was written since
\* and had read the profile before, or the snapshot gives the weights it had
\* read, which were not written, over another change
\* (api/routers/scoring_engine.py, update_profile; services/feedback_loop.py,
\* apply_adjustments).
VersionsExplained ==
    /\ \A i, j \in DOMAIN versions :
          i < j /\ versions[j].number <= versions[i].number
             => \E k \in i + 1..j : versions[k].seen < k - 1
    /\ \A i \in DOMAIN versions, s \in Signals :
          /\ s \in versions[i].changed
          /\ profile.weights[s] # versions[i].weights[s]
          => \/ ~versions[i].wrote /\ versions[i].seen < i - 1
             \/ \E j \in i + 1..Len(versions) :
                   versions[j].wrote /\ (s \in versions[j].changed \/ versions[j].seen < i)

\* A job says completed only when every restaurant it listed has its
\* explanation, as many as it has processed and no fewer than it had counted,
\* whatever crawls add in between; and a job fails only because the profile uses
\* a signal that loads lazily or because a restaurant has two explanations,
\* which two scorings gave it that overlapped (services/scoring_engine.py,
\* recalculate_batch and evaluate_restaurant).
JobsExplained ==
    /\ \A i, j \in DOMAIN explanations :
          i < j /\ explanations[i].restaurant = explanations[j].restaurant
             => explanations[j].seen < i
    /\ \A k \in DOMAIN jobs :
          IF jobs[k].status = "completed"
          THEN /\ jobs[k].total <= jobs[k].processed
               /\ jobs[k].processed = Cardinality(jobs[k].listed)
               /\ \A r \in jobs[k].listed : Rows(r) # {}
          ELSE jobs[k].lazy \/ \E r \in Restaurants : Cardinality(Rows(r)) > 1

=============================================================================
