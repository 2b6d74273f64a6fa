----------------------------- MODULE Campaigns ------------------------------
(***************************************************************************)
(* One outreach campaign (src/src/services/outreach.py, its API and the    *)
(* dashboard): targets are selected or added, activities logged, which     *)
(* advances a target, and the performance is counted.  A request is a      *)
(* transaction that sees, with every statement, what is committed by then; *)
(* unique keys cover the targets of the campaign and its performance row.  *)
(* The status and the dates of the campaign, which nothing here reads, are *)
(* left out.                                                               *)
(***************************************************************************)
EXTENDS Naturals, Sequences, FiniteSets

CONSTANTS
    Workers,       \* processes that serve requests
    Restaurants,   \* rows of restaurants
    None,          \* no target, no performance row
    MaxCommits     \* bound: transactions that change targets

Statuses == {"pending", "contacted", "responded", "converted", "skipped"}
Outcomes == {"none", "interested", "converted"}   \* the others change nothing more

\* writes: the requests that wrote the status, or asked for nothing new, in
\* the order of their commits; seen: how many a request had read.
Write  == [outcome : Outcomes \cup {"manual"}, seen : Nat]
Target == [status : Statuses, writes : Seq(Write)]

\* calm: no target changed between the first count and the last, and no other
\* calculation was stored between the look at the row and its UPDATE.
Performance == [total : Nat, contacted : Nat, responded : Nat, converted : Nat, calm : BOOLEAN]
Columns     == {"total", "contacted", "responded", "converted"}

CampaignAssumption ==
    /\ IsFiniteSet(Restaurants) /\ MaxCommits \in Nat
    /\ None \notin Target \cup Performance

VARIABLES
    exists,        \* the row of outreach_campaigns is there
    targets,       \* rows of outreach_targets, one per restaurant, or None
    performance,   \* the row of outreach_performance
    txn,           \* the open transaction of each worker
    commits        \* transactions that changed targets

vars == <<exists, targets, performance, txn, commits>>

NoTxn == [pc |-> "idle"]

Init ==
    /\ exists = TRUE
    /\ targets = [r \in Restaurants |-> None]
    /\ performance = None
    /\ txn = [w \in Workers |-> NoTxn]
    /\ commits = 0

Chosen == {r \in Restaurants : targets[r] # None}
With(S) == {r \in Chosen : targets[r].status \in S}

Step(w, t) == txn' = [txn EXCEPT ![w] = t]

Change(w) ==
    /\ commits < MaxCommits
    /\ commits' = commits + 1
    /\ Step(w, NoTxn)

-----------------------------------------------------------------------------
\* select_targets: what the filters and the limit let through, except targets;
\* add_target: any restaurant, whether or not it is a target.
BeginSelect(w) ==
    /\ txn[w].pc = "idle" /\ exists
    /\ \E R \in SUBSET (Restaurants \ Chosen) : R # {} /\ Step(w, [pc |-> "insert", adds |-> R])
    /\ UNCHANGED <<exists, targets, performance, commits>>

BeginAdd(w) ==
    /\ txn[w].pc = "idle" /\ exists
    /\ \E r \in Restaurants : Step(w, [pc |-> "insert", adds |-> {r}])
    /\ UNCHANGED <<exists, targets, performance, commits>>

\* All of them, or an error for the unique key.
CommitInsert(w) ==
    LET t == txn[w]
    IN  /\ t.pc = "insert" /\ exists
        /\ t.adds \cap Chosen = {}
        /\ targets' = [r \in Restaurants |->
                          IF r \in t.adds THEN [status |-> "pending", writes |-> <<>>]
                          ELSE targets[r]]
        /\ Change(w)
        /\ UNCHANGED <<exists, performance>>

-----------------------------------------------------------------------------
AdvancedAnyway(status, outcome) ==    \* wrong on purpose: an answer takes a target back
    CASE outcome = "converted"  -> "converted"
      [] outcome = "interested" -> "responded"
      [] outcome = "none"       -> IF status = "pending" THEN "contacted" ELSE status

\* Where an activity takes a target: contacted, then what the outcome says.
Advanced(status, outcome) ==
    CASE outcome = "converted"                                              -> "converted"
      [] outcome = "interested" /\ status \in {"pending", "contacted"}      -> "responded"
      [] outcome \in {"none", "interested"} /\ status \notin {"pending", "contacted"} -> status
      [] outcome = "none" /\ status \in {"pending", "contacted"}            -> "contacted"

BeginLog(w) ==
    /\ txn[w].pc = "idle"
    /\ \E r \in Chosen, outcome \in Outcomes :
          Step(w, [pc |-> "write", target |-> r, read |-> targets[r].status,
                   status |-> Advanced(targets[r].status, outcome),
                   write |-> [outcome |-> outcome, seen |-> Len(targets[r].writes)]])
    /\ UNCHANGED <<exists, targets, performance, commits>>

\* By hand, to any status.
BeginSetStatus(w) ==
    /\ txn[w].pc = "idle"
    /\ \E r \in Chosen, status \in Statuses :
          Step(w, [pc |-> "write", target |-> r, read |-> targets[r].status, status |-> status,
                   write |-> [outcome |-> "manual", seen |-> Len(targets[r].writes)]])
    /\ UNCHANGED <<exists, targets, performance, commits>>

\* A status equal to the one that was read makes no UPDATE.
Written(row, t) ==
    [status |-> IF t.status = t.read THEN row.status ELSE t.status,
     writes |-> Append(row.writes, t.write)]

CommitWrite(w) ==
    LET t == txn[w]
    IN  /\ t.pc = "write" /\ t.target \in Chosen
        /\ targets' = [targets EXCEPT ![t.target] = Written(@, t)]
        /\ Change(w)
        /\ UNCHANGED <<exists, performance>>

\* With its targets, activities and performance.
DeleteCampaign(w) ==
    /\ txn[w].pc = "idle" /\ exists
    /\ exists' = FALSE
    /\ targets' = [r \in Restaurants |-> None]
    /\ performance' = None
    /\ Change(w)

-----------------------------------------------------------------------------
\* calculate_performance, also run by the dashboard's campaign page: four
\* counts and a look at the row, a statement each.
CountTotal(w) ==
    /\ txn[w].pc = "idle" /\ exists
    /\ Step(w, [pc |-> "contacted", from |-> commits, total |-> Cardinality(Chosen)])
    /\ UNCHANGED <<exists, targets, performance, commits>>

OnlyContacted == {"contacted"}    \* wrong on purpose

ContactedOrFurther == {"contacted", "responded", "converted"}

CountContacted(w) ==
    /\ txn[w].pc = "contacted"
    /\ Step(w, [pc |-> "responded", from |-> txn[w].from, total |-> txn[w].total,
                contacted |-> Cardinality(With(ContactedOrFurther))])
    /\ UNCHANGED <<exists, targets, performance, commits>>

CountResponded(w) ==
    /\ txn[w].pc = "responded"
    /\ Step(w, [pc |-> "converted", from |-> txn[w].from, total |-> txn[w].total,
                contacted |-> txn[w].contacted,
                responded |-> Cardinality(With({"responded", "converted"}))])
    /\ UNCHANGED <<exists, targets, performance, commits>>

CountConverted(w) ==
    LET t == txn[w]
    IN  /\ t.pc = "converted"
        /\ Step(w, [pc |-> "lookup",
                    row |-> [total |-> t.total, contacted |-> t.contacted,
                             responded |-> t.responded,
                             converted |-> Cardinality(With({"converted"})),
                             calm |-> commits = t.from]])
        /\ UNCHANGED <<exists, targets, performance, commits>>

LookUp(w) ==
    /\ txn[w].pc = "lookup"
    /\ Step(w, [pc |-> "store", row |-> txn[w].row, read |-> performance])
    /\ UNCHANGED <<exists, targets, performance, commits>>

\* A column equal to the one that was read is not in the UPDATE.
Column(t, c) == IF t.row[c] = t.read[c] THEN performance[c] ELSE t.row[c]
Calculated(t) ==
    [total |-> Column(t, "total"), contacted |-> Column(t, "contacted"),
     responded |-> Column(t, "responded"), converted |-> Column(t, "converted"),
     calm |-> t.row.calm /\ \A c \in Columns : performance[c] = t.read[c]]

\* An insert the unique key lets through, or an update of the row that was found.
StorePerformance(w) ==
    LET t == txn[w]
    IN  /\ t.pc = "store" /\ exists
        /\ \/ t.read = None /\ performance = None /\ performance' = t.row
           \/ t.read # None /\ performance # None /\ performance' = Calculated(t)
        /\ Step(w, NoTxn)
        /\ UNCHANGED <<exists, targets, commits>>

\* An error, a unique key, a row that is gone, a crash.
Rollback(w) ==
    /\ txn[w].pc # "idle"
    /\ Step(w, NoTxn)
    /\ UNCHANGED <<exists, targets, performance, commits>>

Next ==
    \E w \in Workers :
        \/ BeginSelect(w) \/ BeginAdd(w) \/ CommitInsert(w)
        \/ BeginLog(w) \/ BeginSetStatus(w) \/ CommitWrite(w)
        \/ DeleteCampaign(w)
        \/ CountTotal(w) \/ CountContacted(w) \/ CountResponded(w) \/ CountConverted(w)
        \/ LookUp(w) \/ StorePerformance(w)
        \/ Rollback(w)

Spec == Init /\ [][Next]_vars

-----------------------------------------------------------------------------
TypeOK ==
    /\ exists \in BOOLEAN
    /\ \A r \in Restaurants : targets[r] = None \/ targets[r] \in Target
    /\ ~exists => Chosen = {} /\ performance = None
    /\ performance = None \/ performance \in Performance
    /\ \A w \in Workers : txn[w].pc \in {"idle", "insert", "write", "contacted", "responded",
                                         "converted", "lookup", "store"}
    /\ commits \in 0..MaxCommits

\* A target that has converted, or answered, stays so: only a status set by
\* hand, or a request that had read the target before another changed it, takes
\* it back (services/outreach.py, log_activity).
Level(status) ==
    CASE status = "converted" -> 3 [] status = "responded" -> 2
      [] status = "contacted" -> 1 [] status \in {"pending", "skipped"} -> 0
Earned(outcome) ==
    CASE outcome = "converted" -> 3 [] outcome = "interested" -> 2 [] outcome = "none" -> 1
      [] outcome = "manual" -> 0
AdvanceKept ==
    \A r \in Chosen :
        LET log == targets[r].writes
        IN  \A i \in DOMAIN log :
               Level(targets[r].status) < Earned(log[i].outcome) =>
                  \/ log[i].seen # i - 1
                  \/ \E j \in DOMAIN log :
                        \/ j > i /\ log[j].seen < i
                        \/ log[j].outcome = "manual" /\ (j > i \/ log[i].outcome # "converted")

\* The funnel narrows: a stored performance counts no more answers than
\* contacts and no more conversions than answers, unless targets changed
\* between its counts, or another calculation was stored since it had looked at
\* the row and left it the columns that it found equal
\* (services/outreach.py, calculate_performance).
FunnelNarrows ==
    performance # None /\ performance.calm =>
        /\ performance.contacted <= performance.total
        /\ performance.responded <= performance.contacted
        /\ performance.converted <= performance.responded

=============================================================================
