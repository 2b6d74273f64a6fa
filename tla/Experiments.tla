---------------------------- MODULE Experiments ----------------------------
(***************************************************************************)
(* One A/B experiment (src/src/services/ab_testing.py and its API): leads  *)
(* are assigned to variants, outcomes recorded, a winner declared.  Every  *)
(* request is a transaction; get_session commits it after the handler.     *)
(***************************************************************************)
EXTENDS Integers, FiniteSets

CONSTANTS
    Workers,      \* processes that serve requests
    Leads,        \* leads of the experiment
    Variants,     \* names of its variants
    VariantOf,    \* _deterministic_variant: the hash of experiment and lead
    SampleSize,   \* observations a variant needs
    None          \* NULL

ExperimentAssumption ==
    /\ Cardinality(Variants) >= 2
    /\ VariantOf \in [Leads -> Variants]
    /\ SampleSize \in Nat \ {0}
    /\ IsFiniteSet(Leads)
    /\ None \notin Leads /\ None \notin Variants /\ None \notin {0, 1}

VARIABLES
    status,     \* of the experiment
    winner,     \* its winner_variant
    assigned,   \* leads with a row in ab_assignments
    outcome,    \* the metric in the row's outcome, or None
    txn         \* the open transaction of each worker

db   == <<status, winner, assigned, outcome>>
vars == <<db, txn>>

Metrics == {0, 1}
NoTxn == [pc |-> "idle", lead |-> None, value |-> None, winner |-> None]
Txn   == [pc : {"idle", "start", "assign", "record", "count", "declare"},
          lead : Leads \cup {None}, value : Metrics \cup {None}, winner : Variants \cup {None}]

Init ==
    /\ status = "draft"
    /\ winner = None
    /\ assigned = {}
    /\ outcome = [l \in Leads |-> None]
    /\ txn = [w \in Workers |-> NoTxn]

Begin(w, t) ==
    /\ txn[w].pc = "idle"
    /\ txn' = [txn EXCEPT ![w] = t]
    /\ UNCHANGED db

End(w) == txn' = [txn EXCEPT ![w] = NoTxn]

-----------------------------------------------------------------------------
(* What a request reads.                                                   *)

BeginStart(w) ==
    /\ status = "draft"
    /\ Begin(w, [NoTxn EXCEPT !.pc = "start"])

BeginAssign(w) ==
    /\ status = "running"
    /\ \E l \in Leads \ assigned : Begin(w, [NoTxn EXCEPT !.pc = "assign", !.lead = l])

\* The outcome of an assigned lead, whatever the experiment's status.  Only
\* the first makes a new dictionary; a later one changes the dictionary that
\* was read, which the session does not see, and nothing is written.
BeginRecord(w) ==
    \E l \in {x \in assigned : outcome[x] = None}, v \in Metrics :
        Begin(w, [NoTxn EXCEPT !.pc = "record", !.lead = l, !.value = v])

Observed(v) == {l \in assigned : VariantOf[l] = v /\ outcome[l] # None}
Size(v)     == Cardinality(Observed(v))
Hits(v)     == Cardinality({l \in Observed(v) : outcome[l] = 1})
WithData    == {v \in Variants : Observed(v) # {}}

\* The mean of a is no smaller than that of b.
AtLeast(a, b) == Hits(a) * Size(b) >= Hits(b) * Size(a)

\* Two-sample z-test: p < 0.05 is z^2 > 3.841459, and p = 1 without a spread.
Significant(a, b) ==
    LET n == Size(a) + Size(b)
        s == Hits(a) + Hits(b)
        d == Hits(a) * Size(b) - Hits(b) * Size(a)
    IN  /\ 0 < s /\ s < n
        /\ 1000000 * d * d * n > 3841459 * Size(a) * Size(b) * s * (n - s)

EnoughData ==
    /\ Cardinality(WithData) >= 2
    /\ \A v \in WithData : Size(v) >= SampleSize

BeginDeclare(w) ==
    /\ status # "completed"
    /\ Begin(w, [NoTxn EXCEPT !.pc = "count"])

BestSoFar(w) ==              \* wrong on purpose: no minimum and no test
    /\ txn[w].pc = "count"
    /\ \E a \in WithData :
          /\ \A b \in WithData : AtLeast(a, b)
          /\ txn' = [txn EXCEPT ![w] = [NoTxn EXCEPT !.pc = "declare", !.winner = a]]
    /\ UNCHANGED db

\* get_results and the test: the best variant against the second best, in the
\* order of their means.
Count(w) ==
    /\ txn[w].pc = "count"
    /\ EnoughData
    /\ \E a, b \in WithData :
          /\ a # b
          /\ AtLeast(a, b)
          /\ \A c \in WithData \ {a, b} : AtLeast(b, c)
          /\ Significant(a, b)
          /\ txn' = [txn EXCEPT ![w] = [NoTxn EXCEPT !.pc = "declare", !.winner = a]]
    /\ UNCHANGED db

-----------------------------------------------------------------------------
(* What it writes.                                                         *)

\* Whatever the status has become since.
CommitStart(w) ==
    /\ txn[w].pc = "start"
    /\ status' = "running"
    /\ End(w)
    /\ UNCHANGED <<winner, assigned, outcome>>

\* Of two assignments of one lead the second fails on the unique key.
CommitAssign(w) ==
    /\ txn[w].pc = "assign"
    /\ assigned' = assigned \cup {txn[w].lead}
    /\ End(w)
    /\ UNCHANGED <<status, winner, outcome>>

CommitRecord(w) ==
    LET t == txn[w]
    IN  /\ t.pc = "record"
        /\ outcome' = [outcome EXCEPT ![t.lead] = t.value]
        /\ End(w)
        /\ UNCHANGED <<status, winner, assigned>>

CommitDeclare(w) ==
    /\ txn[w].pc = "declare"
    /\ status' = "completed"
    /\ winner' = txn[w].winner
    /\ End(w)
    /\ UNCHANGED <<assigned, outcome>>

\* A declaration without a winner, a refused statement, a crash.
Rollback(w) ==
    /\ txn[w].pc # "idle"
    /\ End(w)
    /\ UNCHANGED db

-----------------------------------------------------------------------------
Next ==
    \E w \in Workers :
        \/ BeginStart(w) \/ BeginAssign(w) \/ BeginRecord(w)
        \/ BeginDeclare(w) \/ Count(w)
        \/ CommitStart(w) \/ CommitAssign(w) \/ CommitRecord(w) \/ CommitDeclare(w)
        \/ Rollback(w)

Spec == Init /\ [][Next]_vars

-----------------------------------------------------------------------------
TypeOK ==
    /\ status \in {"draft", "running", "completed"}
    /\ winner \in Variants \cup {None}
    /\ assigned \subseteq Leads
    /\ outcome \in [Leads -> Metrics \cup {None}]
    /\ txn \in [Workers -> Txn]

\* A winner rests on enough data, now and later: it and one other variant have
\* their minimum of observations, although the declaration read them in an
\* earlier state, outcomes go on being recorded and a late start may set the
\* experiment running again (services/ab_testing.py, declare_winner).
WinnerHasSample ==
    winner # None =>
        /\ Size(winner) >= SampleSize
        /\ \E v \in Variants \ {winner} : Size(v) >= SampleSize

=============================================================================
