-------------------------- MODULE EngagementScores --------------------------
(***************************************************************************)
(* The engagement score of a restaurant (src/src/tasks/engagement_tasks.py *)
(* and communication_engagement_score of scoring/signals.py).  An hourly   *)
(* task writes it from the leads with an event of the last day, a daily    *)
(* task from all of them; neither locks anything between the reads and the *)
(* commit.                                                                 *)
(***************************************************************************)
EXTENDS Naturals, FiniteSets

CONSTANTS
    Workers,      \* processes that run the tasks
    Leads,        \* leads of the restaurant
    None,         \* no score, no run
    MaxChanges,   \* bound: changes of events and activities
    MaxRuns       \* bound: runs that wrote the score

EngagementAssumption ==
    IsFiniteSet(Leads) /\ None \notin Nat /\ MaxChanges \in Nat /\ MaxRuns \in Nat

VARIABLES
    events,       \* rows of tracker_events, one of a type for each lead
    activities,   \* rows of outreach_activities: <<lead, kind>>
    changes,      \* changes of either
    score,        \* communication_engagement, in ten-thousandths
    last,         \* the last run that was committed
    runs,         \* runs that were committed
    txn           \* the open transaction of each worker

vars == <<events, activities, changes, score, last, runs, txn>>

Types      == {"delivery", "open", "click", "bounce"}
Event      == [lead : Leads, type : Types, recent : BOOLEAN]
Activities == {"reply", "meeting", "other"}

\* version: changes when it began; calm: no run was committed while it counted.
Run == [kind : {"hourly", "daily"}, version : Nat, calm : BOOLEAN]

NoTxn == [pc |-> "idle"]

Init ==
    /\ events = {} /\ activities = {} /\ changes = 0
    /\ score = None /\ last = None /\ runs = 0
    /\ txn = [w \in Workers |-> NoTxn]

Step(w, t) == txn' = [txn EXCEPT ![w] = t]

Change ==
    /\ changes < MaxChanges
    /\ changes' = changes + 1
    /\ UNCHANGED <<score, last, runs, txn>>

-----------------------------------------------------------------------------
\* The webhook and the tracking task; people; an erasure; a day passes.
AddEvent(l) ==
    /\ \E type \in Types :
          /\ \A e \in events : e.lead = l => e.type # type
          /\ events' = events \cup {[lead |-> l, type |-> type, recent |-> TRUE]}
    /\ Change
    /\ UNCHANGED activities

LogActivity(l) ==
    /\ \E a \in Activities : activities' = activities \cup {<<l, a>>}
    /\ activities' # activities
    /\ Change
    /\ UNCHANGED events

Erase(l) ==
    /\ events' = {e \in events : e.lead # l}
    /\ activities' = {a \in activities : a[1] # l}
    /\ <<events', activities'>> # <<events, activities>>
    /\ Change

Tomorrow ==
    /\ \E e \in events : e.recent
    /\ events' = {[e EXCEPT !.recent = FALSE] : e \in events}
    /\ Change
    /\ UNCHANGED activities

-----------------------------------------------------------------------------
Least(a, b)    == IF a < b THEN a ELSE b
Greatest(a, b) == IF a > b THEN a ELSE b

\* communication_engagement_score of the events and activities of some leads:
\* rates of opens and clicks by what was sent, of replies and meetings by what
\* was done, each at most 1, weighted and rounded.
Engagement(leads) ==
    LET of(type)  == Cardinality({e \in events : e.lead \in leads /\ e.type = type})
        did(kind) == Cardinality({a \in activities : a[1] \in leads /\ a[2] = kind})
        total     == did("reply") + did("meeting") + did("other")
        sends     == Greatest(Greatest(of("delivery"), total), 1)
        acts      == Greatest(total, 1)
        points    == 3000 * (Least(of("open"), sends) + Least(of("click"), sends)) * acts
                     + (2500 * did("reply") + 1500 * did("meeting")) * sends
    IN  (2 * points + sends * acts) \div (2 * sends * acts)

Having(recent) == {l \in Leads : \E e \in events : e.lead = l /\ (recent => e.recent)}

CountedWithEvents(kind) == Having(kind = "hourly")    \* wrong on purpose

\* The hourly task counts the leads with an event of the last day, the daily one
\* all leads, once any of them has an event.
Counted(kind) ==
    IF kind = "hourly" \/ Having(FALSE) = {} THEN Having(TRUE) ELSE Leads

BeginRun(w) ==
    /\ txn[w].pc = "idle"
    /\ \E kind \in {"hourly", "daily"} :
          /\ Counted(kind) # {}
          /\ Step(w, [pc |-> "count", kind |-> kind, leads |-> Counted(kind),
                      version |-> changes])
    /\ UNCHANGED <<events, activities, changes, score, last, runs>>

\* Then their events and activities are read, and the score there is.  Without
\* any left, for the leads are erased, there is none to write.
Count(w) ==
    /\ txn[w].pc = "count"
    /\ \/ \E e \in events : e.lead \in txn[w].leads
       \/ \E a \in activities : a[1] \in txn[w].leads
    /\ Step(w, [pc |-> "write", kind |-> txn[w].kind, version |-> txn[w].version,
                new |-> Engagement(txn[w].leads), read |-> score, runs |-> runs])
    /\ UNCHANGED <<events, activities, changes, score, last, runs>>

\* A score equal to the one that was read makes no UPDATE.
CommitRun(w) ==
    LET t == txn[w]
    IN  /\ t.pc = "write"
        /\ runs < MaxRuns
        /\ score' = IF t.new = t.read THEN score ELSE t.new
        /\ last' = [kind |-> t.kind, version |-> t.version, calm |-> t.runs = runs]
        /\ runs' = runs + 1
        /\ Step(w, NoTxn)
        /\ UNCHANGED <<events, activities, changes>>

\* An error, a crash, or nothing to write: the next run comes by schedule.
GiveUp(w) ==
    /\ txn[w].pc # "idle"
    /\ Step(w, NoTxn)
    /\ UNCHANGED <<events, activities, changes, score, last, runs>>

Next ==
    \/ \E l \in Leads : AddEvent(l) \/ LogActivity(l) \/ Erase(l)
    \/ Tomorrow
    \/ \E w \in Workers : BeginRun(w) \/ Count(w) \/ CommitRun(w) \/ GiveUp(w)

Spec == Init /\ [][Next]_vars

-----------------------------------------------------------------------------
TypeOK ==
    /\ events \subseteq Event
    /\ activities \subseteq Leads \X Activities
    /\ changes \in 0..MaxChanges /\ runs \in 0..MaxRuns
    /\ score \in (0..10000) \cup {None}
    /\ last \in Run \cup {None}
    /\ \A w \in Workers : txn[w].pc \in {"idle", "count", "write"}

\* A score tells the events: after a daily run all that is known of the leads
\* counts, after an hourly one what is known of those that were active; unless
\* something has changed since the run began, or another run was committed
\* while it counted (tasks/engagement_tasks.py).
ScoreTellsEvents ==
    last # None /\ last.calm /\ last.version = changes =>
        score = Engagement(IF last.kind = "daily" THEN Leads ELSE Having(TRUE))

=============================================================================
