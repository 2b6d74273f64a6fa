-------------------------- MODULE ProspectPromotion --------------------------
(***************************************************************************)
(* Promoting restaurants to leads: the dashboard's request                 *)
(* (src/src/dashboard/routes.py, src/src/services/prospect_promotion.py),  *)
(* one transaction with a SAVEPOINT per restaurant and one per campaign    *)
(* attachment, and the Celery task it dispatches for a new lead            *)
(* (src/src/tasks/qualification_tasks.py, services/qualification.py),      *)
(* which may run before the lead is committed.                             *)
(***************************************************************************)
EXTENDS Naturals, Sequences, FiniteSets

CONSTANTS
    Requests,      \* promote requests
    Restaurants,   \* ids that may be posted
    Batch,         \* the restaurant ids of each request, in order
    Known,         \* rows of restaurants
    Campaign,      \* the campaign of each request, or None
    Workers,       \* processes of the Celery pool
    None,          \* NULL
    MaxRetries,    \* max_retries of qualify_restaurant_task
    MaxFaults,     \* bound: errors and crashes
    MaxMoves       \* bound: stage changes by sales

Campaigns == {Campaign[q] : q \in Requests} \ {None}

\* The lead a request makes for the i-th restaurant of its batch.
LeadIds == UNION {{<<q, i>> : i \in DOMAIN Batch[q]} : q \in Requests}

RestaurantOf(l) == Batch[l[1]][l[2]]

ASSUME PromotionAssumption ==
    /\ Batch \in [Requests -> Seq(Restaurants)]
    /\ \A q \in Requests : Batch[q] # <<>>
    /\ Known \subseteq Restaurants
    /\ None \notin LeadIds
    /\ MaxRetries \in Nat /\ MaxFaults \in Nat /\ MaxMoves \in Nat

VARIABLES
    leads,     \* committed rows of leads
    stage,     \* their lifecycle_stage
    targets,   \* committed rows of outreach_targets
    verdict,   \* latest committed qualification of each restaurant
    pc,        \* what each request does next
    pos,       \* the restaurant it is at
    tx,        \* what its open transaction has written
    result,    \* its PromotionResult
    tasks,     \* qualification tasks waiting for a worker
    work,      \* what each worker has read for its task
    ended,     \* leads with a task that committed "qualified"
    faults,
    moves

db     == <<leads, stage, targets, verdict>>
req    == <<pc, pos, tx, result>>
celery == <<tasks, work, ended>>
bounds == <<faults, moves>>
vars   == <<db, req, celery, bounds>>

EmptyTx     == [leads |-> {}, advanced |-> {}, targets |-> {}]
EmptyResult == [promoted |-> {}, skipped |-> {}, failed |-> {}]
NoWork      == [pc |-> "idle", task |-> None, verdict |-> "none", stage |-> "none"]

Verdicts == {"qualified", "needs_review", "not_qualified"}

Here(q) == Batch[q][pos[q]]
Lead(q) == <<q, pos[q]>>

Init ==
    /\ leads = {}
    /\ stage = [l \in LeadIds |-> "new"]
    /\ targets = {}
    /\ verdict \in [Restaurants -> {"none", "qualified", "needs_review"}]
    /\ pc = [q \in Requests |-> "check"]
    /\ pos = [q \in Requests |-> 1]
    /\ tx = [q \in Requests |-> EmptyTx]
    /\ result = [q \in Requests |-> EmptyResult]
    /\ tasks = {}
    /\ work = [w \in Workers |-> NoWork]
    /\ ended = {}
    /\ faults = 0
    /\ moves = 0

-----------------------------------------------------------------------------
(* The request: per restaurant check, insert, attach, qualify.             *)

PastTheEnd(q) ==             \* wrong on purpose: one past the last restaurant
    IF pos[q] <= Len(Batch[q])
    THEN /\ pos' = [pos EXCEPT ![q] = @ + 1]
         /\ pc' = [pc EXCEPT ![q] = "check"]
    ELSE /\ pc' = [pc EXCEPT ![q] = "commit"]
         /\ UNCHANGED pos

\* The next restaurant, or the commit after the last one.
NextRestaurant(q) ==
    IF pos[q] < Len(Batch[q])
    THEN /\ pos' = [pos EXCEPT ![q] = @ + 1]
         /\ pc' = [pc EXCEPT ![q] = "check"]
    ELSE /\ pc' = [pc EXCEPT ![q] = "commit"]
         /\ UNCHANGED pos

Count(q, kind) == result' = [result EXCEPT ![q][kind] = @ \cup {pos[q]}]

Committed(r) == \E l \in leads : RestaurantOf(l) = r
Own(q, r)    == \E l \in tx[q].leads : RestaurantOf(l) = r
Pending(q, r) == \E p \in Requests \ {q} : Own(p, r)

\* The pre-flight check, then the restaurant's row.
CheckLead(q) ==
    /\ pc[q] = "check"
    /\ \/ /\ Committed(Here(q)) \/ Own(q, Here(q))
          /\ Count(q, "skipped")
          /\ NextRestaurant(q)
       \/ /\ ~Committed(Here(q)) /\ ~Own(q, Here(q))
          /\ Here(q) \notin Known
          /\ Count(q, "failed")
          /\ NextRestaurant(q)
       \/ /\ ~Committed(Here(q)) /\ ~Own(q, Here(q))
          /\ Here(q) \in Known
          /\ pc' = [pc EXCEPT ![q] = "insert"]
          /\ UNCHANGED <<pos, result>>
    /\ UNCHANGED <<db, tx, celery, bounds>>

SkipPending(q) ==            \* wrong on purpose: does not wait for the outcome
    /\ pc[q] = "insert"
    /\ IF Committed(Here(q)) \/ Pending(q, Here(q))
       THEN /\ Count(q, "skipped")
            /\ NextRestaurant(q)
            /\ UNCHANGED tx
       ELSE /\ Count(q, "promoted")
            /\ tx' = [tx EXCEPT ![q].leads = @ \cup {Lead(q)}]
            /\ pc' = [pc EXCEPT ![q] = IF Campaign[q] = None THEN "qualify" ELSE "attach"]
            /\ UNCHANGED pos
    /\ UNCHANGED <<db, celery, bounds>>

DispatchEarly(q) ==          \* wrong on purpose: the task before the attachment
    /\ pc[q] = "insert"
    /\ ~Pending(q, Here(q))
    /\ IF Committed(Here(q))
       THEN /\ Count(q, "skipped")
            /\ NextRestaurant(q)
            /\ UNCHANGED <<tx, tasks>>
       ELSE /\ Count(q, "promoted")
            /\ tx' = [tx EXCEPT ![q].leads = @ \cup {Lead(q)}]
            /\ tasks' = tasks \cup {[lead |-> Lead(q), tries |-> 0]}
            /\ pc' = [pc EXCEPT ![q] = "attach"]
            /\ UNCHANGED pos
    /\ UNCHANGED <<db, work, ended, bounds>>

\* The INSERT waits for a concurrent one of the same restaurant.  If that one
\* committed, the SAVEPOINT is rolled back and the check repeated.
InsertLead(q) ==
    /\ pc[q] = "insert"
    /\ ~Pending(q, Here(q))
    /\ IF Committed(Here(q))
       THEN /\ Count(q, "skipped")
            /\ NextRestaurant(q)
            /\ UNCHANGED tx
       ELSE /\ Count(q, "promoted")
            /\ tx' = [tx EXCEPT ![q].leads = @ \cup {Lead(q)}]
            /\ pc' = [pc EXCEPT ![q] = IF Campaign[q] = None THEN "qualify" ELSE "attach"]
            /\ UNCHANGED pos
    /\ UNCHANGED <<db, celery, bounds>>

\* A second target for the restaurant of the campaign is dropped silently.
AttachTarget(q) ==
    /\ pc[q] = "attach"
    /\ pc' = [pc EXCEPT ![q] = "qualify"]
    /\ tx' = IF \E t \in targets : t.campaign = Campaign[q] /\ t.restaurant = Here(q)
             THEN tx
             ELSE [tx EXCEPT ![q].targets = @ \cup
                      {[campaign |-> Campaign[q], restaurant |-> Here(q), lead |-> Lead(q)]}]
    /\ UNCHANGED <<db, pos, result, celery, bounds>>

Reusable(r) == verdict[r] \in {"qualified", "needs_review"}

Qualify(q) ==
    /\ pc[q] = "qualify"
    /\ IF Reusable(Here(q))
       THEN /\ tx' = IF verdict[Here(q)] = "qualified"
                     THEN [tx EXCEPT ![q].advanced = @ \cup {Lead(q)}] ELSE tx
            /\ UNCHANGED tasks
       ELSE /\ tasks' = tasks \cup {[lead |-> Lead(q), tries |-> 0]}
            /\ UNCHANGED tx
    /\ NextRestaurant(q)
    /\ UNCHANGED <<db, result, work, ended, bounds>>

CommitRequest(q) ==
    /\ pc[q] = "commit"
    /\ leads' = leads \cup tx[q].leads
    /\ stage' = [l \in LeadIds |-> IF l \in tx[q].advanced THEN "qualified" ELSE stage[l]]
    /\ targets' = targets \cup tx[q].targets
    /\ tx' = [tx EXCEPT ![q] = EmptyTx]
    /\ pc' = [pc EXCEPT ![q] = "done"]
    /\ UNCHANGED <<verdict, pos, result, celery, bounds>>

-----------------------------------------------------------------------------
(* What goes wrong in a request.                                           *)

NoSavepoint(q) == UNCHANGED tx      \* wrong on purpose

LeadOnly(q) ==               \* wrong on purpose: the target outlives its lead
    tx' = [tx EXCEPT ![q].leads = @ \ {Lead(q)}, ![q].advanced = @ \ {Lead(q)}]

\* The SAVEPOINT of the restaurant is rolled back, and only that.
ToSavepoint(q) ==
    tx' = [tx EXCEPT ![q] = [leads    |-> @.leads \ {Lead(q)},
                             advanced |-> @.advanced \ {Lead(q)},
                             targets  |-> {t \in @.targets : t.lead # Lead(q)}]]

\* A failed statement is the failure of its restaurant.
StatementError(q) ==
    /\ pc[q] \in {"check", "insert", "attach", "qualify"}
    /\ faults < MaxFaults
    /\ faults' = faults + 1
    /\ ToSavepoint(q)
    /\ Count(q, "failed")
    /\ NextRestaurant(q)
    /\ UNCHANGED <<db, celery, moves>>

\* So is being chosen from a circle of requests that wait for each other.
WaitsFor(q) ==
    IF pc[q] = "insert" THEN {p \in Requests \ {q} : Own(p, Here(q))} ELSE {}

Deadlocked(q) ==
    \E S \in SUBSET Requests :
        /\ q \in S
        /\ \A p \in S : /\ WaitsFor(p) \cap S # {}
                        /\ \E u \in S : p \in WaitsFor(u)

DeadlockVictim(q) ==
    /\ Deadlocked(q)
    /\ ToSavepoint(q)
    /\ Count(q, "failed")
    /\ NextRestaurant(q)
    /\ UNCHANGED <<db, celery, bounds>>

\* What the loop does not catch ends the request: the broker refuses the
\* task, the connection or the process is lost.  Tasks are out already.
Abort(q) ==
    /\ pc[q] \in {"check", "insert", "attach", "qualify", "commit"}
    /\ faults < MaxFaults
    /\ faults' = faults + 1
    /\ tx' = [tx EXCEPT ![q] = EmptyTx]
    /\ pc' = [pc EXCEPT ![q] = "aborted"]
    /\ UNCHANGED <<db, pos, result, celery, moves>>

-----------------------------------------------------------------------------
(* The qualification task.                                                 *)

Take(w) ==
    /\ work[w].pc = "idle"
    /\ \E t \in tasks :
          /\ tasks' = tasks \ {t}
          /\ work' = [work EXCEPT ![w] = [NoWork EXCEPT !.pc = "evaluate", !.task = t]]
    /\ UNCHANGED <<db, req, ended, bounds>>

AwaitLead(w) ==              \* wrong on purpose: waits for the lead to show up
    LET l == work[w].task.lead
    IN  /\ work[w].pc = "evaluate"
        /\ l \in leads
        /\ \E v \in Verdicts :
              work' = [work EXCEPT ![w].pc = "commit", ![w].verdict = v,
                                   ![w].stage = stage[l]]
        /\ UNCHANGED <<db, req, tasks, ended, bounds>>

\* The signals decide; for "qualified" the lead is read, which there may not
\* be (yet).
Evaluate(w) ==
    LET l == work[w].task.lead
    IN  /\ work[w].pc = "evaluate"
        /\ \E v \in Verdicts :
              work' = [work EXCEPT ![w].pc = "commit",
                                   ![w].verdict = v,
                                   ![w].stage = IF v = "qualified" /\ l \in leads
                                                THEN stage[l] ELSE "none"]
        /\ UNCHANGED <<db, req, tasks, ended, bounds>>

\* Only a stage that differs from the one read is written, whatever the lead
\* has become since.
CommitTask(w) ==
    LET l == work[w].task.lead
    IN  /\ work[w].pc = "commit"
        /\ verdict' = [verdict EXCEPT ![RestaurantOf(l)] = work[w].verdict]
        /\ stage' = IF work[w].stage \in {"none", "qualified"}
                    THEN stage ELSE [stage EXCEPT ![l] = "qualified"]
        /\ ended' = IF work[w].verdict = "qualified" THEN ended \cup {l} ELSE ended
        /\ work' = [work EXCEPT ![w] = NoWork]
        /\ UNCHANGED <<leads, targets, req, tasks, bounds>>

\* An exception uses a retry; a crash of the worker gives the task out again;
\* the last retry's exception and a killed child process lose it.
TaskError(w) ==
    LET t == work[w].task
    IN  /\ work[w].pc # "idle"
        /\ faults < MaxFaults
        /\ faults' = faults + 1
        /\ \/ /\ t.tries < MaxRetries
              /\ tasks' = tasks \cup {[t EXCEPT !.tries = @ + 1]}
           \/ tasks' = tasks \cup {t}
           \/ UNCHANGED tasks
        /\ work' = [work EXCEPT ![w] = NoWork]
        /\ UNCHANGED <<db, req, ended, moves>>

-----------------------------------------------------------------------------
(* Everybody else.                                                         *)

\* Sales moves a lead on (api/routers/crm.py, tasks/hubspot_tasks.py).
MoveLead(l) ==
    /\ moves < MaxMoves
    /\ moves' = moves + 1
    /\ l \in leads
    /\ stage' = [stage EXCEPT ![l] = "converted"]
    /\ UNCHANGED <<leads, targets, verdict, req, celery, faults>>

\* select_targets adds a restaurant to a campaign, without a lead.
SelectTarget(c, r) ==
    /\ r \in Known
    /\ \A t \in targets \cup UNION {tx[q].targets : q \in Requests} :
          ~(t.campaign = c /\ t.restaurant = r)
    /\ targets' = targets \cup {[campaign |-> c, restaurant |-> r, lead |-> None]}
    /\ UNCHANGED <<leads, stage, verdict, req, celery, bounds>>

-----------------------------------------------------------------------------
RequestStep(q) ==
    \/ CheckLead(q) \/ InsertLead(q) \/ AttachTarget(q) \/ Qualify(q) \/ CommitRequest(q)

TaskStep(w) == Take(w) \/ Evaluate(w) \/ CommitTask(w)

Quiet ==
    /\ \A q \in Requests : pc[q] \in {"done", "aborted"}
    /\ tasks = {}
    /\ \A w \in Workers : work[w].pc = "idle"

Next ==
    \/ \E q \in Requests :
          RequestStep(q) \/ StatementError(q) \/ DeadlockVictim(q) \/ Abort(q)
    \/ \E w \in Workers : TaskStep(w) \/ TaskError(w)
    \/ \E l \in LeadIds : MoveLead(l)
    \/ \E c \in Campaigns, r \in Restaurants : SelectTarget(c, r)
    \/ Quiet /\ UNCHANGED vars

Spec == Init /\ [][Next]_vars

\* Some request and some worker go on when they can, PostgreSQL breaks deadlocks.
FairSpec ==
    /\ Spec
    /\ WF_vars(\E q \in Requests : RequestStep(q) \/ DeadlockVictim(q))
    /\ WF_vars(\E w \in Workers : TaskStep(w))

-----------------------------------------------------------------------------
(* Properties.                                                             *)

Rows  == [campaign : Campaigns, restaurant : Restaurants, lead : LeadIds \cup {None}]
Tasks == [lead : LeadIds, tries : 0..MaxRetries]

\* Type invariant; a request is at a restaurant of its batch and a worker
\* that is busy has a task.
TypeOK ==
    /\ leads \subseteq LeadIds
    /\ stage \in [LeadIds -> {"new", "qualified", "converted"}]
    /\ targets \subseteq Rows
    /\ verdict \in [Restaurants -> Verdicts \cup {"none"}]
    /\ pc \in [Requests -> {"check", "insert", "attach", "qualify", "commit", "done", "aborted"}]
    /\ \A q \in Requests : pos[q] \in DOMAIN Batch[q]
    /\ tx \in [Requests -> [leads : SUBSET LeadIds, advanced : SUBSET LeadIds,
                             targets : SUBSET Rows]]
    /\ result \in [Requests -> [promoted : SUBSET Nat, skipped : SUBSET Nat,
                                 failed : SUBSET Nat]]
    /\ tasks \subseteq Tasks
    /\ \A w \in Workers :
          /\ work[w].pc \in {"idle", "evaluate", "commit"}
          /\ work[w].pc # "idle" => work[w].task \in Tasks
          /\ work[w].verdict \in Verdicts \cup {"none"}
          /\ work[w].stage \in {"none", "new", "qualified", "converted"}
    /\ ended \subseteq LeadIds
    /\ faults \in 0..MaxFaults
    /\ moves \in 0..MaxMoves

\* Whatever two requests do to each other, every restaurant of a request that
\* was answered is a lead, made by it or by the one it lost to, or is listed
\* as failed: nothing is skipped in favour of a lead that is then rolled back.
NobodyLeftOut ==
    \A q \in Requests : pc[q] = "done" =>
        \A i \in DOMAIN Batch[q] : i \in result[q].failed \/ Committed(Batch[q][i])

\* What the toast calls promoted, less what it also calls failed, is exactly
\* what the request stored, whichever statement of a restaurant fails.
CountsTellLeads ==
    \A q \in Requests : pc[q] = "done" =>
        {l \in leads : l[1] = q} = {<<q, i>> : i \in result[q].promoted \ result[q].failed}

\* A restaurant has one lead and a campaign has one target for it, which
\* names that lead or none (when the campaign had selected it before).
TargetNamesLead ==
    /\ \A l, k \in leads : RestaurantOf(l) = RestaurantOf(k) => l = k
    /\ \A t \in targets :
          /\ t.lead # None => t.lead \in leads /\ RestaurantOf(t.lead) = t.restaurant
          /\ \A u \in targets :
                t.campaign = u.campaign /\ t.restaurant = u.restaurant => t = u

\* A request that was answered has no qualification running for a lead that
\* was rolled back: the dispatch is the last thing that can fail.
DispatchedIsStored ==
    \A q \in Requests : pc[q] = "done" =>
        \A l \in {t.lead : t \in tasks} \cup ended
                  \cup {work[w].task.lead : w \in {v \in Workers : work[v].pc # "idle"}} :
            l[1] = q => l \in leads

\* Leads, targets and qualification tasks name each other once the requests that
\* made them are answered (services/prospect_promotion.py, promote_restaurants).
RecordsAgree == TargetNamesLead /\ DispatchedIsStored

\* Requests are answered and their tasks end, whatever waits for whatever.
PromotionEnds == <>[]Quiet

\* "When provided and qualification returns "qualified", the Lead's
\* lifecycle_stage and status are updated" (qualification_tasks.py:28-30).
QualifiedLeadAdvances ==
    \A l \in leads : l \in ended => stage[l] # "new"
============================================================================
