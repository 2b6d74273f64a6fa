----------------------------- MODULE AgentRuns ------------------------------
(***************************************************************************)
(* Agents (src/src/agents): runs of one agent or of the coordinator's      *)
(* pipeline, which hands one context from stage to stage.  A request is    *)
(* one transaction: a database error in an agent aborts it, also where the *)
(* agent swallows the error, for the flush that should store the failed    *)
(* status raises too; the request fails and none of its rows is stored.    *)
(* What the stages compute (leads, reasons, channels, plans) is left out.  *)
(***************************************************************************)
EXTENDS Naturals, Sequences, FiniteSets

CONSTANTS
    Workers,     \* processes that serve requests
    Contexts,    \* what callers name: sets of Keys
    MaxRequests  \* bound: stored requests

Keys == {"zip_codes", "restaurant_id", "lead_id", "rep_id", "handoff"}

AgentAssumption ==
    /\ Contexts \subseteq SUBSET Keys
    /\ MaxRequests \in Nat

PIPELINE_STAGES == <<"lead_discovery", "qualification", "outreach", "closing">>

VARIABLES
    requests,    \* rows of agent_runs, by the request that stored them
    txn          \* the open transaction of each worker

vars == <<requests, txn>>

\* A run may complete without success; a failed one raised an exception.
Stages == {PIPELINE_STAGES[k] : k \in DOMAIN PIPELINE_STAGES}
Row == [agent : Stages, status : {"completed", "failed"}, success : BOOLEAN]
\* context: the caller's.
Request == [context : SUBSET Keys, rows : Seq(Row), pipeline : BOOLEAN, success : BOOLEAN]

NoTxn == [pc |-> "idle"]

Init ==
    /\ requests = <<>>
    /\ txn = [w \in Workers |-> NoTxn]

Step(w, t) == txn' = [txn EXCEPT ![w] = t]

-----------------------------------------------------------------------------
\* What the stage asks of the context.
Accepts(stage, context) ==
    CASE stage = "lead_discovery" -> "zip_codes" \in context
      [] stage = "qualification"  -> "restaurant_id" \in context
      [] stage = "outreach"       -> {"lead_id", "restaurant_id"} \cap context # {}
      [] stage = "closing"        -> /\ "lead_id" \in context
                                     /\ "handoff" \in context => "rep_id" \in context

\* A stage without what it asks for answers so; a restaurant may be unknown;
\* values of a wrong type raise in the discovery and the outreach agent.
Outcomes(stage, context) ==
    LET row(status, success) == [agent |-> stage, status |-> status, success |-> success]
    IN  IF ~Accepts(stage, context) THEN {row("completed", FALSE)}
        ELSE {row("completed", TRUE)}
             \cup (IF stage = "qualification" THEN {row("completed", FALSE)} ELSE {})
             \cup (IF stage \in {"lead_discovery", "outreach"} THEN {row("failed", FALSE)} ELSE {})

AddedFound(stage, context) ==    \* wrong on purpose: discovery hands a restaurant on
    IF stage = "lead_discovery" THEN {"restaurant_id"} ELSE {}

\* What the stage adds to the context: discovery finds leads under a key no
\* stage reads, outreach answers with the keys it was given.
Added(stage, context) ==
    IF stage = "outreach" THEN context \cap {"lead_id", "restaurant_id"} ELSE {}

\* POST /agents/{agent_name}/run
StartAgent(w) ==
    /\ txn[w].pc = "idle"
    /\ \E k \in DOMAIN PIPELINE_STAGES, context \in Contexts :
          Step(w, [pc |-> "stages", next |-> k, last |-> k, now |-> context,
                   request |-> [context |-> context, rows |-> <<>>, pipeline |-> FALSE,
                                success |-> TRUE]])
    /\ UNCHANGED requests

StartPipeline(w) ==
    /\ txn[w].pc = "idle"
    /\ \E k \in DOMAIN PIPELINE_STAGES, context \in Contexts :
          Step(w, [pc |-> "stages", next |-> k, last |-> Len(PIPELINE_STAGES), now |-> context,
                   request |-> [context |-> context, rows |-> <<>>, pipeline |-> TRUE,
                                success |-> TRUE]])
    /\ UNCHANGED requests

GoesOn(success, t) == t.next + 1    \* wrong on purpose

\* The pipeline stops at the first stage without success.
Goes(success, t) == IF success THEN t.next + 1 ELSE t.last + 1

\* The run of a stage is a row; its additions go into the context.
Ran(t, row) ==
    [pc |-> "stages", next |-> Goes(row.success, t), last |-> t.last,
     now |-> IF row.success THEN t.now \cup Added(row.agent, t.now) ELSE t.now,
     request |-> [context |-> t.request.context, rows |-> Append(t.request.rows, row),
                  pipeline |-> t.request.pipeline,
                  success |-> t.request.success /\ row.success]]

RunStage(w) ==
    LET t == txn[w]
    IN  /\ t.pc = "stages" /\ t.next <= t.last
        /\ \E row \in Outcomes(PIPELINE_STAGES[t.next], t.now) : Step(w, Ran(t, row))
        /\ UNCHANGED requests

CommitRun(w) ==
    /\ txn[w].pc = "stages" /\ txn[w].next > txn[w].last
    /\ Len(requests) < MaxRequests
    /\ requests' = Append(requests, txn[w].request)
    /\ Step(w, NoTxn)

\* A database error or a crash.
Rollback(w) ==
    /\ txn[w].pc # "idle"
    /\ Step(w, NoTxn)
    /\ UNCHANGED requests

Next ==
    \E w \in Workers :
        \/ StartAgent(w) \/ StartPipeline(w) \/ RunStage(w) \/ CommitRun(w)
        \/ Rollback(w)

Spec == Init /\ [][Next]_vars

-----------------------------------------------------------------------------
TypeOK ==
    /\ requests \in Seq(Request)
    /\ \A w \in Workers : txn[w].pc \in {"idle", "stages"}

\* A stored pipeline tells how far it came: its stages follow each other up to
\* the first without success, it succeeded when the closing stage did, and a
\* restaurant is qualified, or a lead closed, only if the caller named it: what
\* discovery finds is handed to nobody (agents/coordinator.py, _run_pipeline).
PipelineTellsStages ==
    \A i \in DOMAIN requests :
        LET rows == requests[i].rows
            stage(n) == CHOOSE k \in DOMAIN PIPELINE_STAGES : PIPELINE_STAGES[k] = rows[n].agent
        IN  /\ \A n \in 1..Len(rows) - 1 : rows[n].success /\ stage(n + 1) = stage(n) + 1
            /\ requests[i].pipeline =>
                  (requests[i].success <=> /\ rows[Len(rows)].success
                                           /\ rows[Len(rows)].agent = "closing")
            /\ \A n \in DOMAIN rows :
                  rows[n].success =>
                     /\ rows[n].agent = "qualification" => "restaurant_id" \in requests[i].context
                     /\ rows[n].agent = "closing" => "lead_id" \in requests[i].context

=============================================================================
