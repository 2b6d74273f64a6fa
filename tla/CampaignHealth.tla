--------------------------- MODULE CampaignHealth ---------------------------
(***************************************************************************)
(* The health check of campaigns (src/src/services/anomaly_detection.py,   *)
(* run by the coordinator agent and by a task that nothing schedules): it  *)
(* reads the active campaigns and their events, and stores what it finds   *)
(* together with the pause.  One campaign, whose status people set         *)
(* meanwhile (PATCH of the API and the dashboard).                         *)
(***************************************************************************)
EXTENDS Naturals, Sequences

CONSTANTS
    Workers,     \* processes that serve requests
    Metrics,     \* events of the campaign in the last day, deliveries the day before
    MaxWrites    \* bound: writes of the campaign's status

HealthAssumption ==
    /\ Metrics \subseteq [sends : Nat, bounces : Nat, complaints : Nat, before : Nat]
    /\ MaxWrites \in Nat

VARIABLES
    log,         \* writes of the campaign's status, the first with the row
    anomalies,   \* rows of campaign_anomaly_logs, by the write that came with them
    txn          \* the open transaction of each worker

vars == <<log, anomalies, txn>>

\* seen: the writes that were committed when the campaign was read.
Statuses == {"draft", "active", "paused", "completed"}
Write    == [by : {"health", "user"}, to : Statuses, seen : Nat]

NoTxn == [pc |-> "idle"]

Init ==
    /\ log \in {<<[by |-> "user", to |-> s, seen |-> 0]>> : s \in Statuses}
    /\ anomalies = {}
    /\ txn = [w \in Workers |-> NoTxn]

Step(w, t) == txn' = [txn EXCEPT ![w] = t]

Status == log[Len(log)].to

-----------------------------------------------------------------------------
\* Over a tenth, over a hundredth, less than half of the day before.
Anomalies(m) ==
    (IF m.sends > 0 /\ 10 * m.bounces > m.sends THEN {"high_bounce"} ELSE {})
    \cup (IF m.sends > 0 /\ 100 * m.complaints > m.sends THEN {"high_complaint"} ELSE {})
    \cup (IF m.before > 10 /\ 2 * m.sends < m.before THEN {"volume_drop"} ELSE {})

CheckedAny == TRUE    \* wrong on purpose

\* Only active campaigns are looked at.
Checked == Status = "active"

BeginHealth(w) ==
    /\ txn[w].pc = "idle"
    /\ Checked
    /\ \E m \in Metrics :
          /\ Anomalies(m) # {}
          /\ Step(w, [pc |-> "write", types |-> Anomalies(m),
                      write |-> [by |-> "health", to |-> "paused", seen |-> Len(log)]])
    /\ UNCHANGED <<log, anomalies>>

\* PATCH of a campaign.
BeginSetStatus(w) ==
    /\ txn[w].pc = "idle"
    /\ \E to \in Statuses \ {Status} :
          Step(w, [pc |-> "write", types |-> {},
                   write |-> [by |-> "user", to |-> to, seen |-> Len(log)]])
    /\ UNCHANGED <<log, anomalies>>

CommitWrite(w) ==
    /\ txn[w].pc = "write"
    /\ Len(log) < MaxWrites
    /\ log' = Append(log, txn[w].write)
    /\ anomalies' = anomalies \cup ({Len(log) + 1} \X txn[w].types)
    /\ Step(w, NoTxn)

\* A database error or a crash.
Rollback(w) ==
    /\ txn[w].pc # "idle"
    /\ Step(w, NoTxn)
    /\ UNCHANGED <<log, anomalies>>

Next ==
    \E w \in Workers :
        \/ BeginHealth(w) \/ BeginSetStatus(w) \/ CommitWrite(w)
        \/ Rollback(w)

Spec == Init /\ [][Next]_vars

-----------------------------------------------------------------------------
TypeOK ==
    /\ log \in Seq(Write)
    /\ anomalies \subseteq (DOMAIN log) \X {"high_bounce", "high_complaint", "volume_drop"}
    /\ \A w \in Workers : txn[w].pc \in {"idle", "write"}

\* The health check pauses an active campaign, and stores with the pause what
\* it found: a campaign that was paused already, or that somebody has finished,
\* is paused only by a check that had read it before
\* (services/anomaly_detection.py, check_and_pause_if_needed).
PausesExplained ==
    \A i \in DOMAIN log :
        /\ log[i].by = "health" =>
              log[i].seen < i - 1 \/ log[i - 1].to = "active"
        /\ log[i].by = "health" <=> \E a \in anomalies : a[1] = i

=============================================================================
