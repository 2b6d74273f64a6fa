----------------------------- MODULE BackOffice -----------------------------
(***************************************************************************)
(* Eleven services behind the API that share no rows, one of which runs:   *)
(* what holds of one does not depend on the others.                        *)
(***************************************************************************)
EXTENDS Integers, Sequences, FiniteSets

CONSTANTS
    Workers, None,
    Restaurants, MaxItems,                                \* RepQueue
    MaxVersion,                                           \* PromptVersions
    Leads, Variants, VariantOf, SampleSize,               \* Experiments
    Values, ConfigScopes, Missing, MaxVersions,           \* Settings
    Scored, Signals, Lazy, Raw, Configs, Off,             \* ScoringProfiles
    RuleChoices, Converted, Gone, MaxSnapshots, MaxJobs,
    Invited, MaxCommits,                                  \* Campaigns
    ColumnValues, First, Qualified, DealStages,           \* CrmHistory
    StageMap, Unknown, MaxMoves, MaxPosts, MaxWrites,
    Contexts, MaxRequests,                                \* AgentRuns
    Measured, MaxStatuses,                                \* CampaignHealth
    Scopes, Lifetime, Never, MaxTime, MaxTokens,          \* Access
    Limit, Default, Window, MaxClock, MaxCalls            \* RateLimiter

VARIABLES service,
    items, queueTxn,                                            \* RepQueue
    stored, active, promptTxn, raced, back,                     \* PromptVersions
    status, winner, assigned, outcome, testTxn,                 \* Experiments
    config, history, overrides, configTxn,                      \* Settings
    profile, rules, versions, explanations, jobs, present,      \* ScoringProfiles
    begun, scoreTxn,
    exists, targets, performance, commits, campaignTxn,         \* Campaigns
    column, value, log, deal, queue, posts, crmTxn,             \* CrmHistory
    requests, agentTxn,                                         \* AgentRuns
    writes, anomalies, healthTxn,                               \* CampaignHealth
    now, client, tokens, accessTxn,                             \* Access
    clock, bucket, touched, calls, limiterTxn                   \* RateLimiter

Queue    == INSTANCE RepQueue WITH txn <- queueTxn
Prompts  == INSTANCE PromptVersions WITH txn <- promptTxn
Tests    == INSTANCE Experiments WITH txn <- testTxn
Config   == INSTANCE Settings WITH Scopes <- ConfigScopes, txn <- configTxn
Scoring  == INSTANCE ScoringProfiles WITH
               Restaurants <- Scored, MaxVersions <- MaxSnapshots, txn <- scoreTxn
Outreach == INSTANCE Campaigns WITH Restaurants <- Invited, txn <- campaignTxn
Crm      == INSTANCE CrmHistory WITH Values <- ColumnValues, txn <- crmTxn
Agents   == INSTANCE AgentRuns WITH txn <- agentTxn
Health   == INSTANCE CampaignHealth WITH
               Metrics <- Measured, MaxWrites <- MaxStatuses, log <- writes, txn <- healthTxn
Clients  == INSTANCE Access WITH txn <- accessTxn
Limiter  == INSTANCE RateLimiter WITH
               MaxTime <- MaxClock, MaxRequests <- MaxCalls,
               now <- clock, log <- calls, txn <- limiterTxn

ASSUME BackOfficeAssumption ==
    /\ Queue!QueueAssumption /\ Prompts!PromptAssumption /\ Tests!ExperimentAssumption
    /\ Config!SettingAssumption /\ Scoring!ProfileAssumption /\ Outreach!CampaignAssumption
    /\ Crm!HistoryAssumption /\ Agents!AgentAssumption /\ Health!HealthAssumption
    /\ Clients!AccessAssumption /\ Limiter!LimiterAssumption

queueVars    == <<items, queueTxn>>
promptVars   == <<stored, active, promptTxn, raced, back>>
testVars     == <<status, winner, assigned, outcome, testTxn>>
configVars   == <<config, history, overrides, configTxn>>
scoreVars    == <<profile, rules, versions, explanations, jobs, present, begun, scoreTxn>>
campaignVars == <<exists, targets, performance, commits, campaignTxn>>
crmVars      == <<column, value, log, deal, queue, posts, crmTxn>>
agentVars    == <<requests, agentTxn>>
healthVars   == <<writes, anomalies, healthTxn>>
accessVars   == <<now, client, tokens, accessTxn>>
limiterVars  == <<clock, bucket, touched, calls, limiterTxn>>
vars == <<service, queueVars, promptVars, testVars, configVars, scoreVars, campaignVars,
          crmVars, agentVars, healthVars, accessVars, limiterVars>>

Services == {"queue", "prompts", "tests", "config", "scoring", "outreach", "crm", "agents",
             "health", "clients", "limiter"}

Init ==
    /\ service \in Services
    /\ Queue!Init /\ Prompts!Init /\ Tests!Init /\ Config!Init /\ Scoring!Init
    /\ Outreach!Init /\ Crm!Init /\ Agents!Init /\ Health!Init /\ Clients!Init /\ Limiter!Init

QueueStep ==
    /\ service = "queue"
    /\ Queue!Next
    /\ UNCHANGED <<service, promptVars, testVars, configVars, scoreVars, campaignVars, crmVars,
                   agentVars, healthVars, accessVars, limiterVars>>

PromptsStep ==
    /\ service = "prompts"
    /\ Prompts!Next
    /\ UNCHANGED <<service, queueVars, testVars, configVars, scoreVars, campaignVars, crmVars,
                   agentVars, healthVars, accessVars, limiterVars>>

TestsStep ==
    /\ service = "tests"
    /\ Tests!Next
    /\ UNCHANGED <<service, queueVars, promptVars, configVars, scoreVars, campaignVars, crmVars,
                   agentVars, healthVars, accessVars, limiterVars>>

ConfigStep ==
    /\ service = "config"
    /\ Config!Next
    /\ UNCHANGED <<service, queueVars, promptVars, testVars, scoreVars, campaignVars, crmVars,
                   agentVars, healthVars, accessVars, limiterVars>>

ScoringStep ==
    /\ service = "scoring"
    /\ Scoring!Next
    /\ UNCHANGED <<service, queueVars, promptVars, testVars, configVars, campaignVars, crmVars,
                   agentVars, healthVars, accessVars, limiterVars>>

OutreachStep ==
    /\ service = "outreach"
    /\ Outreach!Next
    /\ UNCHANGED <<service, queueVars, promptVars, testVars, configVars, scoreVars, crmVars,
                   agentVars, healthVars, accessVars, limiterVars>>

CrmStep ==
    /\ service = "crm"
    /\ Crm!Next
    /\ UNCHANGED <<service, queueVars, promptVars, testVars, configVars, scoreVars, campaignVars,
                   agentVars, healthVars, accessVars, limiterVars>>

AgentsStep ==
    /\ service = "agents"
    /\ Agents!Next
    /\ UNCHANGED <<service, queueVars, promptVars, testVars, configVars, scoreVars, campaignVars,
                   crmVars, healthVars, accessVars, limiterVars>>

HealthStep ==
    /\ service = "health"
    /\ Health!Next
    /\ UNCHANGED <<service, queueVars, promptVars, testVars, configVars, scoreVars, campaignVars,
                   crmVars, agentVars, accessVars, limiterVars>>

ClientsStep ==
    /\ service = "clients"
    /\ Clients!Next
    /\ UNCHANGED <<service, queueVars, promptVars, testVars, configVars, scoreVars, campaignVars,
                   crmVars, agentVars, healthVars, limiterVars>>

LimiterStep ==
    /\ service = "limiter"
    /\ Limiter!Next
    /\ UNCHANGED <<service, queueVars, promptVars, testVars, configVars, scoreVars, campaignVars,
                   crmVars, agentVars, healthVars, accessVars>>

Next ==
    \/ QueueStep \/ PromptsStep \/ TestsStep \/ ConfigStep \/ ScoringStep
    \/ OutreachStep \/ CrmStep \/ AgentsStep \/ HealthStep \/ ClientsStep \/ LimiterStep

Spec == Init /\ [][Next]_vars

-----------------------------------------------------------------------------
\* The values of the service that runs have their types.
TypesOK ==
    /\ service = "queue" => Queue!TypeOK
    /\ service = "prompts" => Prompts!TypeOK
    /\ service = "tests" => Tests!TypeOK
    /\ service = "config" => Config!TypeOK
    /\ service = "scoring" => Scoring!TypeOK
    /\ service = "outreach" => Outreach!TypeOK
    /\ service = "crm" => Crm!TypeOK
    /\ service = "agents" => Agents!TypeOK
    /\ service = "health" => Health!TypeOK
    /\ service = "clients" => Clients!TypeOK
    /\ service = "limiter" => Limiter!TypeOK

\* A restaurant is queued twice by filters only out of an overlap
\* (services/rep_queue.py, populate_queue).
DuplicatesExplained == Queue!DuplicatesExplained

\* What keeps versions tells the present one, but for overlaps: the active
\* version of a prompt, the newest value of a setting, the weights of a scoring
\* profile, the last change of a column of the CRM; and a prompt refuses updates
\* only after a rollback (services/prompt_versioning.py, configuration.py, feedback_loop.py,
\* api/routers/crm.py, tasks/hubspot_tasks.py).
HistoriesTellState ==
    /\ service = "prompts" => Prompts!OneActive /\ Prompts!RefusalsExplained
    /\ service = "config" => Config!HistoryTellsValue
    /\ service = "scoring" => Scoring!VersionsExplained
    /\ service = "crm" => Crm!HistoryIsChain

\* The figures and the status of a campaign and of an experiment come from what
\* happened: an answer is not taken back, the funnel narrows, a pause has its
\* anomaly, a winner its sample, but for overlaps (services/outreach.py,
\* anomaly_detection.py, ab_testing.py).
CampaignsTellWork ==
    /\ service = "outreach" => Outreach!AdvanceKept /\ Outreach!FunnelNarrows
    /\ service = "health" => Health!PausesExplained
    /\ service = "tests" => Tests!WinnerHasSample

\* What a caller was given ends: a token with its client and with its time, a
\* refusal with its window (services/auth_service.py, utils/rate_limiter.py).
AccessEnds ==
    /\ service = "clients" => Clients!DeactivationEnds
    /\ service = "limiter" => Limiter!WindowTellsWho

\* Work that runs elsewhere is told by its record: the stages of a pipeline, the
\* counts of a recalculation, the deal of a lead (agents/coordinator.py,
\* services/scoring_engine.py, tasks/hubspot_tasks.py).
RecordsTellWork ==
    /\ service = "agents" => Agents!PipelineTellsStages
    /\ service = "scoring" => Scoring!JobsExplained
    /\ service = "crm" => Crm!LeadFollowsDeal

=============================================================================
