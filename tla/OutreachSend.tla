---------------------------- MODULE OutreachSend ----------------------------
(***************************************************************************)
(* Sending one outreach message: the Celery task send_email_task around    *)
(* send_outreach_email (src/src/tasks/email_tasks.py,                      *)
(* src/src/services/email_service.py) and the HTTP request around send_sms *)
(* (src/src/services/sms.py, tcpa.py), against the unsubscribe endpoints   *)
(* (src/src/api/routers/unsubscribe.py) and consent changes.  The provider *)
(* is called between the gate and the transaction that records the send,   *)
(* so that what was checked, what was sent and what is stored can differ.  *)
(***************************************************************************)
EXTENDS Naturals, FiniteSets, CommunicationStatus

CONSTANTS
    Requests,        \* dispatched sends: Celery messages and HTTP requests
    Channel,         \* "email" or "sms" of each request
    Targets,
    TargetOf,        \* the outreach target a request is for
    Leads,
    LeadOf,          \* the lead of each target
    UnsubKinds,      \* the unsubscribe endpoints, a unique key each
    MaxRetries,      \* max_retries of send_email_task
    MaxFaults,       \* bound: faults per request
    MaxConsents      \* bound: changes of SMS consent

ASSUME SendAssumption ==
    /\ Channel \in [Requests -> {"email", "sms"}]
    /\ TargetOf \in [Requests -> Targets]
    /\ LeadOf \in [Targets -> Leads]
    /\ MaxRetries \in Nat /\ MaxFaults \in [Requests -> Nat] /\ MaxConsents \in Nat

VARIABLES
    status,      \* committed communication_status of each target
    activities,  \* committed outreach activities, by the message they record
    addressed,   \* leads that have an email address
    optOut,      \* leads with email_opt_out
    consent,     \* leads with an active SMS opt-in
    consents,    \* how often consent changed
    unsubscribed,\* unique keys of the unsubscribe rows
    pc,          \* what each request does next
    attempt,     \* which attempt of the request runs
    tries,       \* retries used up
    faults,      \* faults that hit the request
    held,        \* the target's status as its session read it
    outcome,     \* the status it will ask for
    accepted,    \* messages the provider has accepted for delivery
    late         \* mails among them for a lead that had opted out by then

people   == <<addressed, optOut, consent, consents, unsubscribed>>
vars     == <<status, activities, people, pc, attempt, tries, faults, held, outcome, accepted, late>>

Messages == [request : Requests, attempt : Nat]

MessagesOf(r) == {m \in accepted : m.request = r}

Target(r) == TargetOf[r]
Lead(r)   == LeadOf[TargetOf[r]]

Init ==
    /\ status = [t \in Targets |-> Queued]
    /\ activities = {}
    /\ addressed \in SUBSET Leads
    /\ optOut = {}
    /\ consent \in SUBSET Leads
    /\ consents = 0
    /\ unsubscribed = {}
    /\ pc = [r \in Requests |-> "queued"]
    /\ attempt = [r \in Requests |-> 0]
    /\ tries = [r \in Requests |-> 0]
    /\ faults = [r \in Requests |-> 0]
    /\ held = [r \in Requests |-> Queued]
    /\ outcome = [r \in Requests |-> Sent]
    /\ accepted = {}
    /\ late = {}

-----------------------------------------------------------------------------
(* One attempt: gate, provider, target, flush, commit.                     *)

EndUnmarked(r) ==            \* wrong on purpose: no address, so nothing to do
    /\ pc[r] = "queued"
    /\ Channel[r] = "email"
    /\ attempt' = [attempt EXCEPT ![r] = @ + 1]
    /\ held' = [held EXCEPT ![r] = status[Target(r)]]
    /\ \/ /\ Lead(r) \in optOut
          /\ outcome' = [outcome EXCEPT ![r] = OptedOut]
          /\ pc' = [pc EXCEPT ![r] = "flush"]
       \/ /\ Lead(r) \notin optOut
          /\ pc' = [pc EXCEPT ![r] = IF Lead(r) \in addressed THEN "call" ELSE "done"]
          /\ UNCHANGED outcome
    /\ UNCHANGED <<status, activities, people, tries, faults, accepted, late>>

\* The email gate reads the lead, then the target, which stays loaded.
StartEmail(r) ==
    /\ pc[r] = "queued"
    /\ Channel[r] = "email"
    /\ attempt' = [attempt EXCEPT ![r] = @ + 1]
    /\ held' = [held EXCEPT ![r] = status[Target(r)]]
    /\ \/ /\ Lead(r) \in optOut
          /\ outcome' = [outcome EXCEPT ![r] = OptedOut]
          /\ pc' = [pc EXCEPT ![r] = "flush"]
       \/ /\ Lead(r) \notin optOut \cup addressed
          /\ outcome' = [outcome EXCEPT ![r] = Failed]
          /\ pc' = [pc EXCEPT ![r] = "flush"]
       \/ /\ Lead(r) \in addressed \ optOut
          /\ pc' = [pc EXCEPT ![r] = "call"]
          /\ UNCHANGED outcome
    /\ UNCHANGED <<status, activities, people, tries, faults, accepted, late>>

\* can_send_sms: consent, then quiet hours, which end the request unmarked.
StartSms(r) ==
    /\ pc[r] = "queued"
    /\ Channel[r] = "sms"
    /\ attempt' = [attempt EXCEPT ![r] = @ + 1]
    /\ \/ /\ Lead(r) \notin consent
          /\ outcome' = [outcome EXCEPT ![r] = OptedOut]
          /\ pc' = [pc EXCEPT ![r] = "load"]
       \/ /\ Lead(r) \in consent
          /\ pc' = [pc EXCEPT ![r] = "call"]
          /\ UNCHANGED outcome
       \/ /\ Lead(r) \in consent
          /\ pc' = [pc EXCEPT ![r] = "done"]
          /\ UNCHANGED outcome
    /\ UNCHANGED <<status, activities, people, tries, faults, held, accepted, late>>

\* A provider that accepts and answers, refuses, or accepts while its answer
\* is lost: both clients turn every exception into a failed send.
Accept(r) ==
    LET m == [request |-> r, attempt |-> attempt[r]]
    IN  /\ accepted' = accepted \cup {m}
        /\ late' = IF Channel[r] = "email" /\ Lead(r) \in optOut THEN late \cup {m} ELSE late

RaiseWithoutId(r) ==         \* wrong on purpose: no X-Message-Id, so try again
    /\ pc[r] = "call"
    /\ Accept(r)
    /\ outcome' = [outcome EXCEPT ![r] = Sent]
    /\ IF tries[r] < MaxRetries
       THEN /\ tries' = [tries EXCEPT ![r] = @ + 1]
            /\ pc' = [pc EXCEPT ![r] = "queued"]
       ELSE /\ pc' = [pc EXCEPT ![r] = "flush"]
            /\ UNCHANGED tries
    /\ UNCHANGED <<status, activities, people, attempt, faults, held>>

CallProvider(r) ==
    /\ pc[r] = "call"
    /\ pc' = [pc EXCEPT ![r] = IF Channel[r] = "sms" THEN "load" ELSE "flush"]
    /\ \/ /\ Accept(r)
          /\ outcome' = [outcome EXCEPT ![r] = Sent]
          /\ UNCHANGED faults
       \/ /\ outcome' = [outcome EXCEPT ![r] = Failed]
          /\ UNCHANGED <<accepted, late, faults>>
       \/ /\ faults[r] < MaxFaults[r]
          /\ faults' = [faults EXCEPT ![r] = @ + 1]
          /\ Accept(r)
          /\ outcome' = [outcome EXCEPT ![r] = Failed]
    /\ UNCHANGED <<status, activities, people, attempt, tries, held>>

\* send_sms loads the target only now.
Load(r) ==
    /\ pc[r] = "load"
    /\ held' = [held EXCEPT ![r] = status[Target(r)]]
    /\ pc' = [pc EXCEPT ![r] = "flush"]
    /\ UNCHANGED <<status, activities, people, attempt, tries, faults, outcome, accepted, late>>

Moves(r) == IsValidTransition(held[r], outcome[r])

\* The UPDATE waits for the target's row, which the other transaction holds
\* until it commits, and then overwrites what that one wrote.
Flush(r) ==
    /\ pc[r] = "flush"
    /\ Moves(r) => \A q \in Requests :
                      pc[q] = "commit" /\ Target(q) = Target(r) => ~Moves(q)
    /\ pc' = [pc EXCEPT ![r] = "commit"]
    /\ UNCHANGED <<status, activities, people, attempt, tries, faults, held, outcome, accepted, late>>

\* The session is closed and forgets what it loaded.
EndAttempt(r, next) ==
    /\ pc' = [pc EXCEPT ![r] = next]
    /\ held' = [held EXCEPT ![r] = Queued]
    /\ outcome' = [outcome EXCEPT ![r] = Sent]

StatusOnly(r) ==             \* wrong on purpose: the activity is not committed
    /\ pc[r] = "commit"
    /\ status' = IF Moves(r) THEN [status EXCEPT ![Target(r)] = outcome[r]] ELSE status
    /\ EndAttempt(r, "done")
    /\ UNCHANGED <<activities, people, attempt, tries, faults, accepted, late>>

Commit(r) ==
    /\ pc[r] = "commit"
    /\ status' = IF Moves(r) THEN [status EXCEPT ![Target(r)] = outcome[r]] ELSE status
    /\ activities' = IF outcome[r] = Sent
                     THEN activities \cup {[request |-> r, attempt |-> attempt[r]]}
                     ELSE activities
    /\ EndAttempt(r, "done")
    /\ UNCHANGED <<people, attempt, tries, faults, accepted, late>>

-----------------------------------------------------------------------------
(* What goes wrong.                                                        *)

InAttempt(r) == pc[r] \in {"call", "load", "flush", "commit"}

RetryAlways(r) ==            \* wrong on purpose: no max_retries
    /\ InAttempt(r)
    /\ faults[r] < MaxFaults[r]
    /\ faults' = [faults EXCEPT ![r] = @ + 1]
    /\ tries' = [tries EXCEPT ![r] = @ + 1]
    /\ EndAttempt(r, "queued")
    /\ UNCHANGED <<status, activities, people, attempt, accepted, late>>

\* An exception (Redis before the call, the database after it) ends the
\* attempt and its transaction: the task is retried until its retries are
\* used up, the HTTP request answers 500.
Exception(r) ==
    /\ InAttempt(r)
    /\ faults[r] < MaxFaults[r]
    /\ faults' = [faults EXCEPT ![r] = @ + 1]
    /\ IF Channel[r] = "email" /\ tries[r] < MaxRetries
       THEN /\ tries' = [tries EXCEPT ![r] = @ + 1]
            /\ EndAttempt(r, "queued")
       ELSE /\ EndAttempt(r, "done")
            /\ UNCHANGED tries
    /\ UNCHANGED <<status, activities, people, attempt, accepted, late>>

\* The process dies: the late acknowledgement gives the task to another
\* worker (or it is lost with its child process), an HTTP request is gone.
Crash(r) ==
    /\ InAttempt(r)
    /\ faults[r] < MaxFaults[r]
    /\ faults' = [faults EXCEPT ![r] = @ + 1]
    /\ \/ EndAttempt(r, "done")
       \/ /\ Channel[r] = "email"
          /\ EndAttempt(r, "queued")
    /\ UNCHANGED <<status, activities, people, attempt, tries, accepted, late>>

\* The worker dies after the commit, before the task is acknowledged.
CrashBeforeAck(r) ==
    /\ pc[r] = "done"
    /\ Channel[r] = "email"
    /\ faults[r] < MaxFaults[r]
    /\ faults' = [faults EXCEPT ![r] = @ + 1]
    /\ pc' = [pc EXCEPT ![r] = "queued"]
    /\ UNCHANGED <<status, activities, people, attempt, tries, held, outcome, accepted, late>>

-----------------------------------------------------------------------------
(* The people the messages go to.                                          *)

\* A first POST to an endpoint: opt-out and row commit together.  A second
\* one breaks the row's unique key, changes nothing and answers 500.
Unsubscribe(l, kind) ==
    /\ <<kind, l>> \notin unsubscribed
    /\ kind = "one-click" => l \in addressed
    /\ optOut' = optOut \cup {l}
    /\ unsubscribed' = unsubscribed \cup {<<kind, l>>}
    /\ UNCHANGED <<status, activities, addressed, consent, consents, pc, attempt, tries,
                   faults, held, outcome, accepted, late>>

RecordConsent(l, optIn) ==
    /\ consents < MaxConsents
    /\ consents' = consents + 1
    /\ consent' = IF optIn THEN consent \cup {l} ELSE consent \ {l}
    /\ UNCHANGED <<status, activities, addressed, optOut, unsubscribed, pc, attempt, tries,
                   faults, held, outcome, accepted, late>>

\* The provider's events about a recorded mail (module EmailEvents).
Engage(m) ==
    /\ m \in activities
    /\ Channel[m.request] = "email"
    /\ \A q \in Requests : pc[q] = "commit" /\ Target(q) = Target(m.request) => ~Moves(q)
    /\ \E s \in ValidTransitions[status[Target(m.request)]] \ {Sent} :
          status' = [status EXCEPT ![Target(m.request)] = s]
    /\ UNCHANGED <<activities, people, pc, attempt, tries, faults, held, outcome, accepted, late>>

-----------------------------------------------------------------------------
RetrySkipsGate(r) ==         \* wrong on purpose: the gate is for first attempts
    \/ StartEmail(r) \/ StartSms(r)
    \/ /\ pc[r] = "queued" /\ Channel[r] = "email" /\ tries[r] > 0
       /\ attempt' = [attempt EXCEPT ![r] = @ + 1]
       /\ held' = [held EXCEPT ![r] = status[Target(r)]]
       /\ pc' = [pc EXCEPT ![r] = "call"]
       /\ UNCHANGED <<status, activities, people, tries, faults, outcome, accepted, late>>

Start(r) == StartEmail(r) \/ StartSms(r)

Step(r) == Start(r) \/ CallProvider(r) \/ Load(r) \/ Flush(r) \/ Commit(r)

AllDone == \A r \in Requests : pc[r] = "done"

Next ==
    \/ \E r \in Requests : Step(r) \/ Exception(r) \/ Crash(r) \/ CrashBeforeAck(r)
    \/ \E l \in Leads, kind \in UnsubKinds : Unsubscribe(l, kind)
    \/ \E l \in Leads, optIn \in BOOLEAN : RecordConsent(l, optIn)
    \/ \E m \in activities : Engage(m)
    \/ AllDone /\ UNCHANGED vars

Spec == Init /\ [][Next]_vars

-----------------------------------------------------------------------------
(* Properties.                                                             *)

\* Type invariant; an attempt's messages never run ahead of its count.
TypeOK ==
    /\ status \in [Targets -> Statuses]
    /\ activities \subseteq accepted
    /\ addressed \subseteq Leads
    /\ optOut \subseteq Leads
    /\ consent \subseteq Leads
    /\ consents \in 0..MaxConsents
    /\ unsubscribed \subseteq UnsubKinds \X Leads
    /\ pc \in [Requests -> {"queued", "call", "load", "flush", "commit", "done"}]
    /\ attempt \in [Requests -> Nat]
    /\ tries \in [Requests -> 0..MaxRetries]
    /\ faults \in [Requests -> Nat]
    /\ held \in [Requests -> Statuses]
    /\ outcome \in [Requests -> {Sent, Failed, OptedOut}]
    /\ late \subseteq accepted
    /\ accepted \subseteq Messages
    /\ \A m \in accepted : m.attempt \in 1..attempt[m.request]

\* Nobody is written to twice without cause: every message of a request
\* beyond the first is paid for by a fault of that request.  A provider's
\* refusal, an opt-out or a finished send is never tried again.
RepeatsAreFaults ==
    \A r \in Requests : Cardinality(MessagesOf(r)) <= 1 + faults[r]

\* A message that is not in the activity log was hit by a fault: what the
\* provider accepted and answered for is recorded once the request is done.  A
\* status behind the send has an activity to show for it, on whichever channel.
SentIsRecorded ==
    /\ \A r \in Requests :
          pc[r] = "done" => Cardinality(MessagesOf(r) \ activities) <= faults[r]
    /\ \A t \in Targets :
          status[t] \notin {Queued, Failed, OptedOut}
              => \E m \in activities : TargetOf[m.request] = t

\* An unsubscribe that overtakes an attempt costs the lead one more mail and
\* not two: what the attempt's failure starts over meets the gate again.
OneLateMail ==
    \A r \in Requests :
        Cardinality({m \in late : m.request = r}) <= 1

\* A mail that is given up leaves its target queued only if a fault hit it that
\* no retry made up for: an attempt that fails before its commit is repaid by
\* the next, and gate, refusal and lost answer all move the target on, though
\* other requests and events write the same row in between.
QueuedIsGivenUp ==
    \A r \in Requests :
        pc[r] = "done" /\ Channel[r] = "email" /\ status[Target(r)] = Queued
            => faults[r] > tries[r]
============================================================================
