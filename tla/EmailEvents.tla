---------------------------- MODULE EmailEvents ----------------------------
(***************************************************************************)
(* From the SendGrid webhook to the database: the endpoint that queues a   *)
(* batch of events (src/src/api/routers/webhooks.py) and the Celery        *)
(* workers that process batches and inbound replies, each batch in one     *)
(* database transaction (src/src/tasks/email_tasks.py,                     *)
(* src/src/services/reply_detection.py).                                   *)
(*                                                                         *)
(* A worker takes one step per await that reaches the database.  The       *)
(* database is PostgreSQL at READ COMMITTED: a row that a transaction      *)
(* updated is locked until it ends, an INSERT waits for a concurrent       *)
(* INSERT of the same unique key, and of the workers that wait for each    *)
(* other in a circle one is aborted.                                       *)
(***************************************************************************)
EXTENDS Naturals, Sequences, FiniteSets, CommunicationStatus

CONSTANTS
    Workers,      \* the processes of the Celery pool
    Targets,      \* rows of outreach_targets
    Leads,        \* rows of leads
    LeadOf,       \* outreach_targets.lead_id, which may be NULL
    Messages,     \* provider message ids of outreach mails
    TargetOf,     \* the target each mail was sent for
    Batches,      \* what the provider may post: sequences of events
    None,         \* NULL
    MaxPosts,     \* bound: webhook posts
    MaxRetries,   \* max_retries of the tasks
    MaxFaults     \* bound: crashes and database errors

(***************************************************************************)
(* An event has the provider's event id, the message id (either may be     *)
(* missing), its type and its time stamp.  A batch whose event has type    *)
(* "reply" is a post of the Inbound Parse webhook.                         *)
(***************************************************************************)
Events == UNION {{b[i] : i \in DOMAIN b} : b \in Batches}

ASSUME NoneAssumption == None \notin Targets \cup Leads \cup Messages

ASSUME ConstantsAssumption ==
    /\ LeadOf \in [Targets -> Leads \cup {None}]
    /\ TargetOf \in [Messages -> Targets]
    /\ \A b \in Batches : b \in Seq(Events) /\ b # <<>>
    /\ \A e \in Events : /\ e.mid \in Messages \cup {None}
                         /\ e.type \in EventTypes \cup {"reply"}

ASSUME BoundsAssumption == MaxPosts \in Nat /\ MaxRetries \in Nat /\ MaxFaults \in Nat

VARIABLES
    status,     \* committed communication_status of each target
    history,    \* committed "status-..." tracker rows of each target
    optOut,     \* leads with email_opt_out committed
    tracker,    \* committed tracker rows of provider events and replies
    recorded,   \* messages whose outreach activity is committed
    posts,      \* how many posts the webhook received
    faults,     \* how many crashes and errors happened
    queue,      \* Celery messages waiting for a worker
    accepted,   \* events of the batches that ended in a commit
    pc,         \* what each worker does next
    job,        \* the message each worker processes
    pos,        \* index of the event it is at
    tgt,        \* target_id of that event
    held,       \* the target the loop variable keeps in the session
    tx          \* what its open transaction has written

db       == <<status, history, optOut, tracker, recorded>>
outside  == <<posts, faults>>
worker   == <<pc, job, pos, tgt, held, tx>>
vars     == <<db, outside, queue, accepted, worker>>

NoJob     == [events |-> <<>>, tries |-> 0, post |-> 0]
NoTarget  == [target |-> None, status |-> Queued]
EmptyTx   == [moves |-> [t \in Targets |-> <<>>], leads |-> {}, rows |-> {}]

\* Wrong on purpose (see the mutants of PROJECT.json): one row per message.
KeyOfMessage(e) == <<e.type = "reply", e.mid>>

(***************************************************************************)
(* The unique provider_event_id of the row written for an event.  The      *)
(* message id stands in for a missing event id, so that the last form is   *)
(* reached only when both are missing.                                     *)
(***************************************************************************)
ProviderEventId(e) ==
    IF e.type = "reply" THEN <<"reply", e.mid>>
    ELSE IF e.id # None THEN <<"sg", e.id>>
    ELSE IF e.mid # None THEN <<"sg", e.mid>>
    ELSE <<e.type, e.ts>>

SameKey(r, e) == ProviderEventId(r.event) = ProviderEventId(e)

Requested(e) == IF e.type = "reply" THEN {Replied} ELSE EventHandler[e.type]

\* activity.external_message_id = sg_message_id, then activity.target_id
MatchedTarget(e) == IF e.mid \in recorded THEN TargetOf[e.mid] ELSE None

LeadOfTarget(t) == IF t \in Targets THEN LeadOf[t] ELSE None

Event(w) == job[w].events[pos[w]]

Init ==
    /\ status = [t \in Targets |-> Queued]
    /\ history = [t \in Targets |-> <<>>]
    /\ optOut = {}
    /\ tracker = {}
    /\ recorded = {}
    /\ posts = 0
    /\ faults = 0
    /\ queue = {}
    /\ accepted = {}
    /\ pc = [w \in Workers |-> "idle"]
    /\ job = [w \in Workers |-> NoJob]
    /\ pos = [w \in Workers |-> 1]
    /\ tgt = [w \in Workers |-> None]
    /\ held = [w \in Workers |-> NoTarget]
    /\ tx = [w \in Workers |-> EmptyTx]

-----------------------------------------------------------------------------
(* Row locks and unique keys of open transactions.                         *)

Moved(w) == {t \in Targets : tx[w].moves[t] # <<>>}

TargetLocked(w, t) == \E v \in Workers \ {w} : t \in Moved(v)
LeadLocked(w, l)   == \E v \in Workers \ {w} : l \in tx[v].leads
KeyPending(w, e)   == \E v \in Workers \ {w} : \E r \in tx[v].rows : SameKey(r, e)

\* The value a worker's SELECT of the target returns: its own update if its
\* transaction has one, else the committed one.
SeenStatus(w, t) ==
    LET own == tx[w].moves[t]
    IN  IF own = <<>> THEN status[t] ELSE own[Len(own)]

-----------------------------------------------------------------------------
(* The outside: the sending task and the provider's posts.                 *)

\* The one transaction of send_outreach_email, here without the time it
\* takes (module OutreachSend has it): the opt-out gate, a mail the provider
\* accepted, a mail it refused.
LogEveryMove(t, new) ==      \* wrong on purpose: the row without the move
    /\ status' = IF IsValidTransition(status[t], new)
                 THEN [status EXCEPT ![t] = new] ELSE status
    /\ history' = [history EXCEPT ![t] = Append(@, new)]

MoveCommitted(t, new) ==
    IF IsValidTransition(status[t], new)
    THEN /\ status' = [status EXCEPT ![t] = new]
         /\ history' = [history EXCEPT ![t] = Append(@, new)]
    ELSE UNCHANGED <<status, history>>

SendEmail(m) ==
    LET t == TargetOf[m]
    IN  /\ m \notin recorded
        /\ \A w \in Workers : t \notin Moved(w)
        /\ \/ /\ LeadOf[t] \in optOut
              /\ MoveCommitted(t, OptedOut)
              /\ UNCHANGED recorded
           \/ /\ LeadOf[t] \in Leads \ optOut
              /\ MoveCommitted(t, Sent)
              /\ recorded' = recorded \cup {m}
           \/ /\ LeadOf[t] \in Leads \ optOut
              /\ MoveCommitted(t, Failed)
              /\ UNCHANGED recorded
        /\ UNCHANGED <<optOut, tracker, outside, queue, accepted, worker>>

\* The endpoint answers 200 whether or not the broker took the batch.
PostBatch(b) ==
    /\ posts < MaxPosts
    /\ posts' = posts + 1
    /\ \/ queue' = queue \cup {[events |-> b, tries |-> 0, post |-> posts + 1]}
       \/ UNCHANGED queue
    /\ UNCHANGED <<db, faults, accepted, worker>>

-----------------------------------------------------------------------------
(* A worker's steps.                                                       *)

Take(w) ==
    /\ pc[w] = "idle"
    /\ \E m \in queue :
          /\ queue' = queue \ {m}
          /\ job' = [job EXCEPT ![w] = m]
    /\ pc' = [pc EXCEPT ![w] = "read"]
    /\ pos' = [pos EXCEPT ![w] = 1]
    /\ UNCHANGED <<db, outside, accepted, tgt, held, tx>>

AdvanceTooFar(w) ==          \* wrong on purpose: one past the last event
    IF pos[w] <= Len(job[w].events)
    THEN /\ pos' = [pos EXCEPT ![w] = @ + 1]
         /\ pc' = [pc EXCEPT ![w] = "read"]
    ELSE /\ pc' = [pc EXCEPT ![w] = "commit"]
         /\ UNCHANGED pos

\* The next event of the batch, or the commit after the last one.
Advance(w) ==
    IF pos[w] < Len(job[w].events)
    THEN /\ pos' = [pos EXCEPT ![w] = @ + 1]
         /\ pc' = [pc EXCEPT ![w] = "read"]
    ELSE /\ pc' = [pc EXCEPT ![w] = "commit"]
         /\ UNCHANGED pos

Seen(w, e) == \E r \in tracker \cup tx[w].rows : SameKey(r, e)

\* An event the dedup SELECT finds is skipped; so is a reply to no activity.
SkipEvent(w) ==
    /\ pc[w] = "read"
    /\ IF Event(w).type = "reply" THEN MatchedTarget(Event(w)) = None
                                  ELSE Seen(w, Event(w))
    /\ Advance(w)
    /\ UNCHANGED <<db, outside, queue, accepted, job, tgt, held, tx>>

\* session.get returns the object the loop variable still refers to, as it
\* was read; any other target is read now.
Load(w, t) ==
    IF t = None \/ held[w].target = t THEN held[w]
    ELSE [target |-> t, status |-> SeenStatus(w, t)]

ReadEvent(w) ==
    /\ pc[w] = "read"
    /\ IF Event(w).type = "reply" THEN MatchedTarget(Event(w)) # None
                                  ELSE ~Seen(w, Event(w))
    /\ tgt' = [tgt EXCEPT ![w] = MatchedTarget(Event(w))]
    /\ held' = [held EXCEPT ![w] = Load(w, MatchedTarget(Event(w)))]
    /\ pc' = [pc EXCEPT ![w] = "status"]
    /\ UNCHANGED <<db, outside, queue, accepted, job, pos, tx>>

AnyTransition(w) ==          \* wrong on purpose: no is_valid_transition
    IF tgt[w] = None THEN {} ELSE Requested(Event(w)) \ {held[w].status}

\* The transition the handler would make, by the status the session holds.
Transitions(w) ==
    IF tgt[w] = None THEN {}
    ELSE {s \in Requested(Event(w)) : IsValidTransition(held[w].status, s)}

KeepStatus(w) ==
    /\ pc[w] = "status"
    /\ Transitions(w) = {}
    /\ pc' = [pc EXCEPT ![w] = "optout"]
    /\ UNCHANGED <<db, outside, queue, accepted, job, pos, tgt, held, tx>>

ApplyStatus(w) ==
    /\ pc[w] = "status"
    /\ ~TargetLocked(w, tgt[w])
    /\ \E s \in Transitions(w) :
          /\ tx' = [tx EXCEPT ![w].moves[tgt[w]] = Append(@, s)]
          /\ held' = [held EXCEPT ![w].status = s]
    /\ pc' = [pc EXCEPT ![w] = "optout"]
    /\ UNCHANGED <<db, outside, queue, accepted, job, pos, tgt>>

HardBounceOnly(w) ==         \* wrong on purpose: complaints opt nobody out
    IF Event(w).type = "bounce" THEN {LeadOfTarget(tgt[w])} \ {None} ELSE {}

\* The lead an event opts out, unless its row already says so.
OptOutLeads(w) ==
    IF Event(w).type \in OptOutTypes THEN {LeadOfTarget(tgt[w])} \ {None} ELSE {}

OptOut(w) ==
    /\ pc[w] = "optout"
    /\ \A l \in OptOutLeads(w) \ optOut : ~LeadLocked(w, l)
    /\ tx' = [tx EXCEPT ![w].leads = @ \cup (OptOutLeads(w) \ optOut)]
    /\ pc' = [pc EXCEPT ![w] = "record"]
    /\ UNCHANGED <<db, outside, queue, accepted, job, pos, tgt, held>>

Record(w) ==
    /\ pc[w] = "record"
    /\ ~KeyPending(w, Event(w))
    /\ \A r \in tracker : ~SameKey(r, Event(w))
    /\ tx' = [tx EXCEPT ![w].rows = @ \cup {[event |-> Event(w), target |-> tgt[w]]}]
    /\ Advance(w)
    /\ UNCHANGED <<db, outside, queue, accepted, job, tgt, held>>

ForgetRows(w) ==             \* wrong on purpose: the transitions survive
    /\ tx' = [tx EXCEPT ![w].rows = {}]
    /\ held' = [held EXCEPT ![w] = NoTarget]

\* IntegrityError in process_sendgrid_events: the whole transaction is rolled
\* back, the loaded target expires and the loop goes on with the next event.
RollBack(w) ==
    /\ tx' = [tx EXCEPT ![w] = EmptyTx]
    /\ held' = [held EXCEPT ![w] = NoTarget]

RecordConflict(w) ==
    /\ pc[w] = "record"
    /\ Event(w).type # "reply"
    /\ ~KeyPending(w, Event(w))
    /\ \E r \in tracker : SameKey(r, Event(w))
    /\ RollBack(w)
    /\ Advance(w)
    /\ UNCHANGED <<db, outside, queue, accepted, job, tgt>>

Commit(w) ==
    /\ pc[w] = "commit"
    /\ status' = [t \in Targets |-> SeenStatus(w, t)]
    /\ history' = [t \in Targets |-> history[t] \o tx[w].moves[t]]
    /\ optOut' = optOut \cup tx[w].leads
    /\ tracker' = tracker \cup tx[w].rows
    /\ accepted' = accepted \cup {e \in {job[w].events[i] : i \in DOMAIN job[w].events} :
                                     e.type # "reply"}
    /\ RollBack(w)
    /\ pc' = [pc EXCEPT ![w] = "ack"]
    /\ UNCHANGED <<recorded, outside, queue, job, pos, tgt>>

Ack(w) ==
    /\ pc[w] = "ack"
    /\ pc' = [pc EXCEPT ![w] = "idle"]
    /\ job' = [job EXCEPT ![w] = NoJob]
    /\ pos' = [pos EXCEPT ![w] = 1]
    /\ tgt' = [tgt EXCEPT ![w] = None]
    /\ UNCHANGED <<db, outside, queue, accepted, held, tx>>

-----------------------------------------------------------------------------
(* What goes wrong.                                                        *)

Drop(w) ==
    /\ RollBack(w)
    /\ pc' = [pc EXCEPT ![w] = "idle"]
    /\ job' = [job EXCEPT ![w] = NoJob]
    /\ pos' = [pos EXCEPT ![w] = 1]
    /\ tgt' = [tgt EXCEPT ![w] = None]

RetryForever(w) ==           \* wrong on purpose: no max_retries
    /\ Drop(w)
    /\ queue' = queue \cup {job[w]}
    /\ UNCHANGED <<db, accepted>>

\* raise self.retry(exc=exc): the task is queued again until its retries are
\* used up, then the exception is final and the message is acknowledged.
Retry(w) ==
    /\ Drop(w)
    /\ queue' = IF job[w].tries < MaxRetries
                THEN queue \cup {[job[w] EXCEPT !.tries = @ + 1]}
                ELSE queue
    /\ UNCHANGED <<db, accepted>>

\* The duplicate reply's IntegrityError is not caught in the service.
ReplyConflict(w) ==
    /\ pc[w] = "record"
    /\ Event(w).type = "reply"
    /\ ~KeyPending(w, Event(w))
    /\ \E r \in tracker : SameKey(r, Event(w))
    /\ Retry(w)
    /\ UNCHANGED outside

\* Any exception of a step that is not the commit's acknowledgement.
DbError(w) ==
    /\ pc[w] \notin {"idle", "ack"}
    /\ faults < MaxFaults
    /\ faults' = faults + 1
    /\ Retry(w)
    /\ UNCHANGED posts

\* acks_late: a message is given out again when the worker that had it is
\* gone, and acknowledged when only its child process died.
Crash(w) ==
    /\ pc[w] # "idle"
    /\ faults < MaxFaults
    /\ faults' = faults + 1
    /\ Drop(w)
    /\ \/ queue' = queue \cup {job[w]}
       \/ UNCHANGED queue
    /\ UNCHANGED <<db, accepted, posts>>

\* The workers whose open transaction w waits for.
WaitsFor(w) ==
    CASE pc[w] = "status" /\ Transitions(w) # {} ->
            {v \in Workers \ {w} : tgt[w] \in Moved(v)}
      [] pc[w] = "optout" ->
            {v \in Workers \ {w} : (OptOutLeads(w) \ optOut) \cap tx[v].leads # {}}
      [] pc[w] = "record" ->
            {v \in Workers \ {w} : \E r \in tx[v].rows : SameKey(r, Event(w))}
      [] OTHER -> {}

Deadlocked(w) ==
    \E S \in SUBSET Workers :
        /\ w \in S
        /\ \A v \in S : /\ WaitsFor(v) \cap S # {}
                        /\ \E u \in S : v \in WaitsFor(u)

DeadlockVictim(w) ==
    /\ Deadlocked(w)
    /\ Retry(w)
    /\ UNCHANGED outside

-----------------------------------------------------------------------------
Step(w) ==
    \/ Take(w) \/ SkipEvent(w) \/ ReadEvent(w) \/ KeepStatus(w) \/ ApplyStatus(w)
    \/ OptOut(w) \/ Record(w) \/ RecordConflict(w) \/ ReplyConflict(w)
    \/ Commit(w) \/ Ack(w)

Drained == queue = {} /\ \A w \in Workers : pc[w] = "idle"

\* Everything was posted, sent and processed: the model stops here.
Finished == posts = MaxPosts /\ Drained /\ UNCHANGED vars

Next ==
    \/ \E m \in Messages : SendEmail(m)
    \/ \E b \in Batches : PostBatch(b)
    \/ \E w \in Workers : Step(w) \/ DbError(w) \/ Crash(w) \/ DeadlockVictim(w)
    \/ Finished

Spec == Init /\ [][Next]_vars

\* As long as workers can take steps one of them does, and PostgreSQL breaks
\* every circle of waiting transactions; nothing has to be sent, posted or to
\* go wrong.
Fairness == WF_vars(\E w \in Workers : Step(w) \/ DeadlockVictim(w))

FairSpec == Spec /\ Fairness

-----------------------------------------------------------------------------
(* Properties.                                                             *)

Rows == [event : Events, target : Targets \cup {None}]
Jobs == [events : Batches, tries : 0..MaxRetries, post : 1..MaxPosts]

\* Type invariant; a worker with a job is at an event of its batch.
TypeOK ==
    /\ status \in [Targets -> Statuses]
    /\ history \in [Targets -> Seq(Statuses)]
    /\ optOut \subseteq Leads
    /\ tracker \subseteq Rows
    /\ recorded \subseteq Messages
    /\ posts \in 0..MaxPosts
    /\ faults \in 0..MaxFaults
    /\ queue \subseteq Jobs
    /\ accepted \subseteq Events
    /\ pc \in [Workers -> {"idle", "read", "status", "optout", "record", "commit", "ack"}]
    /\ job \in [Workers -> Jobs \cup {NoJob}]
    /\ pos \in [Workers -> Nat \ {0}]
    /\ tgt \in [Workers -> Targets \cup {None}]
    /\ held \in [Workers -> [target : Targets \cup {None}, status : Statuses]]
    /\ tx \in [Workers -> [moves : [Targets -> Seq(Statuses)],
                           leads : SUBSET Leads, rows : SUBSET Rows]]
    /\ \A w \in Workers :
          pc[w] # "idle" => job[w] \in Jobs /\ pos[w] \in DOMAIN job[w].events

\* A hard bounce, spam report or unsubscribe that the database holds for a
\* target has opted the target's lead out: whatever is retried, rolled back,
\* skipped as a duplicate or lost, the row never commits without the opt-out
\* that a retry of the event would no longer make.
OptOutFollowsRecord ==
    \A r \in tracker :
        r.event.type \in OptOutTypes /\ LeadOfTarget(r.target) # None
            => LeadOfTarget(r.target) \in optOut

\* A status that only the provider's events give is backed by a committed
\* event of that target which asks for it: no rollback, crash or skipped
\* duplicate leaves the status of an event that was not kept.
ProviderStatuses == {Delivered, Opened, Clicked, Replied, Bounced}

StatusBackedByEvent ==
    \A t \in Targets :
        status[t] \in ProviderStatuses =>
            \E r \in tracker : r.target = t /\ status[t] \in Requested(r.event)

\* The "status-..." rows of a target tell its status: the last one committed
\* names the status the target has, though concurrent transactions write both.
HistoryEndsAtStatus ==
    \A t \in Targets :
        status[t] = IF history[t] = <<>> THEN Queued ELSE history[t][Len(history[t])]

\* "For each event: ... Creates a TrackerEvent" (email_tasks.py:120-123): when
\* the task of a batch has ended normally, every event of the batch is stored.
EventsAccounted ==
    \A e \in accepted : \E r \in tracker : r.event = e

\* Seen from commit to commit a target walks the transition table.
Lifecycle == INSTANCE CommLifecycle

FollowsLifecycle == Lifecycle!Spec

\* "Terminal states - no outbound transitions" (communication_status.py:62).
TerminalStatusStays ==
    [][\A t \in Targets :
          status[t] \in TerminalStatuses => status'[t] = status[t]]_vars

\* Every batch that reached the queue leaves it and no worker stays in the
\* middle of one: locks, duplicate keys, retries and deadlocks all resolve.
QueueDrains == <>[]Drained
============================================================================
