------------------------------ MODULE Tracking ------------------------------
(***************************************************************************)
(* Tracked links and pixels (src/src/utils/tracking_tokens.py,             *)
(* url_wrapper.py, services/url_shortener.py, api/routers/tracking.py,     *)
(* tasks/tracking_tasks.py).  A token of a message lives in Redis; a visit *)
(* is handed to a task, which the broker delivers at least once, and is    *)
(* stored once per token.  The task locks nothing between its look and its *)
(* commit, and an erasure may take away what the token points to.          *)
(***************************************************************************)
EXTENDS Naturals, FiniteSets

CONSTANTS
    Workers,    \* processes that run the task
    Leads,
    Tokens,     \* tokens of the messages they are sent
    LeadOf,     \* whose token it is
    Targeted,   \* tokens with an outreach target: all but some of SMS
    MaxVisits   \* bound: visits

TrackingAssumption ==
    /\ LeadOf \in [Tokens -> Leads] /\ Targeted \subseteq Tokens
    /\ MaxVisits \in Nat

VARIABLES
    stored,     \* tokens in Redis
    queue,      \* visits the broker holds: <<number, token>>
    visits,     \* visits so far
    visited,    \* their tokens
    lost,       \* tokens of visits the broker, or the retries, have lost
    targets,    \* leads not erased, whose outreach target is there
    events,     \* rows of tracker_events: <<number of the visit, token>>
    txn         \* the open transaction of each worker

vars == <<stored, queue, visits, visited, lost, targets, events, txn>>

Visits == (0..MaxVisits) \X Tokens

NoTxn == [pc |-> "idle"]

Init ==
    /\ stored = {} /\ queue = {} /\ visits = 0 /\ visited = {} /\ lost = {}
    /\ targets = Leads /\ events = {}
    /\ txn = [w \in Workers |-> NoTxn]

Step(w, t) == txn' = [txn EXCEPT ![w] = t]

-----------------------------------------------------------------------------
\* A message is sent to the lead: store_tracking_token.
Wrap(k) ==
    /\ k \notin stored \cup visited /\ LeadOf[k] \in targets
    /\ stored' = stored \cup {k}
    /\ UNCHANGED <<queue, visits, visited, lost, targets, events, txn>>

\* After thirty days.
Expire(k) ==
    /\ k \in stored
    /\ stored' = stored \ {k}
    /\ UNCHANGED <<queue, visits, visited, lost, targets, events, txn>>

\* A visit with an unknown token is only answered.  One the broker does not
\* take fails.
Visit(k) ==
    /\ k \in stored
    /\ visits < MaxVisits
    /\ visits' = visits + 1
    /\ visited' = visited \cup {k}
    /\ \/ queue' = queue \cup {<<visits', k>>} /\ lost' = lost
       \/ lost' = lost \cup {k} /\ queue' = queue
    /\ UNCHANGED <<stored, targets, events, txn>>

SameLead(e, k) == LeadOf[e[2]] = LeadOf[k]    \* wrong on purpose

\* The task looks for the event of the same token and type.
Same(e, k) == e[2] = k

Take(w) ==
    /\ txn[w].pc = "idle"
    /\ \E m \in queue :
          /\ queue' = queue \ {m}
          /\ Step(w, [pc |-> "insert", visit |-> m,
                      found |-> \E e \in events : Same(e, m[2])])
    /\ UNCHANGED <<stored, visits, visited, lost, targets, events>>

\* The unique key, and the foreign key of the target.
Refused(k) ==
    \/ \E e \in events : e[2] = k
    \/ k \in Targeted /\ LeadOf[k] \notin targets

\* A duplicate; one that was not found but is refused is taken for one as well.
Skip(w) ==
    /\ txn[w].pc = "insert"
    /\ txn[w].found \/ Refused(txn[w].visit[2])
    /\ Step(w, NoTxn)
    /\ UNCHANGED <<stored, queue, visits, visited, lost, targets, events>>

Insert(w) ==
    /\ txn[w].pc = "insert"
    /\ ~txn[w].found /\ ~Refused(txn[w].visit[2])
    /\ events' = events \cup {txn[w].visit}
    /\ Step(w, NoTxn)
    /\ UNCHANGED <<stored, queue, visits, visited, lost, targets>>

\* An error or a crash: the visit is retried or redelivered, until its retries
\* are used up.
Fail(w) ==
    /\ txn[w].pc = "insert"
    /\ \/ queue' = queue \cup {txn[w].visit} /\ lost' = lost
       \/ lost' = lost \cup {txn[w].visit[2]} /\ queue' = queue
    /\ Step(w, NoTxn)
    /\ UNCHANGED <<stored, visits, visited, targets, events>>

\* The worker had stored the visit when it crashed, before its acknowledgement.
Redeliver ==
    /\ \E e \in events \ queue : queue' = queue \cup {e}
    /\ UNCHANGED <<stored, visits, visited, lost, targets, events, txn>>

\* The targets and the events of the lead are deleted; Redis is not told.
Erase(l) ==
    /\ l \in targets
    /\ targets' = targets \ {l}
    /\ events' = {e \in events : LeadOf[e[2]] # l}
    /\ UNCHANGED <<stored, queue, visits, visited, lost, txn>>

Next ==
    \/ \E k \in Tokens : Wrap(k) \/ Expire(k) \/ Visit(k)
    \/ \E w \in Workers : Take(w) \/ Skip(w) \/ Insert(w) \/ Fail(w)
    \/ \E l \in Leads : Erase(l)
    \/ Redeliver

Spec == Init /\ [][Next]_vars

-----------------------------------------------------------------------------
TypeOK ==
    /\ stored \cup visited \cup lost \subseteq Tokens
    /\ targets \subseteq Leads
    /\ queue \cup events \subseteq Visits /\ visits \in 0..MaxVisits
    /\ \A w \in Workers :
          txn[w] = NoTxn \/ txn[w] \in [pc : {"insert"}, visit : Visits, found : BOOLEAN]

\* Every visit that was not lost has left an event of its token, or will, and one
\* only, however often the task is delivered.  The visits of a lead that was
\* erased may leave none, and none that tells its target
\* (tasks/tracking_tasks.py, log_tracker_event).
Coming(k) ==
    \/ \E m \in queue : m[2] = k
    \/ \E w \in Workers : txn[w].pc = "insert" /\ txn[w].visit[2] = k

VisitsAccounted ==
    /\ \A k \in visited :
          Coming(k) \/ k \in lost \/ LeadOf[k] \notin targets \/ \E e \in events : e[2] = k
    /\ \A e, f \in events : e[2] = f[2] => e = f
    /\ \A e \in events : LeadOf[e[2]] \in targets \/ e[2] \notin Targeted

=============================================================================
