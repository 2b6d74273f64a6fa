----------------------------- MODULE CrmHistory -----------------------------
(***************************************************************************)
(* One column of the CRM and the history rows kept of it                   *)
(* (src/src/api/routers/crm.py): the stage or the owner of a lead, a field *)
(* of an account or of a contact.  The stage is also written by the        *)
(* qualification task, which keeps no history, and by HubSpot's deal       *)
(* events, whose webhook hands them to a task in batches                   *)
(* (src/src/api/routers/hubspot_webhooks.py, tasks/hubspot_tasks.py).      *)
(* A request reads the row, writes it and its history at the commit, and   *)
(* locks nothing in between.  Merges, which carry history rows over to     *)
(* another lead, are left out; LeadRecords has them.                       *)
(***************************************************************************)
EXTENDS Naturals, Sequences

CONSTANTS
    Workers,      \* processes that serve requests or run tasks
    Values,       \* values of the column
    First,        \* its value when the row is made
    Qualified,    \* the stage of that name
    DealStages,   \* stages of HubSpot's deal
    StageMap,     \* the local stage of a deal stage, or Unknown
    Unknown,
    MaxMoves,     \* bound: moves of the deal
    MaxPosts,     \* bound: posts of events, repeated ones included
    MaxWrites     \* bound: committed writes

HistoryAssumption ==
    /\ {First, Qualified} \subseteq Values /\ Unknown \notin Values
    /\ StageMap \in [DealStages -> Values \cup {Unknown}]
    /\ MaxMoves \in Nat /\ MaxPosts \in Nat /\ MaxWrites \in Nat

VARIABLES
    column,    \* "stage", "owner", "account" or "contact"
    value,     \* the column of the row
    log,       \* committed writes, in order; rows of the history among them
    deal,      \* stages the deal has taken in HubSpot, in order
    queue,     \* batches the broker holds
    posts,     \* posts so far
    txn        \* the open transaction of each worker

vars == <<column, value, log, deal, queue, posts, txn>>

\* event: which move of the deal, 0 for the others; seen: the writes that were
\* committed when the row was read, or made in the same batch before.
Entry == [by : {"request", "task", "deal"}, from : Values, to : Values,
          event : Nat, seen : Nat]
Batch == {<<n>> : n \in 1..MaxMoves} \cup {<<n, n + 1>> : n \in 1..MaxMoves - 1}

NoTxn == [pc |-> "idle"]

Init ==
    /\ column \in {"stage", "owner", "account", "contact"}
    /\ value = First
    /\ log = <<>>
    /\ deal = <<>>
    /\ queue = {}
    /\ posts = 0
    /\ txn = [w \in Workers |-> NoTxn]

Step(w, t) == txn' = [txn EXCEPT ![w] = t]

FirstValue(writes) == writes[1].to    \* wrong on purpose

LastValue(writes) == writes[Len(writes)].to

\* A value equal to the one that was read makes no UPDATE.
Commit(w, entries) ==
    /\ Len(log) + Len(entries) <= MaxWrites
    /\ log' = log \o entries
    /\ value' = IF \A k \in DOMAIN entries : entries[k].from = entries[k].to
                THEN value ELSE LastValue(entries)
    /\ Step(w, NoTxn)

-----------------------------------------------------------------------------
\* Stages and owners are logged even when nothing changes, fields of accounts
\* and contacts only when they do.
Logged(from, to) == column \in {"stage", "owner"} \/ from # to

BeginSet(w) ==
    /\ txn[w].pc = "idle"
    /\ \E to \in Values :
          /\ Logged(value, to)
          /\ Step(w, [pc |-> "write",
                   entry |-> [by |-> "request", from |-> value, to |-> to, event |-> 0,
                              seen |-> Len(log)]])
    /\ UNCHANGED <<column, value, log, deal, queue, posts>>

\* The restaurant qualifies; whatever the stage is by then.
BeginQualify(w) ==
    /\ txn[w].pc = "idle" /\ column = "stage"
    /\ Step(w, [pc |-> "write",
                entry |-> [by |-> "task", from |-> value, to |-> Qualified, event |-> 0,
                           seen |-> Len(log)]])
    /\ UNCHANGED <<column, value, log, deal, queue, posts>>

CommitWrite(w) ==
    /\ txn[w].pc = "write"
    /\ Commit(w, <<txn[w].entry>>)
    /\ UNCHANGED <<column, deal, queue, posts>>

-----------------------------------------------------------------------------
MoveDeal ==
    /\ column = "stage"
    /\ Len(deal) < MaxMoves
    /\ \E s \in {d \in DealStages : deal = <<>> \/ deal[Len(deal)] # d} :
          deal' = Append(deal, s)
    /\ UNCHANGED <<column, value, log, queue, posts, txn>>

\* HubSpot posts events, in any order, and some of them again.  When the broker
\* is down the answer is 200 as well, and the events are lost.
Post ==
    /\ posts < MaxPosts
    /\ posts' = posts + 1
    /\ \E b \in Batch :
          /\ b[Len(b)] <= Len(deal)
          /\ queue' \in {queue, queue \cup {b}}
    /\ UNCHANGED <<column, value, log, deal, txn>>

\* The lead is loaded once for the batch.
TakeBatch(w) ==
    /\ txn[w].pc = "idle"
    /\ \E b \in queue :
          /\ queue' = queue \ {b}
          /\ Step(w, [pc |-> "batch", batch |-> b, left |-> b, read |-> value,
                      seen |-> Len(log), entries |-> <<>>])
    /\ UNCHANGED <<column, value, log, deal, posts>>

ReadOnce(t) == t.read    \* wrong on purpose: not what the batch made of it

\* Later events of the session see what the earlier ones made of it.
Read(t) == IF t.entries = <<>> THEN t.read ELSE LastValue(t.entries)

Moved(t, n) == [by |-> "deal", from |-> Read(t), to |-> StageMap[deal[n]], event |-> n,
                seen |-> t.seen + Len(t.entries)]

\* Unknown stages change nothing.
HandleEvent(w) ==
    LET t == txn[w]
        n == Head(t.left)
    IN  /\ t.pc = "batch" /\ t.left # <<>>
        /\ Step(w, [t EXCEPT !.left = Tail(t.left),
                             !.entries = IF StageMap[deal[n]] = Unknown THEN t.entries
                                         ELSE Append(t.entries, Moved(t, n))])
        /\ UNCHANGED <<column, value, log, deal, queue, posts>>

CommitBatch(w) ==
    /\ txn[w].pc = "batch" /\ txn[w].left = <<>>
    /\ Commit(w, txn[w].entries)
    /\ UNCHANGED <<column, deal, queue, posts>>

-----------------------------------------------------------------------------
\* An error or a crash.  A batch comes back, retried or redelivered, until its
\* retries are used up; one whose errors were all swallowed does not.
Rollback(w) ==
    /\ txn[w].pc # "idle"
    /\ queue' \in IF txn[w].pc = "batch" THEN {queue, queue \cup {txn[w].batch}} ELSE {queue}
    /\ Step(w, NoTxn)
    /\ UNCHANGED <<column, value, log, deal, posts>>

Next ==
    \/ MoveDeal \/ Post
    \/ \E w \in Workers :
          \/ BeginSet(w) \/ BeginQualify(w) \/ CommitWrite(w)
          \/ TakeBatch(w) \/ HandleEvent(w) \/ CommitBatch(w)
          \/ Rollback(w)

Spec == Init /\ [][Next]_vars

-----------------------------------------------------------------------------
TypeOK ==
    /\ value \in Values
    /\ log \in Seq(Entry) /\ Len(log) <= MaxWrites
    /\ deal \in Seq(DealStages)
    /\ queue \subseteq Batch
    /\ \A w \in Workers :
          /\ txn[w].pc \in {"idle", "write", "batch"}
          /\ txn[w].pc = "write" => txn[w].entry \in Entry
          /\ txn[w].pc = "batch" => txn[w].entries \in Seq(Entry)

\* The rows of the history are a chain that ends at the value: a row starts
\* where the row before it ended, and the last one ends at the value, unless
\* a request had read the row before another write, or the qualification task,
\* which keeps no history, wrote in between; and what the task overwrote is
\* known, for the value is then the qualified stage (api/routers/crm.py,
\* update_lead_stage; tasks/hubspot_tasks.py, _handle_deal_stage_change;
\* tasks/qualification_tasks.py, qualify_restaurant_task).
Row(i)   == log[i].by = "request" \/ (log[i].by = "deal" /\ log[i].from # log[i].to)
Apart(i) == log[i].seen = i - 1
Unbroken(i, j) == \A k \in i..j : Apart(k) /\ log[k].by # "task"
HistoryIsChain ==
    \A i \in {k \in DOMAIN log : Row(k)} :
        /\ \A j \in i + 1..Len(log) :
              Row(j) /\ Unbroken(i, j) /\ (\A k \in i + 1..j - 1 : ~Row(k))
                 => log[j].from = log[i].to
        /\ (\A k \in i + 1..Len(log) : ~Row(k)) /\ (\A k \in i..Len(log) : Apart(k))
              => \/ value = log[i].to
                 \/ value = Qualified /\ \E k \in i + 1..Len(log) : log[k].by = "task"

\* A lead follows its deal: once the latest move of the deal is stored the lead
\* is at its stage, until something else writes it, or an older move of the
\* deal, posted or retried late, takes it back (tasks/hubspot_tasks.py,
\* process_hubspot_webhook).
LeadFollowsDeal ==
    \A i \in DOMAIN log :
        log[i].event = Len(deal) /\ log[i].by = "deal" /\ value # log[i].to =>
           \/ ~Apart(i)
           \/ \E j \in i + 1..Len(log) : log[j].by # "deal" \/ log[j].event < Len(deal)

=============================================================================
