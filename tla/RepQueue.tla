------------------------------ MODULE RepQueue ------------------------------
(***************************************************************************)
(* The work queue of one sales rep (src/src/services/rep_queue.py, its API *)
(* and the dashboard): items are added by hand or from filters, claimed,   *)
(* completed, skipped.  A request is a transaction that reads and writes   *)
(* without a lock, and nothing makes a restaurant unique in a queue.  The  *)
(* next-action requests change an item's context only and are left out,    *)
(* and so are the rep's statistics.                                        *)
(***************************************************************************)
EXTENDS Naturals, Sequences, FiniteSets

CONSTANTS
    Workers,       \* processes that serve requests
    Restaurants,   \* restaurants that may be queued
    MaxItems       \* bound: rows of rep_queue_items

QueueAssumption == MaxItems \in Nat /\ IsFiniteSet(Restaurants)

VARIABLES
    items,    \* rows of rep_queue_items, in the order of their commits
    txn       \* the open transaction of each worker

vars == <<items, txn>>

Statuses == {"pending", "claimed", "completed", "skipped"}
Open     == {"pending", "claimed"}

\* seen: the rows that were committed when the filters were evaluated;
\* revived: a claim has overwritten the end of the item.
Item == [restaurant : Restaurants, status : Statuses, source : {"manual", "filters"},
         seen : Nat, revived : BOOLEAN]

NoTxn == [pc |-> "idle", item |-> 0, status |-> "pending", adds |-> {}, seen |-> 0]
Txn   == [pc : {"idle", "insert", "update"}, item : Nat, status : Statuses,
          adds : SUBSET Restaurants, seen : Nat]

Init ==
    /\ items = <<>>
    /\ txn = [w \in Workers |-> NoTxn]

Begin(w, t) ==
    /\ txn[w].pc = "idle"
    /\ txn' = [txn EXCEPT ![w] = t]
    /\ UNCHANGED items

End(w) == txn' = [txn EXCEPT ![w] = NoTxn]

PendingOnly(r) ==            \* wrong on purpose: forgets claimed items
    \E i \in DOMAIN items : items[i].restaurant = r /\ items[i].status = "pending"

\* The restaurants already in the queue.
Queued(r) == \E i \in DOMAIN items : items[i].restaurant = r /\ items[i].status \in Open

-----------------------------------------------------------------------------
\* By hand: whatever is in the queue.
Add(w) ==
    /\ txn[w].pc = "idle"
    /\ Len(items) < MaxItems
    /\ \E r \in Restaurants :
          items' = Append(items, [restaurant |-> r, status |-> "pending", source |-> "manual",
                                  seen |-> Len(items), revived |-> FALSE])
    /\ UNCHANGED txn

\* Any restaurants the filters and the limit let through, except those that
\* are in the queue.
BeginPopulate(w) ==
    \E R \in SUBSET {r \in Restaurants : ~Queued(r)} :
        /\ R # {}
        /\ Begin(w, [NoTxn EXCEPT !.pc = "insert", !.adds = R, !.seen = Len(items)])

\* The rows of one commit have one place in the order of commits each.
CommitPopulate(w) ==
    LET t == txn[w]
        n == Cardinality(t.adds)
    IN  /\ t.pc = "insert"
        /\ Len(items) + n <= MaxItems
        /\ \E order \in [1..n -> t.adds] :
              /\ \A j, k \in 1..n : order[j] = order[k] => j = k
              /\ items' = items \o [k \in 1..n |->
                    [restaurant |-> order[k], status |-> "pending", source |-> "filters",
                     seen |-> t.seen, revived |-> FALSE]]
        /\ End(w)

-----------------------------------------------------------------------------
Allowed(from, to) == from = "pending" \/ (from = "claimed" /\ to # "claimed")

\* claim_item, complete_item and skip_item test the status they have read.
BeginUpdate(w) ==
    \E i \in DOMAIN items, to \in {"claimed", "completed", "skipped"} :
        /\ Allowed(items[i].status, to)
        /\ Begin(w, [NoTxn EXCEPT !.pc = "update", !.item = i, !.status = to])

\* The UPDATE names the row only, not the status that was read.
CommitUpdate(w) ==
    LET t == txn[w]
    IN  /\ t.pc = "update"
        /\ items' = [items EXCEPT
                        ![t.item].status = t.status,
                        ![t.item].revived = @ \/ /\ t.status = "claimed"
                                                 /\ items[t.item].status \notin Open]
        /\ End(w)

\* A lost connection or a crash.
Rollback(w) ==
    /\ txn[w].pc # "idle"
    /\ End(w)
    /\ UNCHANGED items

-----------------------------------------------------------------------------
Next ==
    \E w \in Workers :
        \/ Add(w)
        \/ BeginPopulate(w) \/ CommitPopulate(w)
        \/ BeginUpdate(w) \/ CommitUpdate(w)
        \/ Rollback(w)

Spec == Init /\ [][Next]_vars

-----------------------------------------------------------------------------
TypeOK ==
    /\ items \in Seq(Item)
    /\ txn \in [Workers -> Txn]
    /\ \A w \in Workers : txn[w].pc = "update" => txn[w].item \in DOMAIN items

\* Populating a queue makes a restaurant's second open item only out of an
\* overlap: the first was not yet committed when the filters were evaluated,
\* or it was finished then and a claim that had read it before brought it back
\* (services/rep_queue.py, populate_queue and claim_item).
DuplicatesExplained ==
    \A i, j \in DOMAIN items :
        /\ i < j
        /\ items[i].restaurant = items[j].restaurant
        /\ items[i].status \in Open
        /\ items[j].source = "filters"
        => i > items[j].seen \/ items[i].revived

=============================================================================
