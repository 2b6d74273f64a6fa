-------------------------- MODULE BackOfficeProofs --------------------------
(***************************************************************************)
(* Proofs about the services of the office side, each for every value of   *)
(* its constants: first a theorem for each service by itself, then those   *)
(* about their composition.                                                *)
(***************************************************************************)
EXTENDS BackOffice, FiniteSetTheorems, SequenceTheorems, WellFoundedInduction, TLAPS

-----------------------------------------------------------------------------
(* The rep queue.                                                          *)

\* Item i is no open item of the restaurants R, or was brought back.
Excused(i, R) ==
    items[i].restaurant \in R => items[i].status \notin Queue!Open \/ items[i].revived

\* A populate under way has seen rows that are there, and those of the
\* restaurants it adds were finished then.
Populating(w) ==
    queueTxn[w].pc = "insert" =>
        /\ queueTxn[w].seen <= Len(items)
        /\ \A i \in 1..queueTxn[w].seen : Excused(i, queueTxn[w].adds)

\* No update makes an item pending.
Updating(w) == queueTxn[w].pc = "update" => queueTxn[w].status # "pending"

QueueInv ==
    /\ Queue!TypeOK
    /\ Queue!DuplicatesExplained
    /\ \A w \in Workers : Populating(w) /\ Updating(w)

LEMMA ItemsType ==
    ASSUME Queue!TypeOK
    PROVE  /\ DOMAIN items = 1..Len(items) /\ Len(items) \in Nat
           /\ \A i \in 1..Len(items) : items[i] \in Queue!Item
  BY LenProperties, ElementOfSeq DEF Queue!TypeOK

LEMMA NoQueueTxn == Queue!NoTxn \in Queue!Txn
  BY DEF Queue!Txn, Queue!NoTxn, Queue!Statuses

\* Items that are added to the queue leave every row as it was.
LEMMA QueueGrows ==
    ASSUME QueueInv, NEW more \in Seq(Queue!Item), items' = items \o more,
           NEW w \in Workers, queueTxn' = [queueTxn EXCEPT ![w] = Queue!NoTxn]
                \/ queueTxn' = queueTxn,
           \A k \in 1..Len(more) : more[k].source = "filters" =>
               /\ more[k].seen <= Len(items)
               /\ \A i \in 1..more[k].seen : Excused(i, {more[k].restaurant})
    PROVE  QueueInv'
  <1>1. /\ items \in Seq(Queue!Item) /\ queueTxn \in [Workers -> Queue!Txn]
        /\ Len(items) \in Nat /\ Len(more) \in Nat
        /\ DOMAIN items = 1..Len(items)
    BY ItemsType, LenProperties DEF QueueInv, Queue!TypeOK
  <1>2. /\ items' \in Seq(Queue!Item) /\ Len(items') = Len(items) + Len(more)
        /\ DOMAIN items' = 1..Len(items')
    BY <1>1, ConcatProperties, LenProperties
  <1>3. /\ \A i \in 1..Len(items) : items'[i] = items[i]
        /\ \A i \in Len(items) + 1..Len(items') :
              i - Len(items) \in 1..Len(more) /\ items'[i] = more[i - Len(items)]
    BY <1>1, <1>2, ConcatProperties
  <1>4. \A v \in Workers : queueTxn'[v] \in {queueTxn[v], Queue!NoTxn}
    BY <1>1
  <1>5. Queue!TypeOK'
    <2>1. queueTxn' \in [Workers -> Queue!Txn]
      BY <1>1, NoQueueTxn
    <2>2. \A v \in Workers : queueTxn'[v].pc = "update" => queueTxn'[v].item \in DOMAIN items'
      BY <1>1, <1>2, <1>4 DEF QueueInv, Queue!TypeOK, Queue!NoTxn
    <2>3. QED
      BY <1>2, <2>1, <2>2 DEF Queue!TypeOK
  <1>6. ASSUME NEW i \in DOMAIN items', NEW j \in DOMAIN items', i < j,
               items'[i].restaurant = items'[j].restaurant,
               items'[i].status \in Queue!Open, items'[j].source = "filters",
               ~(i > items'[j].seen)
        PROVE  items'[i].revived
    <2>1. CASE j <= Len(items)
      BY <1>1, <1>2, <1>3, <1>6, <2>1 DEF QueueInv, Queue!DuplicatesExplained
    <2>2. CASE j > Len(items)
      <3>1. j - Len(items) \in 1..Len(more) /\ items'[j] = more[j - Len(items)]
        BY <1>1, <1>2, <1>3, <2>2
      <3>2. more[j - Len(items)] \in Queue!Item
        BY <3>1, ElementOfSeq
      <3>3. items'[j].seen \in Nat /\ items'[j].seen <= Len(items)
        BY <1>6, <3>1, <3>2 DEF Queue!Item
      <3>4. i \in 1..items'[j].seen /\ i <= Len(items)
        BY <1>1, <1>2, <1>6, <3>3
      <3>5. Excused(i, {items'[j].restaurant})
        BY <1>6, <3>1, <3>4
      <3>6. items'[i] = items[i]
        BY <1>1, <1>2, <1>3, <3>4
      <3>7. QED
        BY <1>6, <3>5, <3>6 DEF Excused
    <2>3. QED
      BY <1>1, <1>2, <2>1, <2>2
  <1>7. ASSUME NEW v \in Workers PROVE Populating(v)' /\ Updating(v)'
    <2>1. queueTxn[v].seen \in Nat
      BY <1>1 DEF Queue!Txn
    <2>2. ASSUME queueTxn'[v].pc = "insert" PROVE Populating(v)'
      <3>1. queueTxn'[v] = queueTxn[v]
        BY <1>4, <2>2 DEF Queue!NoTxn
      <3>2. /\ queueTxn[v].seen <= Len(items)
            /\ \A i \in 1..queueTxn[v].seen : Excused(i, queueTxn[v].adds)
        BY <2>2, <3>1 DEF QueueInv, Populating
      <3>3. \A i \in 1..queueTxn[v].seen : items'[i] = items[i]
        BY <1>1, <1>3, <2>1, <3>2
      <3>4. queueTxn[v].seen <= Len(items')
        BY <1>1, <1>2, <2>1, <3>2
      <3>5. ASSUME NEW i \in 1..queueTxn[v].seen PROVE Excused(i, queueTxn[v].adds)'
        BY <3>1, <3>2, <3>3 DEF Excused
      <3>6. QED
        BY <3>1, <3>4, <3>5 DEF Populating
    <2>3. Updating(v)'
      BY <1>4 DEF QueueInv, Updating, Queue!NoTxn
    <2>4. QED
      BY <2>2, <2>3 DEF Populating
  <1>8. QED
    BY <1>5, <1>6, <1>7 DEF QueueInv, Queue!DuplicatesExplained

LEMMA QueueInit == Queue!Init => QueueInv
  <1> SUFFICES ASSUME Queue!Init PROVE QueueInv
    OBVIOUS
  <1>1. items = <<>> /\ queueTxn = [w \in Workers |-> Queue!NoTxn]
    BY DEF Queue!Init
  <1>2. items \in Seq(Queue!Item) /\ DOMAIN items = {}
    BY <1>1
  <1>3. queueTxn \in [Workers -> Queue!Txn] /\ \A w \in Workers : queueTxn[w].pc = "idle"
    BY <1>1, NoQueueTxn DEF Queue!NoTxn
  <1>4. QED
    BY <1>2, <1>3
       DEF QueueInv, Queue!TypeOK, Queue!DuplicatesExplained, Populating, Updating

\* A transaction that begins, or ends, leaves the queue alone.
LEMMA QueueKept ==
    ASSUME QueueInv, NEW w \in Workers, items' = items, NEW t \in Queue!Txn,
           queueTxn' = [queueTxn EXCEPT ![w] = t],
           t.pc = "update" => t.item \in DOMAIN items /\ t.status # "pending",
           t.pc = "insert" => /\ t.seen <= Len(items)
                              /\ \A i \in 1..t.seen : Excused(i, t.adds)
    PROVE  QueueInv'
  <1>1. queueTxn \in [Workers -> Queue!Txn]
    BY DEF QueueInv, Queue!TypeOK
  <1>2. queueTxn' \in [Workers -> Queue!Txn] /\ queueTxn'[w] = t
        /\ \A v \in Workers \ {w} : queueTxn'[v] = queueTxn[v]
    BY <1>1
  <1>3. Queue!TypeOK' /\ Queue!DuplicatesExplained'
    BY <1>2 DEF QueueInv, Queue!TypeOK, Queue!DuplicatesExplained
  <1>4. ASSUME NEW v \in Workers PROVE Populating(v)' /\ Updating(v)'
    <2>1. CASE v = w
      BY <1>2, <2>1 DEF Populating, Updating, Excused
    <2>2. CASE v # w
      BY <1>2, <2>2 DEF QueueInv, Populating, Updating, Excused
    <2>3. QED
      BY <2>1, <2>2
  <1>5. QED
    BY <1>3, <1>4 DEF QueueInv

\* An update opens a finished item only as one that was brought back.
LEMMA CommitUpdateQueue ==
    ASSUME QueueInv, NEW w \in Workers, Queue!CommitUpdate(w)
    PROVE  QueueInv'
  <1> DEFINE t    == queueTxn[w]
             k    == t.item
             item == [items[k] EXCEPT !.status = t.status,
                          !.revived = items[k].revived \/ (t.status = "claimed"
                                          /\ items[k].status \notin Queue!Open)]
  <1>1. /\ items \in Seq(Queue!Item) /\ queueTxn \in [Workers -> Queue!Txn]
        /\ DOMAIN items = 1..Len(items) /\ Len(items) \in Nat
        /\ t \in Queue!Txn /\ k \in DOMAIN items /\ t.status \in Queue!Statuses \ {"pending"}
        /\ items[k] \in Queue!Item
    BY ItemsType DEF QueueInv, Queue!TypeOK, Queue!CommitUpdate, Queue!Txn, Updating
  <1>2. items' = [items EXCEPT ![k] = item]
    BY DEF Queue!CommitUpdate
  <1>3. /\ item \in Queue!Item /\ item.seen = items[k].seen /\ item.source = items[k].source
        /\ item.restaurant = items[k].restaurant /\ item.status = t.status
        /\ item.revived = (items[k].revived \/ (t.status = "claimed"
                              /\ items[k].status \notin Queue!Open))
    BY <1>1 DEF Queue!Item
  <1> HIDE DEF item
  <1>4. /\ items' \in Seq(Queue!Item) /\ Len(items') = Len(items)
        /\ DOMAIN items' = DOMAIN items
        /\ items'[k] = item /\ \A i \in DOMAIN items \ {k} : items'[i] = items[i]
    BY <1>1, <1>2, <1>3, ExceptSeq, LenProperties
  <1>5. \A i \in DOMAIN items :
           /\ items'[i].seen = items[i].seen /\ items'[i].source = items[i].source
           /\ items'[i].restaurant = items[i].restaurant
           /\ items[i].revived => items'[i].revived
           /\ items'[i].status \in Queue!Open =>
                 items[i].status \in Queue!Open \/ items'[i].revived
    <2>1. ASSUME NEW i \in DOMAIN items, i = k
          PROVE  items'[i].status \in Queue!Open =>
                    items[i].status \in Queue!Open \/ items'[i].revived
      BY <1>1, <1>3, <1>4, <2>1 DEF Queue!Open, Queue!Statuses
    <2>2. QED
      BY <1>3, <1>4, <2>1
  <1>6. queueTxn' = [queueTxn EXCEPT ![w] = Queue!NoTxn]
    BY DEF Queue!CommitUpdate, Queue!End
  <1>7. /\ queueTxn' \in [Workers -> Queue!Txn] /\ queueTxn'[w] = Queue!NoTxn
        /\ \A v \in Workers \ {w} : queueTxn'[v] = queueTxn[v]
    BY <1>1, <1>6, NoQueueTxn
  <1>8. Queue!TypeOK'
    <2>1. \A v \in Workers : queueTxn'[v].pc = "update" => queueTxn'[v].item \in DOMAIN items'
      BY <1>4, <1>7 DEF QueueInv, Queue!TypeOK, Queue!NoTxn
    <2>2. QED
      BY <1>4, <1>7, <2>1 DEF Queue!TypeOK
  <1>9. Queue!DuplicatesExplained'
    BY <1>4, <1>5 DEF QueueInv, Queue!DuplicatesExplained
  <1>10. ASSUME NEW v \in Workers PROVE Populating(v)' /\ Updating(v)'
    <2>1. CASE v = w
      BY <1>7, <2>1 DEF Populating, Updating, Queue!NoTxn
    <2>2. CASE v # w
      <3>1. queueTxn[v].seen \in Nat /\ queueTxn'[v] = queueTxn[v]
        BY <1>1, <1>7, <2>2 DEF Queue!Txn
      <3>2. ASSUME queueTxn[v].pc = "insert", NEW i \in 1..queueTxn[v].seen
            PROVE  Excused(i, queueTxn[v].adds)'
        <4>1. i \in DOMAIN items /\ Excused(i, queueTxn[v].adds)
          BY <1>1, <3>1, <3>2 DEF QueueInv, Populating
        <4>2. QED
          BY <1>5, <3>1, <4>1 DEF Excused
      <3>3. QED
        BY <1>4, <3>1, <3>2 DEF QueueInv, Populating, Updating
    <2>3. QED
      BY <2>1, <2>2
  <1>11. QED
    BY <1>8, <1>9, <1>10 DEF QueueInv

LEMMA AddQueue ==
    ASSUME QueueInv, NEW w \in Workers, Queue!Add(w)
    PROVE  QueueInv'
  <1>1. PICK r \in Restaurants :
            items' = Append(items, [restaurant |-> r, status |-> "pending",
                                    source |-> "manual", seen |-> Len(items),
                                    revived |-> FALSE])
    BY DEF Queue!Add
  <1>2. PICK item : item = [restaurant |-> r, status |-> "pending", source |-> "manual",
                            seen |-> Len(items), revived |-> FALSE]
    OBVIOUS
  <1>3. item \in Queue!Item /\ item.source = "manual"
    BY <1>2, ItemsType DEF QueueInv, Queue!Item, Queue!Statuses
  <1>4. PICK more : more = <<item>>
    OBVIOUS
  <1>5. more \in Seq(Queue!Item) /\ Len(more) = 1 /\ more[1] = item
    BY <1>3, <1>4
  <1>6. \A k \in 1..Len(more) : more[k].source # "filters"
    <2>1. \A k \in 1..1 : k = 1
      OBVIOUS
    <2>2. QED
      BY <1>3, <1>5, <2>1
  <1>7. items' = items \o more
    <2>1. items' = Append(items, item)
      BY <1>1, <1>2
    <2>2. items \in Seq(Queue!Item)
      BY DEF QueueInv, Queue!TypeOK
    <2>3. Append(items, item) = items \o <<item>>
      BY <1>3, <2>2
    <2>4. QED
      BY <1>4, <2>1, <2>3
  <1>8. queueTxn' = queueTxn
    BY DEF Queue!Add
  <1>9. QED
    BY <1>5, <1>6, <1>7, <1>8, QueueGrows

LEMMA CommitPopulateQueue ==
    ASSUME Queue!QueueAssumption, QueueInv, NEW w \in Workers, Queue!CommitPopulate(w)
    PROVE  QueueInv'
  <1>1. PICK t : t = queueTxn[w]
    OBVIOUS
  <1>2. t \in Queue!Txn /\ t.adds \subseteq Restaurants /\ t.seen \in Nat /\ t.pc = "insert"
    BY <1>1 DEF QueueInv, Queue!TypeOK, Queue!Txn, Queue!CommitPopulate
  <1>3. PICK n : n = Queue!Cardinality(t.adds)
    OBVIOUS
  <1>4. n \in Nat
    <2>1. IsFiniteSet(Restaurants)
      BY DEF Queue!QueueAssumption, Queue!IsFiniteSet, IsFiniteSet
    <2>2. n = Cardinality(t.adds)
      BY <1>3 DEF Queue!Cardinality, Cardinality
    <2>3. QED
      BY <1>2, <2>1, <2>2, FS_Subset, FS_CardinalityType
  <1>5. PICK order \in [1..n -> t.adds] :
            items' = items \o [k \in 1..n |->
                [restaurant |-> order[k], status |-> "pending", source |-> "filters",
                 seen |-> t.seen, revived |-> FALSE]]
    BY <1>1, <1>3 DEF Queue!CommitPopulate
  <1>6. PICK more : more = [k \in 1..n |->
                [restaurant |-> order[k], status |-> "pending", source |-> "filters",
                 seen |-> t.seen, revived |-> FALSE]]
    OBVIOUS
  <1>7. more \in Seq(Queue!Item) /\ Len(more) = n
    <2>1. \A k \in 1..n : more[k] \in Queue!Item
      BY <1>2, <1>5, <1>6 DEF Queue!Item, Queue!Statuses
    <2>2. more \in [1..n -> Queue!Item]
      BY <1>6, <2>1
    <2>3. QED
      BY <1>4, <2>2
  <1>8. \A k \in 1..n : more[k].restaurant \in t.adds /\ more[k].seen = t.seen
    BY <1>5, <1>6
  <1>9. t.seen <= Len(items) /\ \A i \in 1..t.seen : Excused(i, t.adds)
    BY <1>1, <1>2 DEF QueueInv, Populating
  <1>10. \A k \in 1..Len(more) : more[k].source = "filters" =>
            /\ more[k].seen <= Len(items)
            /\ \A i \in 1..more[k].seen : Excused(i, {more[k].restaurant})
    BY <1>7, <1>8, <1>9 DEF Excused
  <1>11. items' = items \o more /\ queueTxn' = [queueTxn EXCEPT ![w] = Queue!NoTxn]
    BY <1>5, <1>6 DEF Queue!CommitPopulate, Queue!End
  <1>12. QED
    BY <1>7, <1>10, <1>11, QueueGrows

LEMMA QueueAnyStep ==
    ASSUME Queue!QueueAssumption, QueueInv, [Queue!Next]_(Queue!vars)
    PROVE  QueueInv'
  <1>1. CASE UNCHANGED Queue!vars
    BY <1>1
       DEF Queue!vars, QueueInv, Queue!TypeOK, Queue!DuplicatesExplained, Populating, Updating,
           Excused
  <1>2. ASSUME NEW w \in Workers, Queue!BeginPopulate(w) PROVE QueueInv'
    <2>1. PICK R \in SUBSET {r \in Restaurants : ~Queue!Queued(r)} :
              Queue!Begin(w, [Queue!NoTxn EXCEPT !.pc = "insert", !.adds = R,
                                                 !.seen = Len(items)])
      BY <1>2 DEF Queue!BeginPopulate
    <2>2. PICK t : t = [Queue!NoTxn EXCEPT !.pc = "insert", !.adds = R, !.seen = Len(items)]
      OBVIOUS
    <2>3. Len(items) \in Nat /\ DOMAIN items = 1..Len(items)
      BY ItemsType DEF QueueInv
    <2>4. t \in Queue!Txn /\ t.pc = "insert" /\ t.adds = R /\ t.seen = Len(items)
      BY <2>2, <2>3 DEF Queue!NoTxn, Queue!Txn, Queue!Statuses
    <2>5. \A i \in 1..t.seen : Excused(i, t.adds)
      BY <2>3, <2>4 DEF Excused, Queue!Queued
    <2>6. items' = items /\ queueTxn' = [queueTxn EXCEPT ![w] = t]
      BY <2>1, <2>2 DEF Queue!Begin
    <2>7. t.pc # "update" /\ t.seen <= Len(items)
      BY <2>3, <2>4
    <2>8. QED
      BY <2>4, <2>5, <2>6, <2>7, QueueKept
  <1>3. ASSUME NEW w \in Workers, Queue!BeginUpdate(w) PROVE QueueInv'
    <2>1. PICK i \in DOMAIN items, to \in {"claimed", "completed", "skipped"} :
              Queue!Begin(w, [Queue!NoTxn EXCEPT !.pc = "update", !.item = i, !.status = to])
      BY <1>3 DEF Queue!BeginUpdate
    <2>2. PICK t : t = [Queue!NoTxn EXCEPT !.pc = "update", !.item = i, !.status = to]
      OBVIOUS
    <2>3. i \in Nat
      BY ItemsType DEF QueueInv
    <2>4. t \in Queue!Txn /\ t.pc = "update" /\ t.item = i /\ t.status = to
      BY <2>2, <2>3 DEF Queue!NoTxn, Queue!Txn, Queue!Statuses
    <2>5. items' = items /\ queueTxn' = [queueTxn EXCEPT ![w] = t]
      BY <2>1, <2>2 DEF Queue!Begin
    <2>6. QED
      BY <2>4, <2>5, QueueKept
  <1>4. ASSUME NEW w \in Workers, Queue!Rollback(w) PROVE QueueInv'
    <2>1. items' = items /\ queueTxn' = [queueTxn EXCEPT ![w] = Queue!NoTxn]
      BY <1>4 DEF Queue!Rollback, Queue!End
    <2>2. Queue!NoTxn.pc = "idle"
      BY DEF Queue!NoTxn
    <2>3. QED
      BY <2>1, <2>2, NoQueueTxn, QueueKept
  <1>5. QED
    BY <1>1, <1>2, <1>3, <1>4, AddQueue, CommitPopulateQueue, CommitUpdateQueue DEF Queue!Next

\* Whatever requests meet, a queue that is populated gets a second open item of
\* a restaurant only out of an overlap (services/rep_queue.py, populate_queue).
THEOREM QueueDuplicates ==
    ASSUME Queue!QueueAssumption
    PROVE  Queue!Spec => []Queue!DuplicatesExplained
  <1>1. QueueInv => Queue!DuplicatesExplained
    BY DEF QueueInv
  <1>2. QueueInv /\ [Queue!Next]_(Queue!vars) => QueueInv'
    BY QueueAnyStep
  <1>3. QED
    BY <1>1, <1>2, QueueInit, PTL DEF Queue!Spec

-----------------------------------------------------------------------------
(* API clients.                                                            *)

Late       == {i \in DOMAIN tokens : tokens[i].late}
Persisting == {w \in Workers : accessTxn[w].pc = "persist"}

Request == [pc : {"refresh", "persist"}, scopes : SUBSET Scopes, after : BOOLEAN]

AccessTypes ==
    /\ now \in Nat
    /\ client \in Clients!Client
    /\ tokens \in Seq(Clients!Token)
    /\ accessTxn \in [Workers -> Request \cup {Clients!NoTxn}]

\* A token carries scopes of the client, comes from no late token, ends a
\* lifetime after it was made, and was made before the deactivation if not late.
TokensTell ==
    \A i \in DOMAIN tokens :
        /\ tokens[i].scopes \subseteq client.scopes
        /\ ~tokens[i].after
        /\ tokens[i].late => ~Clients!Active
        /\ ~tokens[i].late /\ ~Clients!Active
              => tokens[i].expires <= client.deactivated + Lifetime
        /\ Clients!Active => tokens[i].expires <= now + Lifetime

\* A request that has found the client active does not refresh a late token.
RequestsTell ==
    \A w \in Workers : accessTxn[w].pc # "idle" =>
        /\ accessTxn[w].scopes \subseteq client.scopes
        /\ accessTxn[w].after => accessTxn[w].pc = "refresh" /\ ~Clients!Active

\* Requests under way at the deactivation have become late tokens, are still
\* under way, or failed.
UnderwayKept ==
    ~Clients!Active =>
        /\ client.deactivated <= now
        /\ Cardinality(Late) + Cardinality(Persisting) <= client.underway

AccessInv == AccessTypes /\ TokensTell /\ RequestsTell /\ UnderwayKept

LEMMA SameCardinality == \A S : Clients!Cardinality(S) = Cardinality(S)
  BY DEF Clients!Cardinality, Cardinality

LEMMA CountedAccess ==
    ASSUME Clients!AccessAssumption, AccessTypes
    PROVE  /\ IsFiniteSet(Workers)
           /\ IsFiniteSet(Late) /\ Cardinality(Late) \in Nat
           /\ IsFiniteSet(Persisting) /\ Cardinality(Persisting) \in Nat
           /\ Cardinality(Persisting) <= Cardinality(Workers) /\ Cardinality(Workers) \in Nat
           /\ Lifetime \in Nat /\ Never \notin Nat
           /\ DOMAIN tokens = 1..Len(tokens) /\ Len(tokens) \in Nat
           /\ \A i \in DOMAIN tokens : tokens[i] \in Clients!Token
           /\ client.underway \in Nat /\ client.deactivated \in Nat \cup {Never}
           /\ client.scopes \subseteq Scopes
  <1>1. IsFiniteSet(Workers)
    BY DEF Clients!AccessAssumption, Clients!IsFiniteSet, IsFiniteSet
  <1>2. DOMAIN tokens = 1..Len(tokens) /\ Len(tokens) \in Nat
        /\ \A i \in DOMAIN tokens : tokens[i] \in Clients!Token
    BY LenProperties, ElementOfSeq DEF AccessTypes
  <1>3. IsFiniteSet(1..Len(tokens))
    BY <1>2, FS_Interval
  <1>4. Late \subseteq 1..Len(tokens) /\ Persisting \subseteq Workers
    BY <1>2 DEF Late, Persisting
  <1>5. Cardinality(Workers) \in Nat
    BY <1>1, FS_CardinalityType
  <1>6. client.underway \in 0..Cardinality(Workers)
    BY SameCardinality DEF AccessTypes, Clients!Client
  <1>7. IsFiniteSet(Late) /\ IsFiniteSet(Persisting)
        /\ Cardinality(Persisting) <= Cardinality(Workers)
    BY <1>1, <1>3, <1>4, FS_Subset
  <1>8. Cardinality(Late) \in Nat /\ Cardinality(Persisting) \in Nat
    BY <1>7, FS_CardinalityType
  <1>9. client.deactivated \in Nat \cup {Never} /\ client.scopes \subseteq Scopes
    BY DEF AccessTypes, Clients!Client
  <1>10. Lifetime \in Nat /\ Never \notin Nat
    BY DEF Clients!AccessAssumption
  <1>11. QED
    BY <1>1, <1>2, <1>5, <1>6, <1>7, <1>8, <1>9, <1>10

LEMMA AccessInit ==
    ASSUME Clients!AccessAssumption, Clients!Init
    PROVE  AccessInv
  <1>1. /\ now = 0 /\ tokens = <<>> /\ accessTxn = [w \in Workers |-> Clients!NoTxn]
        /\ client \in [scopes : SUBSET Scopes, deactivated : {Never}, underway : {0}]
    BY DEF Clients!Init
  <1>2. tokens \in Seq(Clients!Token) /\ DOMAIN tokens = {}
    BY <1>1
  <1>3. 0 \in 0..Clients!Cardinality(Workers)
    <2>1. IsFiniteSet(Workers)
      BY DEF Clients!AccessAssumption, Clients!IsFiniteSet, IsFiniteSet
    <2>2. QED
      BY <2>1, SameCardinality, FS_CardinalityType
  <1>4. AccessTypes
    BY <1>1, <1>2, <1>3 DEF AccessTypes, Clients!Client
  <1>5. \A w \in Workers : accessTxn[w].pc = "idle"
    BY <1>1 DEF Clients!NoTxn
  <1>6. Clients!Active
    BY <1>1 DEF Clients!Active
  <1>7. QED
    BY <1>2, <1>4, <1>5, <1>6 DEF AccessInv, TokensTell, RequestsTell, UnderwayKept

\* A request moves; nobody starts to persist once the client is deactivated.
LEMMA AccessMoves ==
    ASSUME Clients!AccessAssumption, AccessInv, NEW w \in Workers,
           now' = now, client' = client, tokens' = tokens,
           NEW t \in Request \cup {Clients!NoTxn}, accessTxn' = [accessTxn EXCEPT ![w] = t],
           t.pc # "idle" =>
               /\ t.scopes \subseteq client.scopes
               /\ t.after => t.pc = "refresh" /\ ~Clients!Active,
           ~Clients!Active => t.pc # "persist"
    PROVE  AccessInv'
  <1>1. accessTxn \in [Workers -> Request \cup {Clients!NoTxn}]
    BY DEF AccessInv, AccessTypes
  <1>2. /\ accessTxn' \in [Workers -> Request \cup {Clients!NoTxn}] /\ accessTxn'[w] = t
        /\ \A v \in Workers \ {w} : accessTxn'[v] = accessTxn[v]
    BY <1>1
  <1>3. AccessTypes' /\ TokensTell'
    BY <1>2 DEF AccessInv, AccessTypes, TokensTell, Clients!Active
  <1>4. RequestsTell'
    BY <1>2 DEF AccessInv, RequestsTell, Clients!Active
  <1>5. UnderwayKept'
    <2>1. ASSUME ~Clients!Active
          PROVE  Cardinality(Late') + Cardinality(Persisting') <= client.underway
      <3>1. Persisting' \subseteq Persisting /\ Late' = Late
        BY <1>2, <2>1 DEF Persisting, Late
      <3>2. /\ IsFiniteSet(Persisting) /\ Cardinality(Persisting) \in Nat
            /\ Cardinality(Late) \in Nat /\ client.underway \in Nat
        BY CountedAccess DEF AccessInv
      <3>3. Cardinality(Persisting') <= Cardinality(Persisting)
            /\ Cardinality(Persisting') \in Nat
        BY <3>1, <3>2, FS_Subset, FS_CardinalityType
      <3>4. Cardinality(Late) + Cardinality(Persisting) <= client.underway
        BY <2>1 DEF AccessInv, UnderwayKept
      <3>5. QED
        BY <3>1, <3>2, <3>3, <3>4
    <2>2. QED
      BY <2>1 DEF AccessInv, UnderwayKept, Clients!Active
  <1>6. QED
    BY <1>3, <1>4, <1>5 DEF AccessInv

LEMMA PersistAccess ==
    ASSUME Clients!AccessAssumption, AccessInv, NEW w \in Workers, Clients!Persist(w)
    PROVE  AccessInv'
  <1>1. PICK t : t = accessTxn[w]
    OBVIOUS
  <1>2. /\ now' = now /\ client' = client /\ t.pc = "persist" /\ t \in Request
        /\ accessTxn' = [accessTxn EXCEPT ![w] = Clients!NoTxn]
        /\ t.scopes \subseteq client.scopes /\ ~t.after
        /\ now \in Nat /\ tokens \in Seq(Clients!Token)
    BY <1>1
       DEF Clients!Persist, Clients!Step, AccessInv, AccessTypes, RequestsTell, Clients!NoTxn
  <1>3. PICK token : token = [scopes |-> t.scopes, expires |-> now + Lifetime,
                              late |-> ~Clients!Active, after |-> t.after]
    OBVIOUS
  <1>4. tokens' = Append(tokens, token)
    BY <1>1, <1>3 DEF Clients!Persist
  <1>5. /\ Len(tokens) \in Nat /\ DOMAIN tokens = 1..Len(tokens) /\ Lifetime \in Nat
        /\ \A i \in DOMAIN tokens : tokens[i] \in Clients!Token
        /\ client.deactivated \in Nat \cup {Never}
    BY CountedAccess DEF AccessInv
  <1>6. token \in Clients!Token
    BY <1>2, <1>3, <1>5 DEF Clients!Token, Request
  <1>7. /\ tokens' \in Seq(Clients!Token) /\ DOMAIN tokens' = 1..Len(tokens) + 1
        /\ tokens'[Len(tokens) + 1] = token
        /\ \A i \in DOMAIN tokens : tokens'[i] = tokens[i]
    BY <1>2, <1>4, <1>5, <1>6, AppendProperties, LenProperties
  <1>8. /\ accessTxn' \in [Workers -> Request \cup {Clients!NoTxn}]
        /\ accessTxn'[w] = Clients!NoTxn
        /\ \A v \in Workers \ {w} : accessTxn'[v] = accessTxn[v]
    BY <1>2 DEF AccessInv, AccessTypes
  <1>9. AccessTypes'
    BY <1>2, <1>7, <1>8 DEF AccessInv, AccessTypes
  <1>10. Clients!Active' = Clients!Active
    BY <1>2 DEF Clients!Active
  <1>11. TokensTell'
    <2>1. ASSUME NEW i \in DOMAIN tokens', i \in DOMAIN tokens
          PROVE  /\ tokens'[i].scopes \subseteq client'.scopes
                 /\ ~tokens'[i].after
                 /\ tokens'[i].late => ~Clients!Active'
                 /\ ~tokens'[i].late /\ ~Clients!Active'
                       => tokens'[i].expires <= client'.deactivated + Lifetime
                 /\ Clients!Active' => tokens'[i].expires <= now' + Lifetime
      BY <1>2, <1>7, <1>10, <2>1 DEF AccessInv, TokensTell
    <2>2. /\ token.scopes \subseteq client.scopes
          /\ ~token.after
          /\ token.late <=> ~Clients!Active
          /\ token.expires <= now + Lifetime
      <3>1. /\ token.scopes = t.scopes /\ token.after = t.after
            /\ token.late = ~Clients!Active /\ token.expires = now + Lifetime
        BY <1>3, Zenon
      <3>2. now + Lifetime <= now + Lifetime
        BY <1>2, <1>5
      <3>3. QED
        BY <1>2, <3>1, <3>2, Zenon
    <2>3. ASSUME NEW i \in DOMAIN tokens', i \notin DOMAIN tokens
          PROVE  tokens'[i] = token
      BY <1>5, <1>7, <2>3
    <2>4. QED
      BY <1>2, <1>10, <2>1, <2>2, <2>3 DEF TokensTell
  <1>12. RequestsTell'
    BY <1>2, <1>8, <1>10 DEF AccessInv, RequestsTell, Clients!NoTxn
  <1>13. UnderwayKept'
    <2>1. ASSUME ~Clients!Active
          PROVE  Cardinality(Late') + Cardinality(Persisting') <= client.underway
      <3>1. Late' = Late \cup {Len(tokens) + 1} /\ Len(tokens) + 1 \notin Late
        <4>1. token.late
          BY <1>3, <2>1, Zenon
        <4>2. DOMAIN tokens' = DOMAIN tokens \cup {Len(tokens) + 1}
              /\ Len(tokens) + 1 \notin DOMAIN tokens
          BY <1>5, <1>7
        <4>3. QED
          BY <1>7, <4>1, <4>2 DEF Late
      <3>2. Persisting' = Persisting \ {w} /\ w \in Persisting
        BY <1>1, <1>2, <1>8 DEF Persisting, Clients!NoTxn
      <3>3. /\ IsFiniteSet(Persisting) /\ Cardinality(Persisting) \in Nat
            /\ IsFiniteSet(Late) /\ Cardinality(Late) \in Nat /\ client.underway \in Nat
        BY CountedAccess DEF AccessInv
      <3>4. Cardinality(Late') = Cardinality(Late) + 1
        BY <3>1, <3>3, FS_AddElement
      <3>5. Cardinality(Persisting') = Cardinality(Persisting) - 1
        BY <3>2, <3>3, FS_RemoveElement
      <3>6. Cardinality(Late) + Cardinality(Persisting) <= client.underway
        BY <2>1 DEF AccessInv, UnderwayKept
      <3>7. QED
        BY <3>3, <3>4, <3>5, <3>6
    <2>2. QED
      BY <1>2, <1>10, <2>1 DEF AccessInv, UnderwayKept
  <1>14. QED
    BY <1>9, <1>11, <1>12, <1>13 DEF AccessInv

LEMMA DeactivateAccess ==
    ASSUME Clients!AccessAssumption, AccessInv, Clients!Deactivate
    PROVE  AccessInv'
  <1>1. /\ Clients!Active /\ now' = now /\ tokens' = tokens /\ accessTxn' = accessTxn
        /\ client' = [client EXCEPT !.deactivated = now, !.underway = Cardinality(Persisting)]
    BY SameCardinality DEF Clients!Deactivate, Persisting
  <1>2. /\ Cardinality(Persisting) \in Nat /\ Cardinality(Persisting) <= Cardinality(Workers)
        /\ Cardinality(Workers) \in Nat /\ Never \notin Nat /\ now \in Nat
        /\ client \in Clients!Client
    BY CountedAccess DEF AccessInv, AccessTypes
  <1>3. Clients!Cardinality(Workers) = Cardinality(Workers)
    BY SameCardinality
  <1>4. /\ client'.scopes = client.scopes /\ client'.deactivated = now
        /\ client'.underway = Cardinality(Persisting)
        /\ client' \in Clients!Client
    <2>1. PICK n : n = Cardinality(Persisting)
      OBVIOUS
    <2>2. n \in 0..Clients!Cardinality(Workers)
      BY <1>2, <1>3, <2>1
    <2>3. client' = [client EXCEPT !.deactivated = now, !.underway = n]
      BY <1>1, <2>1
    <2>4. QED
      BY <1>2, <2>1, <2>2, <2>3 DEF Clients!Client
  <1>5. ~Clients!Active'
    BY <1>2, <1>4 DEF Clients!Active
  <1>6. AccessTypes'
    BY <1>1, <1>4 DEF AccessInv, AccessTypes
  <1>7. TokensTell'
    <2>1. \A i \in DOMAIN tokens :
             /\ tokens[i].scopes \subseteq client.scopes /\ ~tokens[i].after
             /\ tokens[i].expires <= now + Lifetime
      BY <1>1 DEF AccessInv, TokensTell
    <2>2. QED
      BY <1>1, <1>4, <1>5, <2>1 DEF TokensTell
  <1>8. RequestsTell'
    BY <1>1, <1>4 DEF AccessInv, RequestsTell
  <1>9. UnderwayKept'
    <2>1. Late' = {} /\ Persisting' = Persisting
      BY <1>1 DEF AccessInv, TokensTell, Late, Persisting
    <2>2. Cardinality(Late') = 0
      BY <2>1, FS_EmptySet
    <2>3. QED
      BY <1>1, <1>2, <1>4, <2>1, <2>2 DEF UnderwayKept
  <1>10. QED
    BY <1>6, <1>7, <1>8, <1>9 DEF AccessInv

LEMMA AccessStep ==
    ASSUME Clients!AccessAssumption, AccessInv, [Clients!Next]_(Clients!vars)
    PROVE  AccessInv'
  <1>1. CASE UNCHANGED Clients!vars
    BY <1>1
       DEF Clients!vars, AccessInv, AccessTypes, TokensTell, RequestsTell, UnderwayKept,
           Late, Persisting, Clients!Active
  <1>2. CASE Clients!Tick
    <2>1. /\ now' = now + 1 /\ client' = client /\ tokens' = tokens /\ accessTxn' = accessTxn
          /\ now \in Nat /\ Lifetime \in Nat /\ Never \notin Nat
          /\ client.deactivated \in Nat \cup {Never}
          /\ \A i \in DOMAIN tokens : tokens[i].expires \in Nat
      BY <1>2, CountedAccess DEF Clients!Tick, AccessInv, AccessTypes, Clients!Token
    <2>2. AccessTypes' /\ RequestsTell'
      BY <2>1 DEF AccessInv, AccessTypes, RequestsTell, Clients!Active
    <2>3. TokensTell'
      BY <2>1 DEF AccessInv, TokensTell, Clients!Active
    <2>4. UnderwayKept'
      <3>1. Late' = Late /\ Persisting' = Persisting
        BY <2>1 DEF Late, Persisting
      <3>2. QED
        BY <2>1, <3>1 DEF AccessInv, UnderwayKept, Clients!Active
    <2>5. QED
      BY <2>2, <2>3, <2>4 DEF AccessInv
  <1>3. ASSUME NEW w \in Workers, Clients!Authenticate(w) PROVE AccessInv'
    <2>1. PICK requested \in SUBSET Scopes :
              Clients!Step(w, [pc |-> "persist", scopes |-> Clients!Effective(requested),
                               after |-> FALSE])
      BY <1>3 DEF Clients!Authenticate
    <2>2. PICK t : t = [pc |-> "persist", scopes |-> Clients!Effective(requested),
                        after |-> FALSE]
      OBVIOUS
    <2>3. Clients!Effective(requested) \subseteq client.scopes /\ client.scopes \subseteq Scopes
      BY CountedAccess DEF AccessInv, Clients!Effective
    <2>4. t \in Request /\ t.pc = "persist" /\ t.scopes \subseteq client.scopes /\ ~t.after
      BY <2>2, <2>3 DEF Request
    <2>5. /\ now' = now /\ client' = client /\ tokens' = tokens /\ Clients!Active
          /\ accessTxn' = [accessTxn EXCEPT ![w] = t]
      BY <1>3, <2>1, <2>2 DEF Clients!Authenticate, Clients!Step
    <2>6. QED
      BY <2>4, <2>5, AccessMoves
  <1>4. ASSUME NEW w \in Workers, Clients!Present(w) PROVE AccessInv'
    <2>1. PICK i \in DOMAIN tokens :
              Clients!Step(w, [pc |-> "refresh", scopes |-> tokens[i].scopes,
                               after |-> tokens[i].late])
      BY <1>4 DEF Clients!Present
    <2>2. PICK t : t = [pc |-> "refresh", scopes |-> tokens[i].scopes,
                        after |-> tokens[i].late]
      OBVIOUS
    <2>3. /\ tokens[i].scopes \subseteq client.scopes /\ client.scopes \subseteq Scopes
          /\ tokens[i].late => ~Clients!Active
          /\ tokens[i].late \in BOOLEAN
      BY CountedAccess DEF AccessInv, TokensTell, Clients!Token
    <2>4. t.after = tokens[i].late
      BY <2>2, Zenon
    <2>5. t \in Request /\ t.pc = "refresh" /\ t.scopes \subseteq client.scopes
      BY <2>2, <2>3 DEF Request
    <2>6. /\ now' = now /\ client' = client /\ tokens' = tokens
          /\ accessTxn' = [accessTxn EXCEPT ![w] = t]
      BY <1>4, <2>1, <2>2 DEF Clients!Present, Clients!Step
    <2>7. t.after => ~Clients!Active
      BY <2>3, <2>4, Zenon
    <2>8. QED
      BY <2>5, <2>6, <2>7, AccessMoves
  <1>5. ASSUME NEW w \in Workers, Clients!CheckClient(w) PROVE AccessInv'
    <2>1. PICK t : t = [accessTxn[w] EXCEPT !.pc = "persist"]
      OBVIOUS
    <2>2. /\ accessTxn[w] \in Request /\ Clients!Active
          /\ accessTxn[w].scopes \subseteq client.scopes /\ ~accessTxn[w].after
      BY <1>5 DEF Clients!CheckClient, Clients!MayRefresh, AccessInv, AccessTypes,
                  RequestsTell, Clients!NoTxn
    <2>3. t \in Request /\ t.pc = "persist" /\ t.scopes \subseteq client.scopes /\ ~t.after
      BY <2>1, <2>2 DEF Request
    <2>4. /\ now' = now /\ client' = client /\ tokens' = tokens
          /\ accessTxn' = [accessTxn EXCEPT ![w] = t]
      BY <1>5, <2>1 DEF Clients!CheckClient, Clients!Step
    <2>5. QED
      BY <2>2, <2>3, <2>4, AccessMoves
  <1>6. ASSUME NEW w \in Workers, Clients!Fail(w) PROVE AccessInv'
    <2>1. /\ now' = now /\ client' = client /\ tokens' = tokens
          /\ accessTxn' = [accessTxn EXCEPT ![w] = Clients!NoTxn]
      BY <1>6 DEF Clients!Fail, Clients!Step
    <2>2. Clients!NoTxn.pc = "idle"
      BY DEF Clients!NoTxn
    <2>3. QED
      BY <2>1, <2>2, AccessMoves
  <1>7. QED
    BY <1>1, <1>2, <1>3, <1>4, <1>5, <1>6, PersistAccess, DeactivateAccess DEF Clients!Next

LEMMA AccessHolds ==
    ASSUME Clients!AccessAssumption
    PROVE  Clients!Spec => []AccessInv
  <1>1. AccessInv /\ [Clients!Next]_(Clients!vars) => AccessInv'
    BY AccessStep
  <1>2. Clients!Init => AccessInv
    BY AccessInit
  <1>3. QED
    BY <1>1, <1>2, PTL DEF Clients!Spec

\* Deactivation ends a client's access: a lifetime after it only tokens get
\* through whose requests had found the client active before, no more of them
\* than such requests, and none is refreshed; no token carries a scope its
\* client does not have.  For any numbers of workers, scopes and tokens and
\* any lifetime (api/routers/auth.py, issue_token and refresh_token).
THEOREM DeactivationEndsAccess ==
    ASSUME Clients!AccessAssumption
    PROVE  Clients!Spec => []Clients!DeactivationEnds
  <1>1. AccessInv => Clients!DeactivationEnds
    <2> SUFFICES ASSUME AccessInv PROVE Clients!DeactivationEnds
      OBVIOUS
    <2>1. /\ now \in Nat /\ Lifetime \in Nat /\ Never \notin Nat
          /\ client.deactivated \in Nat \cup {Never}
          /\ \A i \in DOMAIN tokens : tokens[i].expires \in Nat
          /\ Cardinality(Late) \in Nat /\ Cardinality(Persisting) \in Nat
          /\ client.underway \in Nat
      BY CountedAccess DEF AccessInv, AccessTypes, Clients!Token
    <2>2. ASSUME ~Clients!Active, NEW i \in DOMAIN tokens, Clients!Accepted(tokens[i]),
                 now >= client.deactivated + Lifetime
          PROVE  tokens[i].late /\ ~tokens[i].after
      <3>1. client.deactivated \in Nat
        BY <2>1, <2>2 DEF Clients!Active
      <3>2. ~(tokens[i].expires <= client.deactivated + Lifetime)
        BY <2>1, <2>2, <3>1 DEF Clients!Accepted
      <3>3. QED
        BY <2>2, <3>2 DEF AccessInv, TokensTell
    <2>3. ASSUME ~Clients!Active
          PROVE  Clients!Cardinality({i \in DOMAIN tokens : tokens[i].late}) <= client.underway
      BY <2>1, <2>3, SameCardinality DEF AccessInv, UnderwayKept, Late
    <2>4. \A i \in DOMAIN tokens : tokens[i].scopes \subseteq client.scopes
      BY DEF AccessInv, TokensTell
    <2>5. QED
      BY <2>2, <2>3, <2>4 DEF Clients!DeactivationEnds
  <1>2. QED
    BY <1>1, AccessHolds, PTL

-----------------------------------------------------------------------------
(* The versions of a prompt.                                               *)

PromptTxn == [pc : {"idle", "create", "update", "target", "rollback"}, version : Nat,
              on : BOOLEAN, off : SUBSET Nat, alone : BOOLEAN]

\* What a transaction has read of the rows and of the active ones among them.
HasRead(t, rows, on) ==
    /\ t.pc = "update" => on = {t.version}
    /\ t.pc \in {"target", "rollback"} => t.version \in rows /\ (t.on <=> t.version \in on)
    /\ t.pc = "rollback" => t.off = on \ {t.version}

\* Without a rollback the versions are numbered through, the last one active.
Straight ==
    /\ \/ stored = {} /\ active = {}
       \/ \E n \in Nat \ {0} : stored = 1..n /\ active = {n}
    /\ \A w \in Workers : promptTxn[w].pc = "update" => promptTxn[w].version \in stored

\* It is still so as long as nobody else has committed.
PromptInv ==
    /\ stored \subseteq Nat /\ active \subseteq Nat
    /\ promptTxn \in [Workers -> PromptTxn]
    /\ \A w \in Workers : promptTxn[w].alone => HasRead(promptTxn[w], stored, active)
    /\ Prompts!OneActive
    /\ ~ back => Straight

LEMMA NoPromptTxn ==
    Prompts!NoTxn \in PromptTxn /\ \A rows, on : HasRead(Prompts!NoTxn, rows, on)
  BY DEF Prompts!NoTxn, PromptTxn, HasRead

LEMMA PromptInit == Prompts!Init => PromptInv
  BY NoPromptTxn DEF Prompts!Init, PromptInv, Prompts!OneActive, Straight, Prompts!NoTxn

\* A step that commits nothing.
LEMMA PromptMoves ==
    ASSUME PromptInv, NEW w \in Workers, NEW t \in PromptTxn,
           t.alone => HasRead(t, stored, active), Prompts!Step(w, t),
           ~ back /\ t.pc = "update" => t.version \in stored
    PROVE  PromptInv'
  <1>1. promptTxn' = [promptTxn EXCEPT ![w] = t]
    BY DEF Prompts!Step
  <1>2. stored' = stored /\ active' = active /\ raced' = raced /\ back' = back
    BY DEF Prompts!Step, Prompts!db
  <1>3. promptTxn' \in [Workers -> PromptTxn]
    BY <1>1 DEF PromptInv
  <1>4. \A v \in Workers : promptTxn'[v].alone => HasRead(promptTxn'[v], stored, active)
    BY <1>1 DEF PromptInv
  <1>5. ~ back => Straight'
    BY <1>1, <1>2 DEF PromptInv, Straight
  <1> QED BY <1>2, <1>3, <1>4, <1>5 DEF PromptInv, Prompts!OneActive

\* A step that commits leaves every other transaction overtaken.
LEMMA PromptCommits ==
    ASSUME PromptInv, NEW w \in Workers, Prompts!End(w),
           stored' \subseteq Nat, active' \subseteq Nat, Prompts!OneActive',
           ~ back' => /\ ~ back /\ stored \subseteq stored'
                      /\ \E n \in Nat \ {0} : stored' = 1..n /\ active' = {n}
    PROVE  PromptInv'
  <1>1. ASSUME NEW v \in Workers
        PROVE  /\ promptTxn'[v] \in PromptTxn
               /\ promptTxn'[v].alone => promptTxn'[v] = Prompts!NoTxn
    <2>1. promptTxn'[v] = IF v = w \/ promptTxn[v] = Prompts!NoTxn THEN Prompts!NoTxn
                          ELSE [promptTxn[v] EXCEPT !.alone = FALSE]
      BY DEF Prompts!End
    <2>2. promptTxn[v] \in PromptTxn
      BY DEF PromptInv
    <2>3. /\ [promptTxn[v] EXCEPT !.alone = FALSE] \in PromptTxn
          /\ ~ [promptTxn[v] EXCEPT !.alone = FALSE].alone
      BY <2>2 DEF PromptTxn
    <2> QED BY <2>1, <2>3, NoPromptTxn
  <1>2. promptTxn' \in [Workers -> PromptTxn]
    BY <1>1 DEF Prompts!End
  <1>3. ASSUME NEW v \in Workers, promptTxn'[v].pc = "update"
        PROVE  promptTxn[v].pc = "update" /\ promptTxn'[v].version = promptTxn[v].version
    <2>1. promptTxn'[v] = [promptTxn[v] EXCEPT !.alone = FALSE] /\ promptTxn[v] \in PromptTxn
      BY <1>3 DEF Prompts!End, Prompts!NoTxn, PromptInv
    <2> QED BY <1>3, <2>1 DEF PromptTxn
  <1>4. ~ back' => Straight'
    BY <1>3 DEF PromptInv, Straight
  <1> QED BY <1>1, <1>2, <1>4, NoPromptTxn DEF PromptInv

LEMMA PromptStep ==
    ASSUME Prompts!PromptAssumption, PromptInv, [Prompts!Next]_(Prompts!vars)
    PROVE  PromptInv'
  <1>1. ASSUME NEW w \in Workers, Prompts!BeginCreate(w)
        PROVE  PromptInv'
    <2>1. PICK t : t = [Prompts!NoTxn EXCEPT !.pc = "create", !.version = 1]
      OBVIOUS
    <2>2. t \in PromptTxn /\ t.pc = "create"
      BY <2>1 DEF Prompts!NoTxn, PromptTxn
    <2> QED BY <1>1, <2>1, <2>2, PromptMoves DEF Prompts!BeginCreate, HasRead
  <1>2. ASSUME NEW w \in Workers, Prompts!CommitCreate(w)
        PROVE  PromptInv'
    <2>1. 1 \notin stored /\ stored' = {1} /\ active' = {1} /\ Prompts!End(w) /\ back' = back
      BY <1>2 DEF Prompts!CommitCreate
    <2>2. ~ back' => ~ back /\ stored \subseteq stored'
      BY <2>1 DEF PromptInv, Straight
    <2>3. 1 \in Nat \ {0} /\ stored' = 1..1 /\ active' = {1}
      BY <2>1
    <2> QED BY <2>1, <2>2, <2>3, PromptCommits DEF Prompts!OneActive
  <1>3. ASSUME NEW w \in Workers, Prompts!BeginUpdate(w)
        PROVE  PromptInv'
    <2>1. PICK v \in 1..(MaxVersion - 1) :
            active = {v} /\ Prompts!Step(w, [Prompts!NoTxn EXCEPT !.pc = "update", !.version = v])
      BY <1>3 DEF Prompts!BeginUpdate
    <2>2. PICK t : t = [Prompts!NoTxn EXCEPT !.pc = "update", !.version = v]
      OBVIOUS
    <2>3. v \in Nat
      BY DEF Prompts!PromptAssumption
    <2>4. t \in PromptTxn /\ t.pc = "update" /\ t.version = v
      BY <2>2, <2>3 DEF Prompts!NoTxn, PromptTxn
    <2>5. ~ back => v \in stored
      BY <2>1 DEF PromptInv, Straight
    <2> QED BY <2>1, <2>2, <2>4, <2>5, PromptMoves DEF HasRead
  <1>4. ASSUME NEW w \in Workers, Prompts!CommitUpdate(w)
        PROVE  PromptInv'
    <2>1. PICK t : t = promptTxn[w]
      OBVIOUS
    <2>2. t \in PromptTxn /\ (t.alone => HasRead(t, stored, active)) /\ t.pc = "update"
      BY <1>4, <2>1 DEF PromptInv, Prompts!CommitUpdate
    <2>3. PICK v : v = t.version
      OBVIOUS
    <2>4. /\ stored' = stored \cup {v + 1}
          /\ active' = (active \ {v}) \cup {v + 1}
          /\ Prompts!End(w) /\ back' = back /\ v + 1 \notin stored
      BY <1>4, <2>1, <2>3 DEF Prompts!CommitUpdate
    <2>5. raced' = (raced \/ ~ t.alone)
      BY <1>4, <2>1, Zenon DEF Prompts!CommitUpdate
    <2>6. ~ raced' => active' = {v + 1}
      BY <2>2, <2>3, <2>4, <2>5 DEF HasRead
    <2>7. v \in Nat /\ stored \subseteq Nat /\ active \subseteq Nat
      BY <2>2, <2>3 DEF PromptTxn, PromptInv
    <2>8. Prompts!OneActive'
      BY <2>4, <2>6 DEF Prompts!OneActive
    <2>9. stored' \subseteq Nat /\ active' \subseteq Nat
      BY <2>4, <2>7
    <2>10. ~ back => \E n \in Nat \ {0} : stored' = 1..n /\ active' = {n}
      <3> SUFFICES ASSUME ~ back
                   PROVE  \E n \in Nat \ {0} : stored' = 1..n /\ active' = {n}
        OBVIOUS
      <3>1. v \in stored
        BY <1>4, <2>1, <2>2, <2>3 DEF PromptInv, Straight
      <3>2. PICK n \in Nat \ {0} : stored = 1..n /\ active = {n}
        BY <3>1 DEF PromptInv, Straight
      <3>3. v = n
        BY <2>4, <2>7, <3>1, <3>2
      <3>4. n + 1 \in Nat \ {0} /\ stored' = 1..n + 1 /\ active' = {n + 1}
        BY <2>4, <3>2, <3>3
      <3> QED BY <3>4
    <2> QED BY <2>4, <2>8, <2>9, <2>10, PromptCommits
  <1>5. ASSUME NEW w \in Workers, Prompts!BeginRollback(w)
        PROVE  PromptInv'
    <2>1. PICK v \in stored :
            Prompts!Step(w, [Prompts!NoTxn EXCEPT !.pc = "target", !.version = v,
                                                  !.on = v \in active])
      BY <1>5, Zenon DEF Prompts!BeginRollback
    <2>2. PICK on : on = (v \in active)
      OBVIOUS
    <2>3. on \in BOOLEAN /\ (on <=> v \in active)
      <3>1. (v \in active) \in BOOLEAN
        OBVIOUS
      <3> QED BY <2>2, <3>1, Zenon
    <2>4. PICK t : t = [Prompts!NoTxn EXCEPT !.pc = "target", !.version = v, !.on = on]
      OBVIOUS
    <2>5. Prompts!Step(w, t)
      BY <2>1, <2>2, <2>4, Zenon
    <2>6. t \in PromptTxn /\ t.pc = "target" /\ t.version = v
      BY <2>3, <2>4 DEF Prompts!NoTxn, PromptTxn, PromptInv
    <2>7. t.on = on
      BY <2>4 DEF Prompts!NoTxn
    <2>8. HasRead(t, stored, active)
      BY <2>3, <2>6, <2>7 DEF HasRead
    <2> QED BY <2>5, <2>6, <2>8, PromptMoves
  <1>6. ASSUME NEW w \in Workers, Prompts!ReadOthers(w)
        PROVE  PromptInv'
    <2>1. PICK t : t = promptTxn[w]
      OBVIOUS
    <2>2. t \in PromptTxn /\ (t.alone => HasRead(t, stored, active)) /\ t.pc = "target"
      BY <1>6, <2>1 DEF PromptInv, Prompts!ReadOthers
    <2>3. PICK off : off = active \ {t.version}
      OBVIOUS
    <2>4. PICK u : u = [t EXCEPT !.pc = "rollback", !.off = off]
      OBVIOUS
    <2>5. Prompts!Step(w, u)
      BY <1>6, <2>1, <2>3, <2>4 DEF Prompts!ReadOthers
    <2>6. off \in SUBSET Nat
      BY <2>3 DEF PromptInv
    <2>7. /\ u \in PromptTxn /\ u.pc = "rollback" /\ u.off = off /\ u.version = t.version
          /\ u.on = t.on /\ u.alone = t.alone
      BY <2>2, <2>4, <2>6 DEF PromptTxn
    <2>8. u.alone => HasRead(u, stored, active)
      BY <2>2, <2>3, <2>7 DEF HasRead
    <2> QED BY <2>5, <2>7, <2>8, PromptMoves
  <1>7. ASSUME NEW w \in Workers, Prompts!CommitRollback(w)
        PROVE  PromptInv'
    <2>1. PICK t : t = promptTxn[w]
      OBVIOUS
    <2>2. t \in PromptTxn /\ (t.alone => HasRead(t, stored, active)) /\ t.pc = "rollback"
      BY <1>7, <2>1 DEF PromptInv, Prompts!CommitRollback
    <2>3. /\ active' = (active \ t.off) \cup (IF t.on THEN {} ELSE {t.version})
          /\ Prompts!End(w) /\ stored' = stored /\ back'
      BY <1>7, <2>1 DEF Prompts!CommitRollback
    <2>4. raced' = ~ t.alone
      BY <1>7, <2>1, Zenon DEF Prompts!CommitRollback
    <2>5. t.alone => active' = {t.version} /\ t.version \in stored
      BY <2>2, <2>3 DEF HasRead
    <2>6. Prompts!OneActive'
      BY <2>3, <2>4, <2>5 DEF Prompts!OneActive
    <2>7. stored' \subseteq Nat /\ active' \subseteq Nat
      BY <2>2, <2>3 DEF PromptInv, PromptTxn
    <2> QED BY <2>3, <2>6, <2>7, PromptCommits
  <1>8. ASSUME NEW w \in Workers, Prompts!Abort(w)
        PROVE  PromptInv'
    BY <1>8, NoPromptTxn, PromptMoves DEF Prompts!Abort, Prompts!NoTxn
  <1>9. CASE UNCHANGED Prompts!vars
    BY <1>9 DEF Prompts!vars, Prompts!db, PromptInv, Prompts!OneActive, Straight
  <1> QED BY <1>1, <1>2, <1>3, <1>4, <1>5, <1>6, <1>7, <1>8, <1>9 DEF Prompts!Next

\* Once a prompt exists and no request has been overtaken, exactly one of its
\* versions is active; and a rollback that nothing overtakes brings that back.
\* An update that nothing overtakes is refused only after a rollback
\* (services/prompt_versioning.py, update_prompt and rollback_prompt).
THEOREM OneVersionActive ==
    ASSUME Prompts!PromptAssumption
    PROVE  Prompts!Spec => [](Prompts!OneActive /\ Prompts!RefusalsExplained)
  <1>1. PromptInv => Prompts!OneActive /\ Prompts!RefusalsExplained
    <2> SUFFICES ASSUME PromptInv, ~ back, NEW w \in Workers, promptTxn[w].pc = "update",
                        promptTxn[w].alone
                 PROVE  promptTxn[w].version + 1 \notin stored
      BY DEF PromptInv, Prompts!RefusalsExplained
    <2>1. promptTxn[w].version \in stored /\ active = {promptTxn[w].version}
      BY DEF PromptInv, Straight, HasRead
    <2>2. PICK n \in Nat \ {0} : stored = 1..n /\ active = {n}
      BY <2>1 DEF PromptInv, Straight
    <2>3. promptTxn[w].version = n
      BY <2>1, <2>2, Zenon
    <2>4. n + 1 \notin stored
      BY <2>2
    <2> QED BY <2>3, <2>4
  <1>2. PromptInv /\ [Prompts!Next]_(Prompts!vars) => PromptInv'
    BY PromptStep
  <1> QED BY <1>1, <1>2, PromptInit, PTL DEF Prompts!Spec

-----------------------------------------------------------------------------
(* The history of a configuration entry.                                   *)

Entry == [type : Config!Types, value : Values]

SettingTxn == [pc : {"insert", "count", "update"}, type : Config!Types, version : Config!Version]

\* What a change starts from is the value as long as no version has come since
\* it read the entry; its number is one more than the versions it counted, and
\* its value has the type it asks for.
Changes(t, entry, rows) ==
    /\ t \in SettingTxn
    /\ t.pc # "insert" => entry # Missing
    /\ t.pc = "insert" => t.type = t.version.asked
    /\ Config!Valid(t.version.asked, t.version.new)
    /\ t.version.read <= Len(rows)
    /\ t.version.seen <= Len(rows) /\ t.version.number = t.version.seen + 1
    /\ t.pc # "insert" /\ t.version.read = Len(rows) => t.version.old = entry.value
    /\ t.pc # "insert" => t.version.old # Missing

SettingInv ==
    /\ config \in Entry \cup {Missing}
    /\ history \in Seq(Config!Version)
    /\ config = Missing => history = <<>>
    /\ \A i \in DOMAIN history :
          history[i].seen < i /\ history[i].number = history[i].seen + 1
    /\ \A j \in DOMAIN history :
          j > 1 /\ history[j].read = j - 1 /\ history[j - 1].read = j - 2
              => history[j].old = history[j - 1].new
    /\ history # <<>> /\ history[Len(history)].read = Len(history) - 1
          => config.value = history[Len(history)].new
    /\ config # Missing => \/ Config!Valid(config.type, config.value)
                           \/ \E i \in DOMAIN history : history[i].asked # config.type
    /\ DOMAIN configTxn = Workers
    /\ \A w \in Workers : configTxn[w] = Config!NoTxn \/ Changes(configTxn[w], config, history)

LEMMA SettingInit == Config!Init => SettingInv
  BY DEF Config!Init, SettingInv

\* What the request has to say for itself.
LEMMA BeginSetting ==
    ASSUME Config!SettingAssumption, SettingInv, NEW w \in Workers, Config!BeginSet(w)
    PROVE  SettingInv'
  <1>1. PICK given \in Values, asked \in Config!Types \cup {Missing} :
          /\ Config!Valid(Config!Resolved(asked), given)
          /\ configTxn' = [configTxn EXCEPT ![w] =
                [pc |-> IF config = Missing THEN "insert" ELSE "count",
                 type |-> Config!Resolved(asked),
                 version |-> [number |-> 1,
                              old |-> IF config = Missing THEN Missing ELSE config.value,
                              new |-> given, asked |-> Config!Resolved(asked),
                              read |-> Len(history), seen |-> 0]]]
    BY DEF Config!BeginSet
  <1>2. PICK type : type = Config!Resolved(asked)
    OBVIOUS
  <1>3. type \in Config!Types
    <2>1. CASE asked # Missing
      BY <1>2, <2>1 DEF Config!Resolved
    <2>2. CASE asked = Missing /\ config # Missing
      BY <1>2, <2>2 DEF Config!Resolved, SettingInv, Entry
    <2>3. CASE asked = Missing /\ config = Missing
      BY <1>2, <2>3 DEF Config!Resolved, Config!Types
    <2> QED BY <2>1, <2>2, <2>3
  <1>4. PICK old : old = IF config = Missing THEN Missing ELSE config.value
    OBVIOUS
  <1>5. PICK v : v = [number |-> 1, old |-> old, new |-> given, asked |-> type,
                      read |-> Len(history), seen |-> 0]
    OBVIOUS
  <1>6. PICK t : t = [pc |-> IF config = Missing THEN "insert" ELSE "count",
                      type |-> type, version |-> v]
    OBVIOUS
  <1>7. configTxn' = [configTxn EXCEPT ![w] = t]
    BY <1>1, <1>2, <1>4, <1>5, <1>6
  <1>8. old \in Values \cup {Missing} /\ (config # Missing => old # Missing)
    BY <1>4 DEF SettingInv, Entry, Config!SettingAssumption
  <1>9. Len(history) \in Nat
    BY DEF SettingInv
  <1>10. v \in Config!Version /\ v.read = Len(history) /\ v.seen = 0 /\ v.number = 1
         /\ v.old = old /\ v.asked = type /\ v.new = given
    BY <1>3, <1>5, <1>8, <1>9 DEF Config!Version
  <1>11. t.version = v /\ t.type = type /\ t \in SettingTxn
         /\ t.pc = IF config = Missing THEN "insert" ELSE "count"
    BY <1>3, <1>6, <1>10 DEF SettingTxn
  <1>12. Config!Valid(type, given)
    BY <1>1, <1>2
  <1>13. Changes(t, config, history)
    BY <1>4, <1>8, <1>9, <1>10, <1>11, <1>12 DEF Changes
  <1>14. config' = config /\ history' = history
    BY DEF Config!BeginSet
  <1>15. /\ DOMAIN configTxn' = Workers
         /\ \A u \in Workers : configTxn'[u] = Config!NoTxn \/ Changes(configTxn'[u], config, history)
    BY <1>7, <1>13 DEF SettingInv
  <1> QED BY <1>14, <1>15 DEF SettingInv

\* A change that is recorded, whatever it has made of the entry.
LEMMA RecordedSetting ==
    ASSUME Config!SettingAssumption, SettingInv, NEW w \in Workers, NEW t,
           Changes(t, config, history), history' = Append(history, t.version),
           configTxn' = [configTxn EXCEPT ![w] = Config!NoTxn],
           config' \in Entry, config' # Missing,
           history # <<>> => t.pc = "update",
           t.version.read = Len(history) => config'.value = t.version.new,
           \/ Config!Valid(config'.type, config'.value)
           \/ t.version.asked # config'.type
           \/ \E i \in DOMAIN history : history[i].asked # config'.type
    PROVE  SettingInv'
  <1>1. PICK v : v = t.version
    OBVIOUS
  <1>2. PICK n : n = Len(history)
    OBVIOUS
  <1>3. history \in Seq(Config!Version) /\ v \in Config!Version /\ n \in Nat
    BY <1>1, <1>2 DEF SettingInv, Changes, SettingTxn
  <1>4. /\ history' \in Seq(Config!Version) /\ Len(history') = n + 1 /\ history'[n + 1] = v
        /\ \A i \in DOMAIN history : i \in DOMAIN history' /\ history'[i] = history[i]
        /\ DOMAIN history' = 1..n + 1 /\ DOMAIN history = 1..n
    BY <1>1, <1>2, <1>3
  <1>5. v.seen \in Nat /\ v.seen <= n /\ v.number = v.seen + 1
    BY <1>1, <1>2, <1>3 DEF Changes, Config!Version
  <1>6. \A i \in DOMAIN history' : history'[i].seen < i /\ history'[i].number = history'[i].seen + 1
    <2> SUFFICES ASSUME NEW i \in DOMAIN history'
                 PROVE  history'[i].seen < i /\ history'[i].number = history'[i].seen + 1
      OBVIOUS
    <2>1. CASE i \in DOMAIN history
      BY <1>4, <2>1 DEF SettingInv
    <2>2. CASE i = n + 1
      BY <1>3, <1>4, <1>5, <2>2
    <2> QED BY <1>3, <1>4, <2>1, <2>2
  <1>7. ASSUME NEW j \in DOMAIN history', j > 1,
               history'[j].read = j - 1, history'[j - 1].read = j - 2
        PROVE  history'[j].old = history'[j - 1].new
    <2>1. j - 1 \in DOMAIN history /\ history'[j - 1] = history[j - 1]
      BY <1>3, <1>4, <1>7
    <2>2. CASE j \in DOMAIN history
      BY <1>4, <1>7, <2>1, <2>2 DEF SettingInv
    <2>3. CASE j = n + 1
      <3>1. history # <<>> /\ v.read = n /\ j - 1 = n /\ j - 2 = n - 1
        BY <1>3, <1>4, <1>7, <2>1, <2>3
      <3>2. t.pc = "update" /\ v.old = config.value
        BY <1>1, <1>2, <3>1 DEF Changes
      <3>3. config.value = history[n].new
        BY <1>2, <1>7, <2>1, <3>1 DEF SettingInv
      <3> QED BY <1>4, <2>1, <2>3, <3>1, <3>2, <3>3
    <2>4. j \in DOMAIN history \/ j = n + 1
      BY <1>3, <1>4
    <2> QED BY <2>2, <2>3, <2>4
  <1>8. history' # <<>> /\ history'[Len(history')].read = Len(history') - 1
            => config'.value = history'[Len(history')].new
    BY <1>1, <1>2, <1>3, <1>4, <1>5
  <1>9. \/ Config!Valid(config'.type, config'.value)
        \/ \E i \in DOMAIN history' : history'[i].asked # config'.type
    BY <1>1, <1>3, <1>4
  <1>10. ASSUME NEW u, Changes(u, config, history)
         PROVE  Changes(u, config', history')
    <2>1. /\ u \in SettingTxn /\ u.version.seen \in Nat /\ u.version.seen <= n
          /\ u.version.read \in Nat /\ u.version.read <= n
      BY <1>2, <1>10 DEF Changes, SettingTxn, Config!Version
    <2>2. /\ u.version.read # Len(history') /\ u.version.read <= Len(history')
          /\ u.version.seen <= Len(history')
      BY <1>3, <1>4, <2>1
    <2> QED BY <1>10, <2>2 DEF Changes
  <1>11. /\ DOMAIN configTxn' = Workers
         /\ \A u \in Workers : configTxn'[u] = Config!NoTxn \/ Changes(configTxn'[u], config', history')
    BY <1>10 DEF SettingInv
  <1> QED BY <1>4, <1>6, <1>7, <1>8, <1>9, <1>11 DEF SettingInv

\* The versions are counted.
LEMMA CountSetting ==
    ASSUME SettingInv, NEW w \in Workers, Config!CountVersions(w)
    PROVE  SettingInv'
  <1>1. PICK t : t = configTxn[w]
    OBVIOUS
  <1>2. PICK v : v = [t.version EXCEPT !.number = Len(history) + 1, !.seen = Len(history)]
    OBVIOUS
  <1>3. PICK u : u = [t EXCEPT !.pc = "update", !.version = v]
    OBVIOUS
  <1>4. t.pc = "count" /\ Changes(t, config, history)
    BY <1>1 DEF Config!CountVersions, SettingInv, Config!NoTxn
  <1>5. t \in SettingTxn /\ t.version \in Config!Version /\ Len(history) \in Nat
    BY <1>4 DEF Changes, SettingTxn, SettingInv
  <1>6. /\ v \in Config!Version /\ v.number = Len(history) + 1 /\ v.seen = Len(history)
        /\ v.read = t.version.read /\ v.old = t.version.old /\ v.new = t.version.new
        /\ v.asked = t.version.asked
    <2>1. PICK x : x = t.version
      OBVIOUS
    <2>2. PICK n : n = Len(history)
      OBVIOUS
    <2>3. x \in Config!Version /\ n \in Nat /\ n + 1 \in Nat
      BY <1>5, <2>1, <2>2
    <2>4. v = [x EXCEPT !.number = n + 1, !.seen = n]
      BY <1>2, <2>1, <2>2
    <2>5. PICK m \in Nat : m = n + 1
      BY <2>3
    <2>6. v = [x EXCEPT !.number = m, !.seen = n]
      BY <2>4, <2>5
    <2>7. v \in Config!Version /\ v.number = m /\ v.seen = n /\ v.read = x.read
          /\ v.old = x.old /\ v.new = x.new /\ v.asked = x.asked
      BY <2>3, <2>6 DEF Config!Version
    <2> QED BY <2>1, <2>2, <2>5, <2>7
  <1>7. u \in SettingTxn /\ u.pc = "update" /\ u.version = v /\ u.type = t.type
    BY <1>3, <1>5, <1>6 DEF SettingTxn
  <1>8. configTxn' = [configTxn EXCEPT ![w] = u]
    <2>1. configTxn' = [configTxn EXCEPT ![w] =
              [[configTxn[w] EXCEPT !.pc = "update"] EXCEPT !.version =
                  [[configTxn[w].version EXCEPT !.number = Config!NextNumber]
                      EXCEPT !.seen = Len(history)]]]
      BY <1>1, <1>5 DEF Config!CountVersions, SettingTxn, SettingInv
    <2> QED BY <1>1, <1>2, <1>3, <2>1 DEF Config!NextNumber
  <1>9. Changes(u, config, history)
    BY <1>4, <1>5, <1>6, <1>7 DEF Changes
  <1>10. config' = config /\ history' = history
    BY DEF Config!CountVersions
  <1>11. /\ DOMAIN configTxn' = Workers
         /\ \A x \in Workers : configTxn'[x] = Config!NoTxn \/ Changes(configTxn'[x], config, history)
    BY <1>8, <1>9 DEF SettingInv
  <1> QED BY <1>10, <1>11 DEF SettingInv

LEMMA SettingStep ==
    ASSUME Config!SettingAssumption, SettingInv, [Config!Next]_(Config!vars)
    PROVE  SettingInv'
  <1>1. ASSUME NEW w \in Workers, Config!CommitInsert(w)
        PROVE  SettingInv'
    <2>1. PICK t : t = configTxn[w]
      OBVIOUS
    <2>2. t.pc = "insert" /\ Changes(t, config, history)
      BY <1>1, <2>1 DEF Config!CommitInsert, SettingInv, Config!NoTxn
    <2>3. /\ history' = Append(history, t.version)
          /\ config' = [type |-> t.type, value |-> t.version.new]
          /\ configTxn' = [configTxn EXCEPT ![w] = Config!NoTxn]
          /\ history = <<>>
      BY <1>1, <2>1 DEF Config!CommitInsert, SettingInv
    <2>4. config' \in Entry /\ config' # Missing
      BY <2>2, <2>3 DEF Changes, SettingTxn, Config!Version, Entry, Config!SettingAssumption
    <2>5. Config!Valid(config'.type, config'.value) /\ config'.value = t.version.new
      BY <2>2, <2>3 DEF Changes
    <2> QED BY <2>2, <2>3, <2>4, <2>5, RecordedSetting
  <1>2. ASSUME NEW w \in Workers, Config!CommitUpdate(w)
        PROVE  SettingInv'
    <2>1. PICK t : t = configTxn[w]
      OBVIOUS
    <2>2. t.pc = "update" /\ Changes(t, config, history)
      BY <1>2, <2>1 DEF Config!CommitUpdate, SettingInv, Config!NoTxn
    <2>3. /\ history' = Append(history, t.version)
          /\ config' = IF t.version.new = t.version.old THEN config
                       ELSE [config EXCEPT !.value = t.version.new]
          /\ configTxn' = [configTxn EXCEPT ![w] = Config!NoTxn]
      BY <1>2, <2>1 DEF Config!CommitUpdate
    <2>4. config \in Entry /\ config # Missing /\ t.version.new \in Values
      BY <2>2 DEF SettingInv, Changes, SettingTxn, Config!Version
    <2>5. CASE t.version.new = t.version.old
      <3>1. config' = config
        BY <2>3, <2>5
      <3>2. t.version.read = Len(history) => config.value = t.version.new
        BY <2>2, <2>5 DEF Changes
      <3>3. \/ Config!Valid(config.type, config.value)
            \/ \E i \in DOMAIN history : history[i].asked # config.type
        BY <2>4 DEF SettingInv
      <3> QED BY <2>2, <2>3, <2>4, <3>1, <3>2, <3>3, RecordedSetting
    <2>6. CASE t.version.new # t.version.old
      <3>1. /\ config' \in Entry /\ config'.type = config.type /\ config'.value = t.version.new
        BY <2>3, <2>4, <2>6 DEF Entry
      <3>2. config' # Missing
        BY <3>1 DEF Entry, Config!SettingAssumption
      <3>3. Config!Valid(config'.type, config'.value) \/ t.version.asked # config'.type
        BY <2>2, <3>1 DEF Changes
      <3> QED BY <2>2, <2>3, <3>1, <3>2, <3>3, RecordedSetting
    <2> QED BY <2>5, <2>6
  <1>3. ASSUME NEW w \in Workers, Config!CreateOverride(w)
        PROVE  SettingInv'
    BY <1>3 DEF Config!CreateOverride, SettingInv
  <1>4. ASSUME NEW w \in Workers, Config!Rollback(w)
        PROVE  SettingInv'
    <2>1. configTxn' = [configTxn EXCEPT ![w] = Config!NoTxn] /\ config' = config /\ history' = history
      BY <1>4 DEF Config!Rollback
    <2>2. /\ DOMAIN configTxn' = Workers
          /\ \A u \in Workers : configTxn'[u] = Config!NoTxn \/ Changes(configTxn'[u], config, history)
      BY <2>1 DEF SettingInv
    <2> QED BY <2>1, <2>2 DEF SettingInv
  <1>5. CASE UNCHANGED Config!vars
    BY <1>5 DEF Config!vars, SettingInv
  <1> QED BY <1>1, <1>2, <1>3, <1>4, <1>5, BeginSetting, CountSetting DEF Config!Next

\* Changes of a configuration entry that do not overlap have numbers in their
\* order, each starts from what the last one made, and the last one is the
\* entry's value; a reader gets a value of another type only from an override,
\* or after a request that named another (services/configuration.py,
\* set_config and get_config).
THEOREM HistoryTellsSetting ==
    ASSUME Config!SettingAssumption
    PROVE  Config!Spec => []Config!HistoryTellsValue
  <1>1. SettingInv => Config!HistoryTellsValue
    <2> SUFFICES ASSUME SettingInv
                 PROVE  Config!HistoryTellsValue
      OBVIOUS
    <2>1. ASSUME NEW i \in DOMAIN history, NEW j \in DOMAIN history, i < j, history[j].seen >= i
          PROVE  history[j].number > history[i].number
      <3>1. /\ history[i] \in Config!Version /\ history[j] \in Config!Version
            /\ i \in Nat /\ j \in Nat
        BY DEF SettingInv
      <3>2. /\ history[i].seen < i /\ history[i].number = history[i].seen + 1
            /\ history[j].number = history[j].seen + 1
        BY DEF SettingInv
      <3>3. history[i].seen \in Nat /\ history[j].seen \in Nat
        BY <3>1 DEF Config!Version
      <3> QED BY <2>1, <3>1, <3>2, <3>3
    <2>2. ASSUME NEW j \in DOMAIN history, j > 1, Config!Apart(j), Config!Apart(j - 1)
          PROVE  history[j].old = history[j - 1].new
      <3>1. j \in Nat
        BY DEF SettingInv
      <3>2. history[j].read = j - 1 /\ history[j - 1].read = j - 2
        BY <2>2, <3>1 DEF Config!Apart
      <3> QED BY <2>2, <3>2 DEF SettingInv
    <2>3. history # <<>> /\ Config!Apart(Len(history))
             => config.value = history[Len(history)].new
      BY DEF SettingInv, Config!Apart
    <2>4. ASSUME NEW scope \in ConfigScopes, config # Missing,
                 ~ Config!Valid(config.type, Config!Effective(scope)),
                 ~ \E o \in overrides : o.scope = scope
          PROVE  \E i \in DOMAIN history : history[i].asked # config.type
      <3>1. Config!Effective(scope) = config.value
        BY <2>4, Zenon DEF Config!Effective
      <3> QED BY <2>4, <3>1 DEF SettingInv
    <2> QED BY <2>1, <2>2, <2>3, <2>4 DEF Config!HistoryTellsValue
  <1>2. SettingInv /\ [Config!Next]_(Config!vars) => SettingInv'
    BY SettingStep
  <1> QED BY <1>1, <1>2, SettingInit, PTL DEF Config!Spec

-----------------------------------------------------------------------------
(* The snapshots of a scoring profile.                                     *)

Update == [pc : {"update"}, number : Nat, changed : SUBSET Signals,
           weights : Scoring!Weights, read : Scoring!Weights, seen : Nat]

\* The weight of a signal is not what a snapshot says: it was not written, over
\* another change, or one of those that came next, up to the n-th, wrote it or
\* wrote what was read before.
Overlaid(rows, i, s, n) ==
    \/ ~rows[i].wrote /\ rows[i].seen < i - 1
    \/ \E j \in i + 1..n : rows[j].wrote /\ (s \in rows[j].changed \/ rows[j].seen < i)

Holds(rows, i, s, n, weights) ==
    s \in rows[i].changed /\ weights[s] # rows[i].weights[s] => Overlaid(rows, i, s, n)

\* What an update carries: the weights it had read, but for those it changes.
Carries(t, rows, given) ==
    /\ t \in Update
    /\ t.seen <= Len(rows)
    /\ t.seen = Len(rows) => t.read = given
    /\ t.seen = Len(rows) /\ rows # <<>> => t.number = rows[Len(rows)].number + 1
    /\ \A i \in 1..t.seen, s \in Signals \ t.changed : Holds(rows, i, s, t.seen, t.weights)

ProfileInv ==
    /\ versions \in Seq(Scoring!Version)
    /\ profile # Gone => profile \in [version : Nat, weights : Scoring!Weights]
    /\ versions # <<>> => profile.version = versions[Len(versions)].number
    /\ \A i, j \in DOMAIN versions :
          i < j /\ versions[j].number <= versions[i].number
             => \E k \in i + 1..j : versions[k].seen < k - 1
    /\ \A i \in DOMAIN versions, s \in Signals :
          Holds(versions, i, s, Len(versions), profile.weights)
    /\ DOMAIN scoreTxn = Workers
    /\ \A w \in Workers :
          /\ "pc" \in DOMAIN scoreTxn[w]
          /\ scoreTxn[w].pc = "suggested" => scoreTxn[w].signal \in Signals
          /\ scoreTxn[w].pc = "update" /\ profile # Gone =>
                Carries(scoreTxn[w], versions, profile.weights)

LEMMA GivenWeights ==
    ASSUME Scoring!ProfileAssumption, NEW c \in Configs
    PROVE  c \in Scoring!Weights
  BY DEF Scoring!ProfileAssumption, Scoring!Weights

LEMMA ProfileInit == Scoring!ProfileAssumption /\ Scoring!Init => ProfileInv
  <1> SUFFICES ASSUME Scoring!ProfileAssumption, Scoring!Init
               PROVE  ProfileInv
    OBVIOUS
  <1>1. /\ versions = <<>>
        /\ profile \in [version : Nat, weights : Scoring!Weights]
    <2>1. PICK c \in Configs : profile = [version |-> 1, weights |-> c]
      BY DEF Scoring!Init
    <2>2. c \in Scoring!Weights
      BY GivenWeights
    <2> QED BY <2>1, <2>2 DEF Scoring!Init
  <1>2. scoreTxn = [w \in Workers |-> Scoring!NoTxn]
    BY DEF Scoring!Init
  <1> QED BY <1>1, <1>2 DEF ProfileInv, Scoring!NoTxn

\* A step that leaves the profile and its snapshots alone.
LEMMA ProfileMoves ==
    ASSUME ProfileInv, NEW w \in Workers, NEW t, Scoring!Step(w, t),
           profile' = profile, versions' = versions,
           "pc" \in DOMAIN t, t.pc = "suggested" => t.signal \in Signals,
           t.pc = "update" /\ profile # Gone => Carries(t, versions, profile.weights)
    PROVE  ProfileInv'
  <1>1. scoreTxn' = [scoreTxn EXCEPT ![w] = t]
    BY DEF Scoring!Step
  <1>2. /\ DOMAIN scoreTxn' = Workers
        /\ \A v \in Workers :
              /\ "pc" \in DOMAIN scoreTxn'[v]
              /\ scoreTxn'[v].pc = "suggested" => scoreTxn'[v].signal \in Signals
              /\ scoreTxn'[v].pc = "update" /\ profile # Gone =>
                    Carries(scoreTxn'[v], versions, profile.weights)
    BY <1>1 DEF ProfileInv
  <1> QED BY <1>2 DEF ProfileInv

LEMMA BeginUpdateProfile ==
    ASSUME Scoring!ProfileAssumption, ProfileInv, NEW w \in Workers, Scoring!BeginUpdate(w)
    PROVE  ProfileInv'
  <1>1. /\ profile # Gone /\ profile' = profile /\ versions' = versions
        /\ profile \in [version : Nat, weights : Scoring!Weights]
    BY DEF Scoring!BeginUpdate, Scoring!db, ProfileInv
  <1>2. PICK c \in Scoring!Weights, changed \in SUBSET Signals :
          /\ changed = Signals \/ (changed = {} /\ c = profile.weights)
          /\ Scoring!Step(w, [pc |-> "update", number |-> Scoring!NextVersion,
                              changed |-> changed, weights |-> c, read |-> profile.weights,
                              seen |-> Len(versions)])
    <2>1. CASE \E c \in Configs :
                  Scoring!Step(w, [pc |-> "update", number |-> Scoring!NextVersion,
                                   changed |-> Signals, weights |-> c, read |-> profile.weights,
                                   seen |-> Len(versions)])
      BY <2>1, GivenWeights, Zenon
    <2>2. CASE Scoring!Step(w, [pc |-> "update", number |-> Scoring!NextVersion, changed |-> {},
                                weights |-> profile.weights, read |-> profile.weights,
                                seen |-> Len(versions)])
      BY <1>1, <2>2
    <2> QED BY <2>1, <2>2, Zenon DEF Scoring!BeginUpdate
  <1>3. PICK t : t = [pc |-> "update", number |-> Scoring!NextVersion, changed |-> changed,
                      weights |-> c, read |-> profile.weights, seen |-> Len(versions)]
    OBVIOUS
  <1>4. Scoring!NextVersion \in Nat /\ Len(versions) \in Nat
        /\ Scoring!NextVersion = profile.version + 1
    BY <1>1 DEF Scoring!NextVersion, ProfileInv
  <1>5. /\ t \in Update /\ t.pc = "update" /\ t.number = profile.version + 1
        /\ t.changed = changed /\ t.weights = c /\ t.read = profile.weights
        /\ t.seen = Len(versions)
    BY <1>1, <1>3, <1>4 DEF Update
  <1>6. Carries(t, versions, profile.weights)
    <2>1. ASSUME NEW i \in 1..Len(versions), NEW s \in Signals \ changed
          PROVE  Holds(versions, i, s, Len(versions), c)
      <3>1. i \in DOMAIN versions /\ c = profile.weights
        BY <1>2, <2>1 DEF ProfileInv
      <3> QED BY <3>1 DEF ProfileInv
    <2> QED BY <1>4, <1>5, <2>1 DEF Carries, ProfileInv
  <1>7. "pc" \in DOMAIN t
    BY <1>3
  <1> QED BY <1>1, <1>2, <1>3, <1>5, <1>6, <1>7, ProfileMoves

LEMMA BeginApplyProfile ==
    ASSUME Scoring!ProfileAssumption, ProfileInv, NEW w \in Workers, Scoring!BeginApply(w)
    PROVE  ProfileInv'
  <1>1. /\ profile # Gone /\ profile' = profile /\ versions' = versions
        /\ profile \in [version : Nat, weights : Scoring!Weights]
    <2>1. profile # Gone /\ UNCHANGED <<Scoring!db, begun>>
      BY DEF Scoring!BeginApply
    <2> QED BY <2>1 DEF Scoring!db, ProfileInv
  <1>2. PICK q : q = scoreTxn[w].signal
    OBVIOUS
  <1>3. PICK weight : weight = scoreTxn[w].weight
    OBVIOUS
  <1>4. q \in Signals /\ weight \in Int
    <2>1. scoreTxn[w].pc = "suggested" /\ scoreTxn[w].weight \in Scoring!Acceptable
      BY DEF Scoring!BeginApply
    <2>2. q \in Signals
      BY <1>2, <2>1 DEF ProfileInv
    <2>3. weight \in Scoring!Acceptable
      BY <1>3, <2>1
    <2> QED BY <2>2, <2>3 DEF Scoring!Acceptable
  <1>5. PICK c : c = [profile.weights EXCEPT ![q] = weight]
    OBVIOUS
  <1>6. c \in Scoring!Weights /\ \A s \in Signals \ {q} : c[s] = profile.weights[s]
    BY <1>1, <1>4, <1>5 DEF Scoring!Weights
  <1>7. PICK t : t = [pc |-> "update", number |-> Scoring!NextVersion, changed |-> {q},
                      weights |-> c, read |-> profile.weights, seen |-> Len(versions)]
    OBVIOUS
  <1>8. Scoring!Step(w, t)
    BY <1>2, <1>3, <1>5, <1>7 DEF Scoring!BeginApply, Scoring!Adjusted
  <1>9. Scoring!NextVersion \in Nat /\ Len(versions) \in Nat
        /\ Scoring!NextVersion = profile.version + 1
    BY <1>1 DEF Scoring!NextVersion, ProfileInv
  <1>10. /\ t \in Update /\ t.pc = "update" /\ t.number = profile.version + 1
         /\ t.changed = {q} /\ t.seen = Len(versions) /\ t.weights = c
         /\ t.read = profile.weights
    BY <1>1, <1>4, <1>6, <1>7, <1>9 DEF Update
  <1>11. ASSUME NEW i \in 1..Len(versions), NEW s \in Signals \ {q}
         PROVE  Holds(versions, i, s, Len(versions), c)
    <2>1. i \in DOMAIN versions
      BY DEF ProfileInv
    <2>2. Holds(versions, i, s, Len(versions), profile.weights)
      BY <2>1 DEF ProfileInv
    <2> QED BY <1>6, <2>2 DEF Holds
  <1>12. Carries(t, versions, profile.weights)
    BY <1>9, <1>10, <1>11 DEF Carries, ProfileInv
  <1>13. "pc" \in DOMAIN t
    BY <1>7
  <1> QED BY <1>1, <1>8, <1>10, <1>12, <1>13, ProfileMoves

LEMMA CommitProfile ==
    ASSUME Scoring!ProfileAssumption, ProfileInv, NEW w \in Workers, Scoring!CommitUpdate(w)
    PROVE  ProfileInv'
  <1>1. PICK t : t = scoreTxn[w]
    OBVIOUS
  <1>2. profile # Gone /\ Carries(t, versions, profile.weights) /\ t \in Update
    BY <1>1 DEF Scoring!CommitUpdate, ProfileInv, Carries
  <1>3. PICK v : v = [number |-> t.number, changed |-> t.changed, weights |-> t.weights,
                      seen |-> t.seen, wrote |-> Scoring!Writes(t)]
    OBVIOUS
  <1>4. /\ v \in Scoring!Version /\ v.number = t.number /\ v.changed = t.changed
        /\ v.weights = t.weights /\ v.seen = t.seen /\ v.wrote = (t.weights # t.read)
    BY <1>2, <1>3 DEF Update, Scoring!Version, Scoring!Writes
  <1>5. PICK n : n = Len(versions)
    OBVIOUS
  <1>6. PICK c : c = IF t.weights # t.read THEN t.weights ELSE profile.weights
    OBVIOUS
  <1>7. /\ profile' = [version |-> t.number, weights |-> c]
        /\ versions' = Append(versions, v)
    BY <1>1, <1>3, <1>6 DEF Scoring!CommitUpdate, Scoring!Writes
  <1>8. scoreTxn' = [scoreTxn EXCEPT ![w] = Scoring!NoTxn]
    BY DEF Scoring!CommitUpdate, Scoring!Step
  <1>9. /\ c \in Scoring!Weights /\ t.number \in Nat /\ t.seen \in Nat
        /\ versions \in Seq(Scoring!Version) /\ n \in Nat
    BY <1>2, <1>5, <1>6 DEF ProfileInv, Update
  <1>10. /\ versions' \in Seq(Scoring!Version) /\ Len(versions') = n + 1 /\ versions'[n + 1] = v
         /\ \A i \in 1..n : versions'[i] = versions[i]
         /\ DOMAIN versions' = 1..n + 1 /\ DOMAIN versions = 1..n /\ versions' # <<>>
    BY <1>4, <1>5, <1>7, <1>9
  <1>11. /\ profile' \in [version : Nat, weights : Scoring!Weights]
         /\ profile'.version = versions'[Len(versions')].number
         /\ profile'.weights = c
    BY <1>4, <1>7, <1>9, <1>10
  <1>12. ASSUME NEW i \in DOMAIN versions', NEW j \in DOMAIN versions',
                i < j, versions'[j].number <= versions'[i].number
         PROVE  \E k \in i + 1..j : versions'[k].seen < k - 1
    <2>1. i \in 1..n /\ versions'[i] = versions[i]
      BY <1>9, <1>10, <1>12
    <2>2. ASSUME NEW m \in 1..n, i < m, versions[m].number <= versions[i].number
          PROVE  \E k \in i + 1..m : versions'[k].seen < k - 1
      <3>1. PICK k \in i + 1..m : versions[k].seen < k - 1
        BY <1>10, <2>1, <2>2 DEF ProfileInv
      <3>2. k \in 1..n
        BY <1>9, <2>1, <3>1
      <3> QED BY <1>10, <3>1, <3>2
    <2>3. CASE j \in 1..n
      BY <1>10, <1>12, <2>1, <2>2, <2>3
    <2>4. CASE j = n + 1 /\ t.seen < n
      <3>1. n + 1 \in i + 1..j /\ versions'[n + 1].seen < (n + 1) - 1
        BY <1>4, <1>9, <1>10, <2>1, <2>4
      <3> QED BY <3>1
    <2>5. CASE j = n + 1 /\ t.seen = n
      <3>1. versions # <<>> /\ n \in 1..n /\ versions[n] \in Scoring!Version
            /\ versions[i] \in Scoring!Version
        BY <1>9, <1>10, <2>1
      <3>2. t.number = versions[n].number + 1
        BY <1>2, <1>5, <2>5, <3>1 DEF Carries
      <3>3. versions[n].number \in Nat /\ versions[i].number \in Nat
        BY <3>1 DEF Scoring!Version
      <3>4. t.number <= versions[i].number
        BY <1>4, <1>10, <1>12, <2>1, <2>5
      <3>5. i < n /\ versions[n].number <= versions[i].number
        BY <1>9, <2>1, <3>2, <3>3, <3>4
      <3>6. PICK k \in i + 1..n : versions'[k].seen < k - 1
        BY <2>2, <3>1, <3>5
      <3>7. k \in i + 1..j
        BY <1>9, <2>1, <2>5, <3>6
      <3> QED BY <3>6, <3>7
    <2>6. j \in 1..n \/ j = n + 1
      BY <1>9, <1>10
    <2>7. t.seen < n \/ t.seen = n
      BY <1>2, <1>5, <1>9 DEF Carries
    <2> QED BY <2>3, <2>4, <2>5, <2>6, <2>7
  <1>13. ASSUME NEW i \in DOMAIN versions', NEW s \in Signals
         PROVE  Holds(versions', i, s, n + 1, c)
    <2> SUFFICES ASSUME s \in versions'[i].changed, c[s] # versions'[i].weights[s],
                        versions'[i].wrote \/ ~ versions'[i].seen < i - 1,
                        \A j \in i + 1..n + 1 :
                           versions'[j].wrote =>
                              s \notin versions'[j].changed /\ ~ versions'[j].seen < i
                 PROVE  FALSE
      BY DEF Holds, Overlaid
    <2>1. CASE i = n + 1
      <3>1. c[s] # t.weights[s] /\ (t.weights # t.read \/ ~ t.seen < n)
        <4>1. versions'[i] = v /\ i - 1 = n
          BY <1>9, <1>10, <2>1
        <4>2. c[s] # t.weights[s] /\ (v.wrote \/ ~ v.seen < i - 1)
          BY <1>4, <4>1
        <4> QED BY <1>4, <4>1, <4>2
      <3>2. c = profile.weights /\ t.weights = t.read /\ ~ t.seen < n
        <4>1. t.weights # t.read => c = t.weights
          BY <1>6
        <4>2. t.weights = t.read
          BY <3>1, <4>1
        <4> QED BY <1>6, <3>1, <4>2
      <3>3. t.seen = n
        BY <1>2, <1>5, <1>9, <3>2 DEF Carries
      <3>4. t.read = profile.weights
        BY <1>2, <1>5, <3>3 DEF Carries
      <3> QED BY <3>1, <3>2, <3>4
    <2>2. CASE i \in 1..n
      <3>1. n + 1 \in i + 1..n + 1 /\ versions'[i] = versions[i]
        BY <1>9, <1>10, <2>2
      <3>2. t.weights # t.read => s \notin t.changed /\ ~ t.seen < i
        BY <1>4, <1>10, <3>1
      <3>3. ASSUME NEW m \in 0..n
            PROVE  ~ Overlaid(versions, i, s, m)
        <4>1. ASSUME NEW j \in i + 1..m
              PROVE  ~ (versions[j].wrote /\ (s \in versions[j].changed \/ versions[j].seen < i))
          <5>1. j \in 1..n /\ j \in i + 1..n + 1
            BY <1>9, <2>2, <3>3, <4>1
          <5> QED BY <1>10, <5>1
        <4>2. ~ (~ versions[i].wrote /\ versions[i].seen < i - 1)
          BY <3>1
        <4> QED BY <4>1, <4>2 DEF Overlaid
      <3>4. CASE t.weights = t.read
        <4>1. Holds(versions, i, s, n, profile.weights)
          BY <1>5, <1>10, <2>2 DEF ProfileInv
        <4>2. n \in 0..n /\ c = profile.weights
          BY <1>6, <1>9, <3>4
        <4> QED BY <3>1, <3>3, <4>1, <4>2 DEF Holds
      <3>5. CASE t.weights # t.read
        <4>1. i \in 1..t.seen /\ t.seen \in 0..n /\ s \in Signals \ t.changed
          BY <1>2, <1>5, <1>9, <2>2, <3>2, <3>5 DEF Carries
        <4>2. Holds(versions, i, s, t.seen, t.weights)
          BY <1>2, <4>1 DEF Carries
        <4> QED BY <1>6, <3>1, <3>3, <3>5, <4>1, <4>2 DEF Holds
      <3> QED BY <3>4, <3>5
    <2> QED BY <1>9, <1>10, <2>1, <2>2
  <1>14. ASSUME NEW u, Carries(u, versions, profile.weights)
         PROVE  Carries(u, versions', c)
    <2>1. u \in Update /\ u.seen \in Nat /\ u.seen <= n
      BY <1>5, <1>14 DEF Carries, Update
    <2>2. ASSUME NEW i \in 1..u.seen, NEW s, Holds(versions, i, s, u.seen, u.weights)
          PROVE  Holds(versions', i, s, u.seen, u.weights)
      <3>1. i \in 1..n /\ \A j \in i + 1..u.seen : j \in 1..n
        BY <1>9, <2>1
      <3> QED BY <1>10, <2>2, <3>1 DEF Holds, Overlaid
    <2>3. u.seen <= Len(versions') /\ u.seen # Len(versions')
      BY <1>9, <1>10, <2>1
    <2> QED BY <1>14, <2>1, <2>2, <2>3 DEF Carries
  <1>15. /\ DOMAIN scoreTxn' = Workers
         /\ \A u \in Workers :
               /\ "pc" \in DOMAIN scoreTxn'[u]
               /\ scoreTxn'[u].pc = "suggested" => scoreTxn'[u].signal \in Signals
               /\ scoreTxn'[u].pc = "update" => Carries(scoreTxn'[u], versions', c)
    BY <1>2, <1>8, <1>14 DEF ProfileInv, Scoring!NoTxn
  <1> QED BY <1>10, <1>11, <1>12, <1>13, <1>15 DEF ProfileInv

LEMMA ProfileStep ==
    ASSUME Scoring!ProfileAssumption, ProfileInv, [Scoring!Next]_(Scoring!vars)
    PROVE  ProfileInv'
  <1>1. ASSUME NEW w \in Workers, NEW t, Scoring!Step(w, t), profile' = profile,
               versions' = versions, "pc" \in DOMAIN t, t.pc \notin {"suggested", "update"}
        PROVE  ProfileInv'
    BY <1>1, ProfileMoves
  <1>2. "pc" \in DOMAIN Scoring!NoTxn /\ Scoring!NoTxn.pc \notin {"suggested", "update"}
    BY DEF Scoring!NoTxn
  <1>3. ASSUME NEW w \in Workers, Scoring!Suggest(w)
        PROVE  ProfileInv'
    <2>1. PICK t : Scoring!Step(w, t) /\ "pc" \in DOMAIN t /\ t.pc = "suggested"
                       /\ t.signal \in Signals
      <3>1. PICK s \in Signals :
                \E wt : Scoring!Step(w, [pc |-> "suggested", signal |-> s, weight |-> wt])
        BY <1>3, Zenon DEF Scoring!Suggest
      <3> QED BY <3>1
    <2>2. UNCHANGED <<Scoring!db, begun>>
      BY <1>3, Zenon DEF Scoring!Suggest
    <2> QED BY <2>1, <2>2, ProfileMoves DEF Scoring!db
  <1>4. ASSUME NEW w \in Workers, Scoring!AddRule(w)
        PROVE  ProfileInv'
    <2>1. profile' = profile /\ versions' = versions /\ scoreTxn' = scoreTxn
      BY <1>4 DEF Scoring!AddRule
    <2> QED BY <2>1 DEF ProfileInv
  <1>5. ASSUME NEW w \in Workers, Scoring!Delete(w)
        PROVE  ProfileInv'
    <2>1. profile' = Gone /\ versions' = <<>> /\ scoreTxn' = scoreTxn
      BY <1>5 DEF Scoring!Delete
    <2> QED BY <2>1 DEF ProfileInv
  <1>6. ASSUME NEW w \in Workers, Scoring!BeginScore(w)
        PROVE  ProfileInv'
    <2>1. PICK done : Scoring!Step(w, [pc |-> "score", done |-> done])
      BY <1>6, Zenon DEF Scoring!BeginScore
    <2>2. UNCHANGED Scoring!db
      BY <1>6, Zenon DEF Scoring!BeginScore
    <2> QED BY <1>1, <2>1, <2>2 DEF Scoring!db
  <1>7. ASSUME NEW w \in Workers, Scoring!CommitScore(w)
        PROVE  ProfileInv'
    <2>1. Scoring!Step(w, Scoring!NoTxn) /\ profile' = profile /\ versions' = versions
      BY <1>7, Zenon DEF Scoring!CommitScore
    <2> QED BY <1>1, <1>2, <2>1
  <1>8. ASSUME NEW w \in Workers, Scoring!BeginRecalculate(w)
        PROVE  ProfileInv'
    <2>1. UNCHANGED Scoring!db
      BY <1>8, Zenon DEF Scoring!BeginRecalculate
    <2>2. Scoring!Step(w, [pc |-> "list", weights |-> profile.weights,
                           total |-> Scoring!Cardinality(present)])
      BY <1>8, Zenon DEF Scoring!BeginRecalculate
    <2> QED BY <1>1, <2>1, <2>2 DEF Scoring!db
  <1>9. ASSUME NEW w \in Workers, Scoring!EvaluateNext(w)
        PROVE  ProfileInv'
    <2>1. PICK t : t = scoreTxn[w]
      OBVIOUS
    <2>2. t.pc = "recalculate" /\ "pc" \in DOMAIN t
          /\ \E left, done : Scoring!Step(w, [t EXCEPT !.left = left, !.done = done])
      BY <1>9, <2>1, Zenon DEF Scoring!EvaluateNext, ProfileInv
    <2>3. UNCHANGED <<Scoring!db, begun>>
      BY <1>9, Zenon DEF Scoring!EvaluateNext
    <2>4. PICK left, done : Scoring!Step(w, [t EXCEPT !.left = left, !.done = done])
      BY <2>2
    <2>5. PICK u : u = [t EXCEPT !.left = left, !.done = done]
      OBVIOUS
    <2>6. "pc" \in DOMAIN u /\ u.pc = "recalculate"
      BY <2>2, <2>5
    <2> QED BY <1>1, <2>3, <2>4, <2>5, <2>6 DEF Scoring!db
  <1>10. ASSUME NEW w \in Workers, Scoring!FinishRecalculate(w)
         PROVE  ProfileInv'
    <2>1. Scoring!Step(w, Scoring!NoTxn) /\ UNCHANGED <<profile, rules, versions, present, begun>>
      BY <1>10, Zenon DEF Scoring!FinishRecalculate
    <2> QED BY <1>1, <1>2, <2>1
  <1>11. ASSUME NEW w \in Workers, Scoring!Rollback(w)
         PROVE  ProfileInv'
    <2>1. Scoring!Step(w, Scoring!NoTxn) /\ UNCHANGED <<Scoring!db, begun>>
      BY <1>11, Zenon DEF Scoring!Rollback
    <2> QED BY <1>1, <1>2, <2>1 DEF Scoring!db
  <1>12. CASE UNCHANGED Scoring!vars
    BY <1>12 DEF Scoring!vars, Scoring!db, ProfileInv
  <1>13. CASE Scoring!AddRestaurant
    <2>1. profile' = profile /\ versions' = versions /\ scoreTxn' = scoreTxn
      BY <1>13 DEF Scoring!AddRestaurant
    <2> QED BY <2>1 DEF ProfileInv
  <1>14. ASSUME NEW w \in Workers, Scoring!ListRestaurants(w)
         PROVE  ProfileInv'
    <2>1. UNCHANGED Scoring!db
      BY <1>14, Zenon DEF Scoring!ListRestaurants
    <2>2. Scoring!Step(w, [pc |-> "recalculate", weights |-> scoreTxn[w].weights,
                           total |-> scoreTxn[w].total, listed |-> present, left |-> present,
                           done |-> {}])
      BY <1>14, Zenon DEF Scoring!ListRestaurants
    <2> QED BY <1>1, <2>1, <2>2 DEF Scoring!db
  <1> QED BY <1>3, <1>4, <1>5, <1>6, <1>7, <1>8, <1>9, <1>10, <1>11, <1>12, <1>13, <1>14,
             BeginUpdateProfile, BeginApplyProfile, CommitProfile DEF Scoring!Next

LEMMA ProfileHolds ==
    ASSUME Scoring!ProfileAssumption
    PROVE  Scoring!Spec => []ProfileInv
  <1>1. ProfileInv /\ [Scoring!Next]_(Scoring!vars) => ProfileInv'
    BY ProfileStep
  <1> QED BY <1>1, ProfileInit, PTL DEF Scoring!Spec

\* The snapshots of a scoring profile explain their numbers and the weights: a
\* number an earlier snapshot had reached comes from an overlap in between, and
\* a weight that is no longer what the last snapshot naming it says from a
\* change that was written and had read the profile before, or the snapshot
\* gives weights that were not written over those of another change (api/routers/scoring_engine.py,
\* update_profile; services/feedback_loop.py, apply_adjustments).
THEOREM SnapshotsTellProfile ==
    ASSUME Scoring!ProfileAssumption
    PROVE  Scoring!Spec => []Scoring!VersionsExplained
  <1>1. ProfileInv => Scoring!VersionsExplained
    <2> SUFFICES ASSUME ProfileInv
                 PROVE  Scoring!VersionsExplained
      OBVIOUS
    <2>1. \A i \in DOMAIN versions, s \in Signals :
             s \in versions[i].changed /\ profile.weights[s] # versions[i].weights[s]
                => \/ ~versions[i].wrote /\ versions[i].seen < i - 1
                   \/ \E j \in i + 1..Len(versions) :
                         versions[j].wrote /\ (s \in versions[j].changed \/ versions[j].seen < i)
      BY DEF ProfileInv, Holds, Overlaid
    <2>2. \A i, j \in DOMAIN versions :
             i < j /\ versions[j].number <= versions[i].number
                => \E k \in i + 1..j : versions[k].seen < k - 1
      BY DEF ProfileInv
    <2> QED BY <2>1, <2>2 DEF Scoring!VersionsExplained
  <1> QED BY <1>1, ProfileHolds, PTL

-----------------------------------------------------------------------------
(* The history of a column of the CRM.                                     *)

LEMMA LeastExists == ASSUME NEW T \in SUBSET Nat, T # {} PROVE \E x \in T : \A y \in T : x <= y
  <1> DEFINE R == {s \in Nat \X Nat : s[1] < s[2]}
  <1>1. IsWellFoundedOn(R, Nat)
    BY NatLessThanWellFounded DEF OpToRel
  <1>2. \A x, y \in T : x <= y \/ <<y, x>> \in R
    OBVIOUS
  <1> HIDE DEF R
  <1>3. PICK x \in T : \A y \in T : ~(<<y, x>> \in R)
    BY <1>1, WFMin
  <1> QED BY <1>2, <1>3

Fresh(rows, k) == rows[k].seen = k - 1
Same(rows, k)  == rows[k].from = rows[k].to

\* Nothing overlaps from the i-th write to the m-th, and those after the i-th
\* change nothing.
Quiet(rows, i, m) ==
    /\ \A k \in i..m : Fresh(rows, k)
    /\ \A k \in i + 1..m : Same(rows, k)

\* Moves of the deal are the only later writes.
Repeated(rows, i) ==
    \A j \in i..Len(rows) : rows[j].by = "deal" /\ rows[j].event = rows[i].event

Chain(rows, v) ==
    /\ \A k \in DOMAIN rows :
          k > 1 /\ Fresh(rows, k) /\ Fresh(rows, k - 1) => rows[k].from = rows[k - 1].to
    /\ rows # <<>> /\ Fresh(rows, Len(rows)) => v = rows[Len(rows)].to
    /\ \A i, m \in DOMAIN rows : i <= m /\ Quiet(rows, i, m) => rows[m].to = rows[i].to
    /\ \A i \in DOMAIN rows : Fresh(rows, i) /\ Repeated(rows, i) => v = rows[i].to

\* What deal events write is the stage of their move, what the task writes the
\* qualified one.
Told(rows, moves) ==
    \A k \in DOMAIN rows :
        /\ rows[k].by = "deal" => /\ rows[k].event \in 1..Len(moves)
                                  /\ rows[k].to = StageMap[moves[rows[k].event]]
        /\ rows[k].by = "task" => rows[k].to = Qualified

\* The writes of one transaction that has read r after s of them.
Linked(rows, r, s) ==
    /\ \A k \in DOMAIN rows : rows[k].seen = s + k - 1
    /\ rows # <<>> => rows[1].from = r
    /\ \A k \in DOMAIN rows : k > 1 => rows[k].from = rows[k - 1].to
    /\ \A b \in DOMAIN rows : (\A k \in 1..b : Same(rows, k)) => rows[b].to = r
    /\ \A a, b \in DOMAIN rows :
          a <= b /\ (\A k \in a + 1..b : Same(rows, k)) => rows[b].to = rows[a].to

LEMMA LinkedGrows ==
    ASSUME NEW rows \in Seq(Crm!Entry), NEW r, NEW s \in Nat, Linked(rows, r, s),
           NEW e \in Crm!Entry, e.seen = s + Len(rows),
           rows = <<>> => e.from = r,
           rows # <<>> => e.from = rows[Len(rows)].to
    PROVE  Linked(Append(rows, e), r, s)
  <1>1. PICK new : new = Append(rows, e)
    OBVIOUS
  <1>2. PICK n : n = Len(rows)
    OBVIOUS
  <1>3. /\ n \in Nat /\ DOMAIN rows = 1..n /\ DOMAIN new = 1..n + 1 /\ new[n + 1] = e
        /\ \A k \in 1..n : new[k] = rows[k]
        /\ n = 0 <=> rows = <<>>
    BY <1>1, <1>2
  <1>4. \A k \in 1..n : Same(new, k) <=> Same(rows, k)
    BY <1>3 DEF Same
  <1>5. \A k \in 1..n + 1 : new[k].seen = s + k - 1
    <2> SUFFICES ASSUME NEW k \in 1..n + 1
                 PROVE  new[k].seen = s + k - 1
      OBVIOUS
    <2>1. CASE k \in 1..n
      BY <1>3, <2>1 DEF Linked
    <2>2. CASE k = n + 1
      BY <1>2, <1>3, <2>2
    <2> QED BY <1>3, <2>1, <2>2
  <1>6. new[1].from = r
    BY <1>2, <1>3 DEF Linked
  <1>7. \A k \in 1..n + 1 : k > 1 => new[k].from = new[k - 1].to
    <2> SUFFICES ASSUME NEW k \in 1..n + 1, k > 1
                 PROVE  new[k].from = new[k - 1].to
      OBVIOUS
    <2>1. CASE k \in 1..n
      <3>1. k - 1 \in 1..n
        BY <1>3, <2>1
      <3> QED BY <1>3, <2>1, <3>1 DEF Linked
    <2>2. CASE k = n + 1
      <3>1. n \in 1..n /\ k - 1 = n
        BY <1>3, <2>2
      <3> QED BY <1>2, <1>3, <2>2, <3>1
    <2> QED BY <1>3, <2>1, <2>2
  <1>8. ASSUME NEW b \in 1..n + 1, \A k \in 1..b : Same(new, k)
        PROVE  new[b].to = r
    <2>1. \A m \in 1..n : m <= b => rows[m].to = r
      <3> SUFFICES ASSUME NEW m \in 1..n, m <= b
                   PROVE  rows[m].to = r
        OBVIOUS
      <3>1. \A k \in 1..m : k \in 1..b /\ k \in 1..n
        BY <1>3
      <3>2. \A k \in 1..m : Same(rows, k)
        BY <1>4, <1>8, <3>1
      <3> QED BY <1>3, <3>2 DEF Linked
    <2>2. CASE b \in 1..n
      BY <1>3, <2>1, <2>2
    <2>3. CASE b = n + 1
      <3>1. e.from = e.to
        BY <1>3, <1>8, <2>3 DEF Same
      <3>2. CASE n = 0
        BY <1>3, <2>3, <3>1, <3>2
      <3>3. CASE n # 0
        <4>1. n \in 1..n /\ n <= b
          BY <1>3, <2>3, <3>3
        <4> QED BY <1>2, <1>3, <2>1, <2>3, <3>1, <3>3, <4>1
      <3> QED BY <3>2, <3>3
    <2> QED BY <1>3, <2>2, <2>3
  <1>9. ASSUME NEW a \in 1..n + 1, NEW b \in 1..n + 1, a <= b, \A k \in a + 1..b : Same(new, k)
        PROVE  new[b].to = new[a].to
    <2>1. \A m \in 1..n : a <= m /\ m <= b => rows[m].to = rows[a].to
      <3> SUFFICES ASSUME NEW m \in 1..n, a <= m, m <= b
                   PROVE  rows[m].to = rows[a].to
        OBVIOUS
      <3>1. a \in 1..n /\ \A k \in a + 1..m : k \in a + 1..b /\ k \in 1..n
        BY <1>3
      <3>2. \A k \in a + 1..m : Same(rows, k)
        BY <1>4, <1>9, <3>1
      <3> QED BY <1>3, <3>1, <3>2 DEF Linked
    <2>2. CASE b \in 1..n
      <3>1. a \in 1..n
        BY <1>3, <1>9, <2>2
      <3> QED BY <1>3, <1>9, <2>1, <2>2, <3>1
    <2>3. CASE b = n + 1 /\ a = n + 1
      BY <2>3
    <2>4. CASE b = n + 1 /\ a \in 1..n
      <3>1. b \in a + 1..b /\ n \in 1..n /\ a <= n /\ n <= b /\ n # 0
        BY <1>3, <2>4
      <3>2. e.from = e.to
        BY <1>3, <1>9, <2>4, <3>1 DEF Same
      <3> QED BY <1>2, <1>3, <2>1, <2>4, <3>1, <3>2
    <2> QED BY <1>3, <2>2, <2>3, <2>4
  <1>10. Linked(new, r, s)
    BY <1>3, <1>5, <1>6, <1>7, <1>8, <1>9 DEF Linked
  <1> QED BY <1>1, <1>10

\* A transaction commits what it has read and made, however late.
LEMMA ChainGrows ==
    ASSUME NEW rows \in Seq(Crm!Entry), NEW v, NEW moves, Chain(rows, v), Told(rows, moves),
           NEW more \in Seq(Crm!Entry), more # <<>>, Told(more, moves),
           NEW r, NEW s \in Nat, Linked(more, r, s), s <= Len(rows), s = Len(rows) => r = v,
           NEW u, u = IF \A k \in DOMAIN more : more[k].from = more[k].to THEN v
                      ELSE more[Len(more)].to
    PROVE  Chain(rows \o more, u) /\ Told(rows \o more, moves)
  <1>1. PICK n : n = Len(rows)
    OBVIOUS
  <1>2. PICK m : m = Len(more)
    OBVIOUS
  <1>3. PICK new : new = rows \o more
    OBVIOUS
  <1>4. /\ n \in Nat /\ m \in Nat /\ m > 0
        /\ DOMAIN rows = 1..n /\ DOMAIN more = 1..m
        /\ DOMAIN new = 1..n + m /\ Len(new) = n + m
        /\ n = 0 <=> rows = <<>>
    BY <1>1, <1>2, <1>3
  <1>5. \A k \in 1..n : new[k] = rows[k]
    BY <1>1, <1>3, <1>4
  <1>6. \A k \in 1..m : new[n + k] = more[k]
    BY <1>1, <1>2, <1>3, <1>4
  <1>7. \A k \in 1..n + m : k \in 1..n \/ (k - n \in 1..m /\ k = n + (k - n))
    BY <1>4
  <1>8. \A k \in 1..n : (Fresh(new, k) <=> Fresh(rows, k)) /\ (Same(new, k) <=> Same(rows, k))
    BY <1>5 DEF Fresh, Same
  <1>9. \A k \in 1..m : (Fresh(new, n + k) => s = n) /\ (Same(new, n + k) <=> Same(more, k))
    <2> SUFFICES ASSUME NEW k \in 1..m
                 PROVE  (Fresh(new, n + k) => s = n) /\ (Same(new, n + k) <=> Same(more, k))
      OBVIOUS
    <2>1. more[k].seen = s + k - 1
      BY <1>4 DEF Linked
    <2> QED BY <1>4, <1>6, <2>1 DEF Fresh, Same
  <1>10. u = more[m].to \/ (u = v /\ \A k \in 1..m : Same(more, k))
    BY <1>2, <1>4 DEF Same
  <1>11. s = n => r = v
    BY <1>1
  <1>12. ASSUME NEW k \in 1..n + m, k > 1, Fresh(new, k), Fresh(new, k - 1)
         PROVE  new[k].from = new[k - 1].to
    <2>1. CASE k \in 1..n
      <3>1. k - 1 \in 1..n
        BY <1>4, <1>12, <2>1
      <3> QED BY <1>4, <1>5, <1>8, <1>12, <2>1, <3>1 DEF Chain
    <2>2. CASE k = n + 1
      <3>1. n \in 1..n /\ 1 \in 1..m /\ k - 1 = n /\ rows # <<>>
        BY <1>4, <1>12, <2>2
      <3>2. s = n /\ more[1].from = r
        BY <1>9, <1>12, <2>2, <3>1 DEF Linked
      <3>3. v = rows[n].to
        BY <1>1, <1>8, <1>12, <3>1 DEF Chain
      <3> QED BY <1>5, <1>6, <1>11, <2>2, <3>1, <3>2, <3>3
    <2>3. CASE k > n + 1
      <3>1. k - n \in 1..m /\ (k - n) - 1 \in 1..m /\ k - n > 1
            /\ k = n + (k - n) /\ k - 1 = n + ((k - n) - 1)
        BY <1>4, <2>3
      <3>2. more[k - n].from = more[(k - n) - 1].to
        BY <1>4, <3>1 DEF Linked
      <3> QED BY <1>6, <3>1, <3>2
    <2> QED BY <1>4, <2>1, <2>2, <2>3
  <1>13. Fresh(new, n + m) => u = new[n + m].to
    <2> SUFFICES ASSUME Fresh(new, n + m)
                 PROVE  u = new[n + m].to
      OBVIOUS
    <2>1. m \in 1..m /\ new[n + m] = more[m] /\ s = n
      BY <1>4, <1>6, <1>9
    <2>2. (\A k \in 1..m : Same(more, k)) => more[m].to = r
      BY <1>4, <2>1 DEF Linked
    <2> QED BY <1>10, <1>11, <2>1, <2>2
  <1>14. ASSUME NEW i \in 1..n + m, NEW j \in 1..n + m, i <= j, Quiet(new, i, j)
         PROVE  new[j].to = new[i].to
    <2>1. \A k \in i..j : Fresh(new, k)
      BY <1>14 DEF Quiet
    <2>2. \A k \in i + 1..j : Same(new, k)
      BY <1>14 DEF Quiet
    <2>3. ASSUME NEW h \in 1..n, i <= h, h <= j
          PROVE  rows[h].to = rows[i].to
      <3>1. i \in 1..n /\ \A k \in i..h : k \in 1..n /\ k \in i..j /\ (k \in i + 1..h => k \in i + 1..j)
        BY <1>4, <2>3
      <3>2. \A k \in i + 1..h : k \in i..h
        BY <1>4, <3>1
      <3>3. Quiet(rows, i, h)
        BY <1>8, <2>1, <2>2, <3>1, <3>2 DEF Quiet
      <3> QED BY <1>4, <2>3, <3>1, <3>3 DEF Chain
    <2>4. CASE j \in 1..n
      <3>1. i \in 1..n
        BY <1>4, <1>14, <2>4
      <3> QED BY <1>5, <1>14, <2>3, <2>4, <3>1
    <2>5. CASE i \in 1..n /\ j > n
      <3>1. PICK b : b = j - n
        OBVIOUS
      <3>2. b \in 1..m /\ j = n + b /\ n \in 1..n /\ i <= n /\ n <= j /\ n \in i..j
            /\ 1 \in 1..m /\ n + 1 \in i..j /\ rows # <<>>
        BY <1>4, <2>5, <3>1
      <3>3. rows[n].to = rows[i].to /\ v = rows[n].to
        BY <1>1, <1>8, <2>1, <2>3, <3>2 DEF Chain
      <3>4. s = n
        BY <1>9, <2>1, <3>2
      <3>5. \A k \in 1..b : k \in 1..m /\ n + k \in i + 1..j
        BY <1>4, <2>5, <3>2
      <3>6. \A k \in 1..b : Same(more, k)
        BY <1>9, <2>2, <3>5
      <3>7. more[b].to = r
        BY <1>4, <3>2, <3>6 DEF Linked
      <3> QED BY <1>5, <1>6, <1>11, <2>5, <3>2, <3>3, <3>4, <3>7
    <2>6. CASE i > n
      <3>1. PICK a, b : a = i - n /\ b = j - n
        OBVIOUS
      <3>2. a \in 1..m /\ b \in 1..m /\ a <= b /\ i = n + a /\ j = n + b
        BY <1>4, <1>14, <2>6, <3>1
      <3>3. \A k \in a + 1..b : k \in 1..m /\ n + k \in i + 1..j
        BY <1>4, <3>2
      <3>4. \A k \in a + 1..b : Same(more, k)
        BY <1>9, <2>2, <3>3
      <3>5. more[b].to = more[a].to
        BY <1>4, <3>2, <3>4 DEF Linked
      <3> QED BY <1>6, <3>2, <3>5
    <2> QED BY <1>4, <2>4, <2>5, <2>6
  <1>15. Told(new, moves)
    <2> SUFFICES ASSUME NEW k \in 1..n + m
                 PROVE  /\ new[k].by = "deal" => /\ new[k].event \in 1..Len(moves)
                                                 /\ new[k].to = StageMap[moves[new[k].event]]
                        /\ new[k].by = "task" => new[k].to = Qualified
      BY <1>4 DEF Told
    <2>1. CASE k \in 1..n
      BY <1>4, <1>5, <2>1 DEF Told
    <2>2. CASE k - n \in 1..m /\ k = n + (k - n)
      <3>1. new[k] = more[k - n]
        BY <1>6, <2>2
      <3> QED BY <1>4, <2>2, <3>1 DEF Told
    <2> QED BY <1>7, <2>1, <2>2
  <1>16. ASSUME NEW i \in 1..n + m, Fresh(new, i), Repeated(new, i)
         PROVE  u = new[i].to
    <2>1. \A j \in i..n + m : new[j].by = "deal" /\ new[j].event = new[i].event
      BY <1>4, <1>16 DEF Repeated
    <2>2. \A j \in i..n + m : j \in 1..n + m /\ new[j].to = new[i].to
      <3>1. i \in i..n + m /\ \A j \in i..n + m : j \in 1..n + m
        BY <1>4
      <3>2. \A j \in 1..n + m :
               new[j].by = "deal" => new[j].to = StageMap[moves[new[j].event]]
        BY <1>4, <1>15 DEF Told
      <3>3. \A j \in i..n + m : new[j].to = StageMap[moves[new[i].event]]
        BY <2>1, <3>1, <3>2
      <3> QED BY <3>1, <3>3
    <2>3. new[n + m].to = new[i].to /\ new[n + m] = more[m]
      BY <1>4, <1>6, <2>2
    <2>4. CASE u = more[m].to
      BY <2>3, <2>4
    <2>5. CASE u = v /\ (\A k \in 1..m : Same(more, k)) /\ i \in 1..n
      <3>1. \A j \in i..n : j \in 1..n /\ j \in i..n + m
        BY <1>4, <2>5
      <3>2. Repeated(rows, i)
        BY <1>1, <1>5, <2>1, <2>5, <3>1 DEF Repeated
      <3> QED BY <1>4, <1>5, <1>8, <1>16, <2>5, <3>2 DEF Chain
    <2>6. CASE u = v /\ (\A k \in 1..m : Same(more, k)) /\ i - n \in 1..m /\ i = n + (i - n)
      <3>1. s = n /\ new[i] = more[i - n]
        BY <1>6, <1>9, <1>16, <2>6
      <3>2. \A k \in 1..(i - n) : Same(more, k)
        BY <1>4, <2>6
      <3>3. more[i - n].to = r
        BY <1>4, <2>6, <3>2 DEF Linked
      <3> QED BY <1>11, <2>6, <3>1, <3>3
    <2> QED BY <1>7, <1>10, <2>4, <2>5, <2>6
  <1>17. Chain(new, u)
    BY <1>4, <1>12, <1>13, <1>14, <1>16 DEF Chain
  <1> QED BY <1>3, <1>15, <1>17

Posted(b, moves) == b \in Seq(Nat) /\ \A k \in 1..Len(b) : b[k] \in 1..Len(moves)

\* What was read after s writes, rows now being the writes and v the value.
Behind(r, s, rows, v) ==
    r \in ColumnValues /\ s \in Nat /\ s <= Len(rows) /\ (s = Len(rows) => r = v)

CrmTxnOK(t, rows, v, moves) ==
    \/ t = Crm!NoTxn
    \/ /\ t = [pc |-> "write", entry |-> t.entry]
       /\ t.entry \in Crm!Entry /\ t.entry.by # "deal"
       /\ t.entry.by = "task" => t.entry.to = Qualified
       /\ Behind(t.entry.from, t.entry.seen, rows, v)
    \/ /\ t = [pc |-> "batch", batch |-> t.batch, left |-> t.left, read |-> t.read,
               seen |-> t.seen, entries |-> t.entries]
       /\ Posted(t.batch, moves) /\ Posted(t.left, moves)
       /\ Behind(t.read, t.seen, rows, v)
       /\ t.entries \in Seq(Crm!Entry)
       /\ Linked(t.entries, t.read, t.seen)
       /\ Told(t.entries, moves)

CrmInv ==
    /\ value \in ColumnValues
    /\ log \in Seq(Crm!Entry) /\ Chain(log, value) /\ Told(log, deal)
    /\ deal \in Seq(DealStages)
    /\ \A b \in queue : Posted(b, deal)
    /\ DOMAIN crmTxn = Workers
    /\ \A w \in Workers : CrmTxnOK(crmTxn[w], log, value, deal)

LEMMA CrmInit ==
    ASSUME Crm!HistoryAssumption, Crm!Init
    PROVE  CrmInv
  <1>1. value = First /\ log = <<>> /\ deal = <<>> /\ queue = {} /\ First \in ColumnValues
    BY DEF Crm!Init, Crm!HistoryAssumption
  <1>2. Chain(log, value) /\ Told(log, deal)
    BY <1>1 DEF Chain, Told
  <1>3. DOMAIN crmTxn = Workers /\ \A w \in Workers : crmTxn[w] = Crm!NoTxn
    BY DEF Crm!Init
  <1> QED BY <1>1, <1>2, <1>3 DEF CrmInv, CrmTxnOK

\* A worker's transaction changes, and neither the column nor the deal.
LEMMA CrmTxnKept ==
    ASSUME CrmInv, NEW w \in Workers, NEW t, Crm!Step(w, t), CrmTxnOK(t, log, value, deal),
           UNCHANGED <<log, value, deal>>, \A b \in queue' : Posted(b, deal)
    PROVE  CrmInv'
  <1>1. DOMAIN crmTxn' = Workers /\ \A v \in Workers : crmTxn'[v] = IF v = w THEN t ELSE crmTxn[v]
    BY DEF CrmInv, Crm!Step
  <1>2. \A v \in Workers : CrmTxnOK(crmTxn'[v], log, value, deal)
    BY <1>1 DEF CrmInv
  <1> QED BY <1>1, <1>2 DEF CrmInv

LEMMA CrmCommit ==
    ASSUME CrmInv, NEW w \in Workers, NEW more \in Seq(Crm!Entry), Crm!Commit(w, more),
           Told(more, deal), UNCHANGED <<deal, queue>>,
           NEW r, NEW s, Behind(r, s, log, value), Linked(more, r, s)
    PROVE  CrmInv'
  <1>1. /\ log' = log \o more
        /\ value' = IF \A k \in DOMAIN more : more[k].from = more[k].to THEN value
                    ELSE more[Len(more)].to
        /\ Crm!Step(w, Crm!NoTxn)
    BY DEF Crm!Commit, Crm!LastValue
  <1>2. CASE more = <<>>
    <2>1. log' = log /\ value' = value
      BY <1>1, <1>2 DEF CrmInv
    <2>2. CrmTxnOK(Crm!NoTxn, log, value, deal)
      BY DEF CrmTxnOK
    <2> QED BY <1>1, <2>1, <2>2, CrmTxnKept DEF CrmInv
  <1>3. CASE more # <<>>
    <2>1. Chain(log', value') /\ Told(log', deal)
      <3>1. \A u : u = (IF \A k \in DOMAIN more : more[k].from = more[k].to THEN value
                        ELSE more[Len(more)].to)
                    => Chain(log \o more, u) /\ Told(log \o more, deal)
        BY <1>3, ChainGrows DEF CrmInv, Behind
      <3> QED BY <1>1, <3>1
    <2>2. /\ log' \in Seq(Crm!Entry) /\ Len(log') = Len(log) + Len(more)
          /\ Len(more) \in Nat /\ Len(more) > 0 /\ Len(log) \in Nat
      BY <1>1, <1>3 DEF CrmInv
    <2>3. value' \in ColumnValues
      <3>1. more[Len(more)] \in Crm!Entry
        BY <2>2
      <3> QED BY <1>1, <3>1 DEF CrmInv, Crm!Entry
    <2>4. \A a, b : Behind(a, b, log, value) => Behind(a, b, log', value')
      BY <2>2 DEF Behind
    <2>5. \A t : CrmTxnOK(t, log, value, deal) => CrmTxnOK(t, log', value', deal)
      BY <2>4 DEF CrmTxnOK
    <2>6. DOMAIN crmTxn' = Workers /\ \A v \in Workers : crmTxn'[v] \in {crmTxn[v], Crm!NoTxn}
      BY <1>1 DEF CrmInv, Crm!Step
    <2>7. \A v \in Workers : CrmTxnOK(crmTxn'[v], log', value', deal)
      BY <2>5, <2>6 DEF CrmInv, CrmTxnOK
    <2> QED BY <2>1, <2>2, <2>3, <2>6, <2>7 DEF CrmInv
  <1> QED BY <1>2, <1>3

LEMMA CrmWrites ==
    ASSUME Crm!HistoryAssumption, CrmInv, NEW w \in Workers,
           Crm!BeginSet(w) \/ Crm!BeginQualify(w) \/ Crm!CommitWrite(w)
    PROVE  CrmInv'
  <1>1. ASSUME NEW to \in ColumnValues, NEW by \in {"request", "task"},
               NEW e, e = [by |-> by, from |-> value, to |-> to, event |-> 0, seen |-> Len(log)],
               by = "task" => to = Qualified,
               Crm!Step(w, [pc |-> "write", entry |-> e]),
               UNCHANGED <<log, value, deal, queue>>
        PROVE  CrmInv'
    <2>1. /\ e \in Crm!Entry /\ e.by # "deal" /\ Behind(e.from, e.seen, log, value)
          /\ e.by = "task" => e.to = Qualified
      BY <1>1 DEF CrmInv, Crm!Entry, Behind
    <2>2. PICK t : t = [pc |-> "write", entry |-> e]
      OBVIOUS
    <2>3. CrmTxnOK(t, log, value, deal)
      BY <2>1, <2>2 DEF CrmTxnOK
    <2> QED BY <1>1, <2>2, <2>3, CrmTxnKept DEF CrmInv
  <1>2. CASE Crm!BeginSet(w)
    BY <1>1, <1>2 DEF Crm!BeginSet
  <1>3. CASE Crm!BeginQualify(w)
    BY <1>1, <1>3 DEF Crm!BeginQualify, Crm!HistoryAssumption
  <1>4. CASE Crm!CommitWrite(w)
    <2>1. PICK t : t = crmTxn[w]
      OBVIOUS
    <2>2. PICK e : e = t.entry
      OBVIOUS
    <2>3. t.pc = "write" /\ Crm!Commit(w, <<e>>) /\ UNCHANGED <<deal, queue>>
      BY <1>4, <2>1, <2>2 DEF Crm!CommitWrite
    <2>4. /\ e \in Crm!Entry /\ e.by # "deal" /\ Behind(e.from, e.seen, log, value)
          /\ e.by = "task" => e.to = Qualified
      BY <2>1, <2>2, <2>3 DEF CrmInv, CrmTxnOK, Crm!NoTxn
    <2>5. PICK more : more = <<e>>
      OBVIOUS
    <2>6. more \in Seq(Crm!Entry) /\ DOMAIN more = {1} /\ more[1] = e
      BY <2>4, <2>5
    <2>7. Told(more, deal)
      BY <2>4, <2>6 DEF Told
    <2>8. Linked(more, e.from, e.seen)
      BY <2>4, <2>6 DEF Linked, Same, Behind
    <2> QED BY <2>3, <2>4, <2>5, <2>6, <2>7, <2>8, CrmCommit
  <1> QED BY <1>2, <1>3, <1>4

LEMMA CrmMoves ==
    ASSUME CrmInv, Crm!MoveDeal
    PROVE  CrmInv'
  <1>1. PICK s \in DealStages : deal' = Append(deal, s)
    BY DEF Crm!MoveDeal
  <1>2. UNCHANGED <<log, value, queue, crmTxn>>
    BY DEF Crm!MoveDeal
  <1>3. /\ deal' \in Seq(DealStages) /\ Len(deal) \in Nat /\ Len(deal') = Len(deal) + 1
        /\ \A k \in 1..Len(deal) : k \in 1..Len(deal') /\ deal'[k] = deal[k]
    BY <1>1 DEF CrmInv
  <1>4. \A b : Posted(b, deal) => Posted(b, deal')
    BY <1>3 DEF Posted
  <1>5. \A rows : Told(rows, deal) => Told(rows, deal')
    BY <1>3 DEF Told
  <1>6. \A t : CrmTxnOK(t, log, value, deal) => CrmTxnOK(t, log, value, deal')
    BY <1>4, <1>5 DEF CrmTxnOK
  <1> QED BY <1>2, <1>3, <1>4, <1>5, <1>6 DEF CrmInv

LEMMA CrmPosts ==
    ASSUME Crm!HistoryAssumption, CrmInv, Crm!Post
    PROVE  CrmInv'
  <1>1. PICK b \in Crm!Batch : b[Len(b)] <= Len(deal) /\ queue' \in {queue, queue \cup {b}}
    BY DEF Crm!Post
  <1>2. UNCHANGED <<log, value, deal, crmTxn>>
    BY DEF Crm!Post
  <1>3. Posted(b, deal)
    <2>1. CASE \E n \in 1..MaxMoves : b = <<n>>
      <3>1. PICK n \in 1..MaxMoves : b = <<n>>
        BY <2>1
      <3>2. n \in Nat /\ n >= 1 /\ n <= Len(deal)
        BY <1>1, <3>1 DEF Crm!HistoryAssumption
      <3> QED BY <3>1, <3>2 DEF Posted, CrmInv
    <2>2. CASE \E n \in 1..MaxMoves - 1 : b = <<n, n + 1>>
      <3>1. PICK n \in 1..MaxMoves - 1 : b = <<n, n + 1>>
        BY <2>2
      <3>2. n \in Nat /\ n >= 1 /\ n + 1 <= Len(deal) /\ n <= Len(deal) /\ Len(deal) \in Nat
        BY <1>1, <3>1 DEF Crm!HistoryAssumption, CrmInv
      <3>3. n \in 1..Len(deal) /\ n + 1 \in 1..Len(deal) /\ n + 1 \in Nat
        BY <3>2
      <3> QED BY <3>1, <3>2, <3>3 DEF Posted
    <2> QED BY <1>1, <2>1, <2>2 DEF Crm!Batch
  <1> QED BY <1>1, <1>2, <1>3 DEF CrmInv

LEMMA CrmBatches ==
    ASSUME Crm!HistoryAssumption, CrmInv, NEW w \in Workers,
           Crm!TakeBatch(w) \/ Crm!HandleEvent(w) \/ Crm!CommitBatch(w) \/ Crm!Rollback(w)
    PROVE  CrmInv'
  <1>1. CASE Crm!TakeBatch(w)
    <2>1. PICK b \in queue :
              /\ queue' = queue \ {b}
              /\ Crm!Step(w, [pc |-> "batch", batch |-> b, left |-> b, read |-> value,
                              seen |-> Len(log), entries |-> <<>>])
      BY <1>1 DEF Crm!TakeBatch
    <2>2. UNCHANGED <<log, value, deal>>
      BY <1>1 DEF Crm!TakeBatch
    <2>3. PICK t : t = [pc |-> "batch", batch |-> b, left |-> b, read |-> value,
                        seen |-> Len(log), entries |-> <<>>]
      OBVIOUS
    <2>4. PICK none : none = <<>>
      OBVIOUS
    <2>5. none \in Seq(Crm!Entry) /\ Linked(none, value, Len(log)) /\ Told(none, deal)
      BY <2>4 DEF Linked, Told
    <2>6. Posted(b, deal) /\ Behind(value, Len(log), log, value)
      BY <2>1 DEF CrmInv, Behind
    <2>7. CrmTxnOK(t, log, value, deal)
      BY <2>3, <2>4, <2>5, <2>6 DEF CrmTxnOK
    <2> QED BY <2>1, <2>2, <2>3, <2>7, CrmTxnKept DEF CrmInv
  <1>2. CASE Crm!HandleEvent(w)
    <2>1. PICK t : t = crmTxn[w]
      OBVIOUS
    <2>2. PICK n : n = Head(t.left)
      OBVIOUS
    <2>3. PICK more : more = IF StageMap[deal[n]] = Unknown THEN t.entries
                             ELSE Append(t.entries, Crm!Moved(t, n))
      OBVIOUS
    <2>4. /\ t.pc = "batch" /\ t.left # <<>>
          /\ Crm!Step(w, [t EXCEPT !.left = Tail(t.left), !.entries = more])
          /\ UNCHANGED <<log, value, deal, queue>>
      BY <1>2, <2>1, <2>2, <2>3 DEF Crm!HandleEvent
    <2>5. /\ t = [pc |-> "batch", batch |-> t.batch, left |-> t.left, read |-> t.read,
                  seen |-> t.seen, entries |-> t.entries]
          /\ Posted(t.batch, deal) /\ Posted(t.left, deal)
          /\ Behind(t.read, t.seen, log, value)
          /\ t.entries \in Seq(Crm!Entry)
          /\ Linked(t.entries, t.read, t.seen)
          /\ Told(t.entries, deal)
      BY <2>1, <2>4 DEF CrmInv, CrmTxnOK, Crm!NoTxn
    <2>6. PICK left : left = Tail(t.left)
      OBVIOUS
    <2>7. n \in 1..Len(deal) /\ Posted(left, deal)
      <3>1. /\ t.left \in Seq(Nat) /\ Len(t.left) \in Nat /\ Len(t.left) > 0
            /\ \A k \in 1..Len(t.left) : t.left[k] \in 1..Len(deal)
        BY <2>4, <2>5 DEF Posted
      <3>2. /\ left \in Seq(Nat) /\ Len(left) = Len(t.left) - 1 /\ n = t.left[1]
            /\ \A k \in 1..Len(left) : left[k] = t.left[k + 1] /\ k + 1 \in 1..Len(t.left)
        BY <2>2, <2>6, <3>1
      <3>3. n \in 1..Len(deal)
        BY <3>1, <3>2
      <3>4. \A k \in 1..Len(left) : left[k] \in 1..Len(deal)
        BY <3>1, <3>2
      <3> QED BY <3>2, <3>3, <3>4 DEF Posted
    <2>8. /\ more \in Seq(Crm!Entry)
          /\ Linked(more, t.read, t.seen)
          /\ Told(more, deal)
      <3>1. CASE StageMap[deal[n]] = Unknown
        BY <2>3, <2>5, <3>1
      <3>2. CASE StageMap[deal[n]] # Unknown
        <4>1. deal[n] \in DealStages /\ Len(deal) \in Nat
          BY <2>7 DEF CrmInv
        <4>2. StageMap[deal[n]] \in ColumnValues
          BY <3>2, <4>1 DEF Crm!HistoryAssumption
        <4>3. PICK e : e = Crm!Moved(t, n)
          OBVIOUS
        <4>4. PICK from : from = Crm!Read(t)
          OBVIOUS
        <4>5. /\ t.entries = <<>> => from = t.read
              /\ t.entries # <<>> => from = t.entries[Len(t.entries)].to
          BY <4>4 DEF Crm!Read, Crm!LastValue
        <4>6. from \in ColumnValues
          <5>1. t.entries # <<>> => t.entries[Len(t.entries)] \in Crm!Entry
            BY <2>5
          <5> QED BY <2>5, <4>5, <5>1 DEF Behind, Crm!Entry
        <4>7. e = [by |-> "deal", from |-> from, to |-> StageMap[deal[n]], event |-> n,
                   seen |-> t.seen + Len(t.entries)]
          BY <4>3, <4>4 DEF Crm!Moved
        <4>8. e \in Crm!Entry
          <5>1. n \in Nat /\ t.seen + Len(t.entries) \in Nat
            BY <2>5, <2>7, <4>1 DEF Behind
          <5> QED BY <4>2, <4>6, <4>7, <5>1 DEF Crm!Entry
        <4>9. Linked(Append(t.entries, e), t.read, t.seen)
          <5>1. /\ e.seen = t.seen + Len(t.entries) /\ t.seen \in Nat
                /\ t.entries = <<>> => e.from = t.read
                /\ t.entries # <<>> => e.from = t.entries[Len(t.entries)].to
            BY <2>5, <4>5, <4>7 DEF Behind
          <5> QED BY <2>5, <4>8, <5>1, LinkedGrows
        <4>10. more = Append(t.entries, e)
          BY <2>3, <3>2, <4>3
        <4>11. Told(more, deal)
          <5>1. e.event \in 1..Len(deal) /\ e.to = StageMap[deal[e.event]] /\ e.by = "deal"
            BY <2>7, <4>7
          <5>2. /\ DOMAIN more = 1..Len(t.entries) + 1 /\ more[Len(t.entries) + 1] = e
                /\ \A k \in 1..Len(t.entries) : more[k] = t.entries[k]
                /\ DOMAIN t.entries = 1..Len(t.entries) /\ Len(t.entries) \in Nat
            BY <2>5, <4>8, <4>10
          <5> QED BY <2>5, <5>1, <5>2 DEF Told
        <4> QED BY <2>5, <4>8, <4>9, <4>10, <4>11
      <3> QED BY <3>1, <3>2
    <2>9. PICK u : u = [t EXCEPT !.left = left, !.entries = more]
      OBVIOUS
    <2>10. u = [pc |-> "batch", batch |-> t.batch, left |-> left, read |-> t.read,
                seen |-> t.seen, entries |-> more]
      <3>1. PICK batch, rest, read, seen, entries :
                t = [pc |-> "batch", batch |-> batch, left |-> rest, read |-> read,
                     seen |-> seen, entries |-> entries]
        BY <2>5
      <3> QED BY <2>9, <3>1
    <2>11. CrmTxnOK(u, log, value, deal)
      BY <2>5, <2>7, <2>8, <2>10 DEF CrmTxnOK
    <2> QED BY <2>4, <2>6, <2>9, <2>11, CrmTxnKept DEF CrmInv
  <1>3. CASE Crm!CommitBatch(w)
    <2>1. PICK t : t = crmTxn[w]
      OBVIOUS
    <2>2. t.pc = "batch" /\ Crm!Commit(w, t.entries) /\ UNCHANGED <<deal, queue>>
      BY <1>3, <2>1 DEF Crm!CommitBatch
    <2>3. /\ Behind(t.read, t.seen, log, value)
          /\ t.entries \in Seq(Crm!Entry)
          /\ Linked(t.entries, t.read, t.seen)
          /\ Told(t.entries, deal)
      BY <2>1, <2>2 DEF CrmInv, CrmTxnOK, Crm!NoTxn
    <2> QED BY <2>2, <2>3, CrmCommit
  <1>4. CASE Crm!Rollback(w)
    <2>1. PICK t : t = crmTxn[w]
      OBVIOUS
    <2>2. /\ queue' \in IF t.pc = "batch" THEN {queue, queue \cup {t.batch}} ELSE {queue}
          /\ Crm!Step(w, Crm!NoTxn)
          /\ UNCHANGED <<log, value, deal>>
      BY <1>4, <2>1 DEF Crm!Rollback
    <2>3. t.pc = "batch" => Posted(t.batch, deal)
      BY <2>1 DEF CrmInv, CrmTxnOK, Crm!NoTxn
    <2>4. \A b \in queue' : Posted(b, deal)
      BY <2>2, <2>3 DEF CrmInv
    <2>5. CrmTxnOK(Crm!NoTxn, log, value, deal)
      BY DEF CrmTxnOK
    <2> QED BY <2>2, <2>4, <2>5, CrmTxnKept
  <1> QED BY <1>1, <1>2, <1>3, <1>4

LEMMA CrmInductive ==
    ASSUME Crm!HistoryAssumption
    PROVE  Crm!Spec => []CrmInv
  <1>1. CrmInv /\ [Crm!Next]_(Crm!vars) => CrmInv'
    <2> SUFFICES ASSUME CrmInv, [Crm!Next]_(Crm!vars)
                 PROVE  CrmInv'
      OBVIOUS
    <2>1. CASE Crm!Next
      BY <2>1, CrmWrites, CrmMoves, CrmPosts, CrmBatches DEF Crm!Next
    <2>2. CASE UNCHANGED Crm!vars
      <3>1. UNCHANGED <<value, log, deal, queue, crmTxn>>
        BY <2>2 DEF Crm!vars
      <3> QED BY <3>1 DEF CrmInv
    <2> QED BY <2>1, <2>2
  <1>2. Crm!Init => CrmInv
    BY CrmInit
  <1> QED BY <1>1, <1>2, PTL DEF Crm!Spec

\* The rows of a column's history are a chain that ends at its value, but for
\* what was read before another write; a value the chain does not end at is the
\* qualified stage, and the qualification task wrote it (api/routers/crm.py,
\* update_lead_stage; tasks/hubspot_tasks.py, _handle_deal_stage_change;
\* tasks/qualification_tasks.py, qualify_restaurant_task).
THEOREM HistoryChained ==
    ASSUME Crm!HistoryAssumption
    PROVE  Crm!Spec => []Crm!HistoryIsChain
  <1>1. CrmInv => Crm!HistoryIsChain
    <2> SUFFICES ASSUME CrmInv
                 PROVE  Crm!HistoryIsChain
      OBVIOUS
    <2>1. PICK n : n = Len(log)
      OBVIOUS
    <2>2. n \in Nat /\ DOMAIN log = 1..n /\ \A k \in 1..n : log[k] \in Crm!Entry
      BY <2>1 DEF CrmInv
    <2>3. \A k \in 1..n : ~Crm!Row(k) /\ log[k].by # "task" => Same(log, k)
      BY <2>2 DEF Crm!Row, Crm!Entry, Same
    <2>4. \A k : Crm!Apart(k) <=> Fresh(log, k)
      BY DEF Crm!Apart, Fresh
    <2>5. ASSUME NEW i \in 1..n, NEW m \in 1..n, i <= m, Crm!Unbroken(i, m),
                 \A k \in i + 1..m : ~Crm!Row(k)
          PROVE  log[m].to = log[i].to
      <3>1. \A k \in i + 1..m : k \in i..m /\ k \in 1..n
        BY <2>2
      <3>2. Quiet(log, i, m)
        BY <2>3, <2>4, <2>5, <3>1 DEF Quiet, Crm!Unbroken
      <3> QED BY <2>2, <2>5, <3>2 DEF CrmInv, Chain
    <2>6. ASSUME NEW i \in 1..n, NEW j \in i + 1..n, Crm!Unbroken(i, j),
                 \A k \in i + 1..j - 1 : ~Crm!Row(k)
          PROVE  log[j].from = log[i].to
      <3>1. PICK m : m = j - 1
        OBVIOUS
      <3>2. /\ m \in 1..n /\ i <= m /\ j \in 1..n /\ j > 1 /\ j \in i..j /\ m \in i..j
            /\ \A k \in i..m : k \in i..j
        BY <2>2, <3>1
      <3>3. Crm!Unbroken(i, m) /\ Fresh(log, j) /\ Fresh(log, j - 1)
        BY <2>4, <2>6, <3>1, <3>2 DEF Crm!Unbroken
      <3>4. log[m].to = log[i].to
        BY <2>5, <2>6, <3>1, <3>2, <3>3
      <3> QED BY <2>2, <3>1, <3>2, <3>3, <3>4 DEF CrmInv, Chain
    <2>7. ASSUME NEW i \in 1..n, Crm!Unbroken(i, n), \A k \in i + 1..n : ~Crm!Row(k)
          PROVE  value = log[i].to
      <3>1. n \in 1..n /\ i <= n /\ n \in i..n /\ log # <<>>
        BY <2>2
      <3>2. Fresh(log, n)
        BY <2>4, <2>7, <3>1 DEF Crm!Unbroken
      <3>3. log[n].to = log[i].to
        BY <2>5, <2>7, <3>1
      <3> QED BY <2>1, <3>1, <3>2, <3>3 DEF CrmInv, Chain
    <2>8. ASSUME NEW i \in 1..n, Crm!Row(i), \A k \in i + 1..n : ~Crm!Row(k),
                 \A k \in i..n : Crm!Apart(k)
          PROVE  value = log[i].to
                 \/ (value = Qualified /\ \E k \in i + 1..n : log[k].by = "task")
      <3>1. CASE \A k \in i + 1..n : log[k].by # "task"
        <4>1. log[i].by # "task"
          BY <2>8 DEF Crm!Row
        <4>2. \A k \in i..n : log[k].by # "task"
          BY <2>2, <3>1, <4>1
        <4> QED BY <2>7, <2>8, <4>2 DEF Crm!Unbroken
      <3>2. CASE \E k \in i + 1..n : log[k].by = "task"
        <4>1. PICK T : T = {m \in Nat : n - m \in i + 1..n /\ log[n - m].by = "task"}
          OBVIOUS
        <4>2. T \in SUBSET Nat /\ T # {}
          <5>1. PICK k \in i + 1..n : log[k].by = "task"
            BY <3>2
          <5>2. n - k \in Nat /\ n - (n - k) = k
            BY <2>2
          <5> QED BY <4>1, <5>1, <5>2
        <4>3. PICK m \in T : \A x \in T : m <= x
          BY <4>2, LeastExists
        <4>4. PICK k : k = n - m
          OBVIOUS
        <4>5. k \in i + 1..n /\ k \in 1..n /\ log[k].by = "task" /\ n \in 1..n /\ k <= n
          BY <2>2, <4>1, <4>3, <4>4
        <4>6. ASSUME NEW x \in k + 1..n
              PROVE  Same(log, x)
          <5>1. x \in i + 1..n /\ x \in 1..n /\ n - x \in Nat /\ n - (n - x) = x /\ n - x < m
            BY <2>2, <4>3, <4>4, <4>5, <4>1
          <5>2. log[x].by # "task"
            BY <4>1, <4>3, <5>1
          <5> QED BY <2>3, <2>8, <5>1, <5>2
        <4>7. \A x \in k..n : Fresh(log, x)
          BY <2>2, <2>4, <2>8, <4>5
        <4>8. log[n].to = log[k].to
          BY <2>2, <4>5, <4>6, <4>7 DEF Quiet, CrmInv, Chain
        <4>9. log[k].to = Qualified
          BY <2>2, <4>5 DEF CrmInv, Told
        <4>10. Fresh(log, n) /\ log # <<>>
          BY <2>2, <4>5, <4>7
        <4>11. value = log[n].to
          BY <2>1, <4>10 DEF CrmInv, Chain
        <4> QED BY <3>2, <4>8, <4>9, <4>11
      <3> QED BY <3>1, <3>2
    <2> QED BY <2>1, <2>2, <2>6, <2>8 DEF Crm!HistoryIsChain
  <1> QED BY <1>1, CrmInductive, PTL

\* A lead follows its deal (tasks/hubspot_tasks.py, process_hubspot_webhook).
THEOREM DealFollowed ==
    ASSUME Crm!HistoryAssumption
    PROVE  Crm!Spec => []Crm!LeadFollowsDeal
  <1>1. CrmInv => Crm!LeadFollowsDeal
    <2> SUFFICES ASSUME CrmInv, NEW i \in DOMAIN log, log[i].by = "deal",
                        log[i].event = Len(deal), Crm!Apart(i),
                        \A j \in i + 1..Len(log) : log[j].by = "deal" /\ ~(log[j].event < Len(deal))
                 PROVE  value = log[i].to
      BY DEF Crm!LeadFollowsDeal
    <2>1. /\ Len(log) \in Nat /\ DOMAIN log = 1..Len(log) /\ Len(deal) \in Nat
          /\ Chain(log, value) /\ Told(log, deal)
      BY DEF CrmInv
    <2>2. \A j \in i..Len(log) : j \in DOMAIN log /\ (j = i \/ j \in i + 1..Len(log))
      BY <2>1
    <2>3. \A j \in i..Len(log) : log[j].by = "deal" /\ log[j].event = Len(deal)
      <3> SUFFICES ASSUME NEW j \in i + 1..Len(log), j \in DOMAIN log
                   PROVE  log[j].by = "deal" /\ log[j].event = Len(deal)
        BY <2>2
      <3>1. log[j].event \in 1..Len(deal)
        BY <2>1 DEF Told
      <3> QED BY <2>1, <3>1
    <2>4. Repeated(log, i) /\ Fresh(log, i)
      BY <2>3 DEF Repeated, Fresh, Crm!Apart
    <2> QED BY <2>1, <2>4 DEF Chain
  <1> QED BY <1>1, CrmInductive, PTL

-----------------------------------------------------------------------------
(* The window of the rate limiter.                                         *)

\* The stamps of the first n requests that reached Redis, later than after.
Stamps(rows, n, after) == {rows[j].at : j \in {k \in 1..n : ~rows[k].down /\ rows[k].at > after}}

Tells(rows, i) ==
    ~rows[i].down /\ rows[i].ran = rows[i].at =>
        (rows[i].allowed <=> Limiter!Cardinality(Stamps(rows, i, rows[i].at - Window)) <= rows[i].limit)

\* Redis holds stamps of requests, all of those that a window may still reach
\* whose request runs now.
LimiterInv ==
    /\ clock \in Nat /\ touched \in Nat /\ touched <= clock
    /\ calls \in Seq(Limiter!Request)
    /\ \A k \in 1..Len(calls) : calls[k].at <= touched \/ calls[k].down
    /\ \A s \in bucket : \E k \in 1..Len(calls) : ~calls[k].down /\ calls[k].at = s
    /\ \A k \in 1..Len(calls) :
          ~calls[k].down => calls[k].at \in bucket \/ calls[k].at <= clock - Window
    /\ \A i \in 1..Len(calls) : Tells(calls, i)
    /\ DOMAIN limiterTxn = Workers
    /\ \A w \in Workers :
          \/ limiterTxn[w] = Limiter!NoTxn
          \/ \E at \in Nat, limit \in {Limit, Default} :
                at <= clock /\ limiterTxn[w] = [pc |-> "run", at |-> at, limit |-> limit]

LEMMA CallTypes ==
    ASSUME LimiterInv
    PROVE  /\ Len(calls) \in Nat /\ DOMAIN calls = 1..Len(calls)
           /\ \A k \in 1..Len(calls) :
                 calls[k] \in Limiter!Request /\ calls[k].at \in Nat
  <1>1. /\ Len(calls) \in Nat /\ DOMAIN calls = 1..Len(calls)
        /\ \A k \in 1..Len(calls) : calls[k] \in Limiter!Request
    BY LenProperties, ElementOfSeq DEF LimiterInv
  <1>2. \A r \in Limiter!Request : r.at \in Nat
    BY DEF Limiter!Request
  <1> QED BY <1>1, <1>2

LEMMA LimiterInit == Limiter!Init => LimiterInv
  BY DEF Limiter!Init, LimiterInv

\* A request is logged behind the others, and what was told of them stays true.
LEMMA CallLogged ==
    ASSUME LimiterInv, NEW r \in Limiter!Request, calls' = Append(calls, r),
           NEW n, n = Len(calls),
           ~r.down /\ r.ran = r.at =>
              (r.allowed <=> Limiter!Cardinality(Stamps(calls', n + 1, r.at - Window)) <= r.limit)
    PROVE  /\ calls' \in Seq(Limiter!Request) /\ Len(calls') = n + 1 /\ n \in Nat
           /\ \A k \in 1..n : calls'[k] = calls[k]
           /\ calls'[n + 1] = r
           /\ \A i \in 1..n + 1 : Tells(calls', i)
  <1>1. /\ calls' \in Seq(Limiter!Request) /\ Len(calls') = n + 1 /\ n \in Nat
        /\ \A k \in 1..n : calls'[k] = calls[k]
        /\ calls'[n + 1] = r
    BY DEF LimiterInv
  <1>2. ASSUME NEW i \in 1..n
        PROVE  Tells(calls', i)
    <2>1. calls'[i] = calls[i] /\ \A k \in 1..i : calls'[k] = calls[k]
      BY <1>1
    <2>2. Stamps(calls', i, calls[i].at - Window) = Stamps(calls, i, calls[i].at - Window)
      BY <2>1 DEF Stamps
    <2>3. Tells(calls, i)
      BY DEF LimiterInv
    <2> QED BY <2>1, <2>2, <2>3 DEF Tells
  <1>3. Tells(calls', n + 1)
    BY <1>1 DEF Tells
  <1>4. \A i \in 1..n + 1 : i \in 1..n \/ i = n + 1
    BY <1>1
  <1> QED BY <1>1, <1>2, <1>3, <1>4

LEMMA LimiterRuns ==
    ASSUME Limiter!LimiterAssumption, LimiterInv, NEW w \in Workers, Limiter!Run(w)
    PROVE  LimiterInv'
  <1>1. PICK at \in Nat, limit \in {Limit, Default} :
            at <= clock /\ limiterTxn[w] = [pc |-> "run", at |-> at, limit |-> limit]
    BY DEF Limiter!Run, Limiter!NoTxn, LimiterInv
  <1>2. PICK n : n = Len(calls)
    OBVIOUS
  <1>3. PICK count : count = Limiter!Kept(Limiter!Alive, at) \cup {at}
    OBVIOUS
  <1>4. PICK r : r = [at |-> at, ran |-> clock, limit |-> limit,
                      allowed |-> Limiter!Cardinality(count) <= limit, down |-> FALSE]
    OBVIOUS
  <1>5. /\ bucket' = count /\ touched' = clock /\ clock' = clock
        /\ calls' = Append(calls, r)
        /\ limiterTxn' = [limiterTxn EXCEPT ![w] = Limiter!NoTxn]
    <2>1. limiterTxn[w].at = at /\ limiterTxn[w].limit = limit
      BY <1>1
    <2> QED BY <1>3, <1>4, <2>1, Zenon DEF Limiter!Run
  <1>6. (Limiter!Cardinality(count) <= limit) \in BOOLEAN
    OBVIOUS
  <1>7. r \in Limiter!Request
    <2>1. at \in Nat /\ clock \in Nat /\ limit \in {Limit, Default}
      BY DEF LimiterInv
    <2> QED BY <1>4, <1>6, <2>1, Zenon DEF Limiter!Request
  <1>8. /\ n \in Nat /\ clock \in Nat /\ touched \in Nat /\ Window \in Nat
        /\ touched <= clock /\ \A k \in 1..n : calls[k].at \in Nat
    BY <1>2, CallTypes DEF LimiterInv, Limiter!LimiterAssumption
  <1>9. /\ Len(Append(calls, r)) = n + 1 /\ Append(calls, r)[n + 1] = r
        /\ \A k \in 1..n : Append(calls, r)[k] = calls[k]
    BY <1>2, <1>7 DEF LimiterInv
  <1>10. ASSUME at = clock
         PROVE  count = Stamps(calls', n + 1, at - Window)
    <2>1. ASSUME NEW s \in count
          PROVE  s \in Stamps(calls', n + 1, at - Window)
      <3>1. CASE s = at
        <4>1. n + 1 \in 1..n + 1 /\ ~r.down /\ r.at = at /\ at > at - Window
          BY <1>1, <1>4, <1>8 DEF Limiter!LimiterAssumption
        <4> QED BY <1>5, <1>9, <3>1, <4>1 DEF Stamps
      <3>2. CASE s # at
        <4>1. s \in bucket /\ s > at - Window
          BY <1>3, <2>1, <3>2 DEF Limiter!Kept, Limiter!Alive
        <4>2. PICK k \in 1..n : ~calls[k].down /\ calls[k].at = s
          BY <1>2, <4>1 DEF LimiterInv
        <4>3. k \in 1..n + 1
          BY <1>8
        <4> QED BY <1>5, <1>9, <4>1, <4>2, <4>3 DEF Stamps
      <3> QED BY <3>1, <3>2
    <2>2. ASSUME NEW s \in Stamps(calls', n + 1, at - Window)
          PROVE  s \in count
      <3>1. PICK k \in 1..n + 1 : /\ ~calls'[k].down /\ calls'[k].at > at - Window
                                  /\ s = calls'[k].at
        BY <2>2 DEF Stamps
      <3>2. CASE k = n + 1
        BY <1>3, <1>4, <1>5, <1>9, <3>1, <3>2
      <3>3. CASE k \in 1..n
        <4>1. calls[k].at = s /\ ~calls[k].down /\ s > clock - Window
          BY <1>5, <1>9, <1>10, <3>1, <3>3
        <4>2. s \in bucket /\ s <= touched /\ s \in Nat
          BY <1>2, <1>8, <3>3, <4>1 DEF LimiterInv
        <4>3. Limiter!Alive = bucket
          BY <1>8, <4>1, <4>2 DEF Limiter!Alive
        <4> QED BY <1>3, <1>10, <4>1, <4>2, <4>3 DEF Limiter!Kept
      <3> QED BY <1>8, <3>1, <3>2, <3>3
    <2> QED BY <2>1, <2>2
  <1>11. /\ calls' \in Seq(Limiter!Request) /\ Len(calls') = n + 1
         /\ \A k \in 1..n : calls'[k] = calls[k]
         /\ calls'[n + 1] = r
         /\ \A i \in 1..n + 1 : Tells(calls', i)
    <2>1. ~r.down /\ r.ran = r.at =>
              (r.allowed <=> Limiter!Cardinality(Stamps(calls', n + 1, r.at - Window)) <= r.limit)
      BY <1>4, <1>10
    <2> QED BY <1>2, <1>5, <1>7, <2>1, CallLogged
  <1>12. \A k \in 1..n + 1 : k \in 1..n \/ k = n + 1
    BY <1>8
  <1>13. \A k \in 1..n + 1 : calls'[k].at <= touched' \/ calls'[k].down
    <2> SUFFICES ASSUME NEW k \in 1..n, ~calls[k].down
                 PROVE  calls[k].at <= clock
      BY <1>1, <1>4, <1>5, <1>11, <1>12
    <2> QED BY <1>2, <1>8 DEF LimiterInv
  <1>14. \A s \in bucket' : \E k \in 1..n + 1 : ~calls'[k].down /\ calls'[k].at = s
    <2> SUFFICES ASSUME NEW s \in count
                 PROVE  \E k \in 1..n + 1 : ~calls'[k].down /\ calls'[k].at = s
      BY <1>5
    <2>1. CASE s = at
      BY <1>4, <1>8, <1>11, <2>1
    <2>2. CASE s \in bucket
      <3>1. PICK k \in 1..n : ~calls[k].down /\ calls[k].at = s
        BY <1>2, <2>2 DEF LimiterInv
      <3> QED BY <1>8, <1>11, <3>1
    <2> QED BY <1>3, <2>1, <2>2 DEF Limiter!Kept, Limiter!Alive
  <1>15. ASSUME NEW k \in 1..n + 1, ~calls'[k].down
         PROVE  calls'[k].at \in bucket' \/ calls'[k].at <= clock' - Window
    <2>1. CASE k = n + 1
      BY <1>3, <1>4, <1>5, <1>11, <2>1
    <2>2. CASE k \in 1..n
      <3>1. /\ calls'[k] = calls[k] /\ calls[k].at \in Nat /\ calls[k].at <= touched
            /\ calls[k].at \in bucket \/ calls[k].at <= clock - Window
        BY <1>2, <1>8, <1>11, <1>15, <2>2 DEF LimiterInv
      <3>2. CASE Limiter!Alive = bucket
        BY <1>1, <1>3, <1>5, <1>8, <3>1, <3>2 DEF Limiter!Kept
      <3>3. CASE clock > touched + Window
        BY <1>5, <1>8, <3>1, <3>3
      <3> QED BY <3>2, <3>3 DEF Limiter!Alive
    <2> QED BY <1>12, <2>1, <2>2
  <1>16. \A v \in Workers : limiterTxn'[v] \in {limiterTxn[v], Limiter!NoTxn}
    BY <1>5 DEF LimiterInv
  <1> QED BY <1>5, <1>11, <1>13, <1>14, <1>15, <1>16 DEF LimiterInv

LEMMA LimiterRunsDown ==
    ASSUME Limiter!LimiterAssumption, LimiterInv, NEW w \in Workers, Limiter!RunDown(w)
    PROVE  LimiterInv'
  <1>1. PICK at \in Nat, limit \in {Limit, Default} :
            at <= clock /\ limiterTxn[w] = [pc |-> "run", at |-> at, limit |-> limit]
    BY DEF Limiter!RunDown, Limiter!NoTxn, LimiterInv
  <1>2. PICK n : n = Len(calls)
    OBVIOUS
  <1>3. PICK r : r = [at |-> at, ran |-> clock, limit |-> limit, allowed |-> TRUE, down |-> TRUE]
    OBVIOUS
  <1>4. /\ UNCHANGED <<clock, bucket, touched>>
        /\ calls' = Append(calls, r)
        /\ limiterTxn' = [limiterTxn EXCEPT ![w] = Limiter!NoTxn]
    BY <1>1, <1>3 DEF Limiter!RunDown
  <1>5. r \in Limiter!Request
    BY <1>1, <1>3 DEF Limiter!Request, LimiterInv
  <1>6. /\ calls' \in Seq(Limiter!Request) /\ Len(calls') = n + 1 /\ n \in Nat
        /\ \A k \in 1..n : calls'[k] = calls[k]
        /\ calls'[n + 1] = r
        /\ \A i \in 1..n + 1 : Tells(calls', i)
    <2>1. ~(~r.down)
      BY <1>3
    <2> QED BY <1>2, <1>4, <1>5, <2>1, CallLogged
  <1>7. \A k \in 1..n + 1 : k \in 1..n \/ k = n + 1
    BY <1>6
  <1>8. \A s \in bucket' : \E k \in 1..n + 1 : ~calls'[k].down /\ calls'[k].at = s
    <2> SUFFICES ASSUME NEW s \in bucket
                 PROVE  \E k \in 1..n + 1 : ~calls'[k].down /\ calls'[k].at = s
      BY <1>4
    <2>1. PICK k \in 1..n : ~calls[k].down /\ calls[k].at = s
      BY <1>2 DEF LimiterInv
    <2> QED BY <1>6, <2>1
  <1>9. \A k \in 1..n + 1 : calls'[k].at <= touched' \/ calls'[k].down
    BY <1>2, <1>3, <1>4, <1>6, <1>7 DEF LimiterInv
  <1>10. \A k \in 1..n + 1 :
             ~calls'[k].down => calls'[k].at \in bucket' \/ calls'[k].at <= clock' - Window
    BY <1>2, <1>3, <1>4, <1>6, <1>7 DEF LimiterInv
  <1>11. \A v \in Workers : limiterTxn'[v] \in {limiterTxn[v], Limiter!NoTxn}
    BY <1>4 DEF LimiterInv
  <1> QED BY <1>4, <1>6, <1>8, <1>9, <1>10, <1>11 DEF LimiterInv

LEMMA LimiterHolds ==
    ASSUME Limiter!LimiterAssumption
    PROVE  Limiter!Spec => []LimiterInv
  <1>1. LimiterInv /\ [Limiter!Next]_(Limiter!vars) => LimiterInv'
    <2> SUFFICES ASSUME LimiterInv, [Limiter!Next]_(Limiter!vars)
                 PROVE  LimiterInv'
      OBVIOUS
    <2>1. ASSUME UNCHANGED <<bucket, touched, calls>>, clock' \in Nat, clock' >= clock,
                 DOMAIN limiterTxn' = Workers,
                 \A w \in Workers :
                    \/ limiterTxn'[w] = limiterTxn[w]
                    \/ \E at \in Nat, limit \in {Limit, Default} :
                          /\ at <= clock'
                          /\ limiterTxn'[w] = [pc |-> "run", at |-> at, limit |-> limit]
          PROVE  LimiterInv'
      <3>1. \A i \in 1..Len(calls) : Tells(calls', i)
        BY <2>1 DEF LimiterInv
      <3>2. touched <= clock' /\ touched \in Nat
        BY <2>1 DEF LimiterInv
      <3>3. ASSUME NEW k \in 1..Len(calls), ~calls[k].down
            PROVE  calls[k].at \in bucket \/ calls[k].at <= clock' - Window
        <4>1. calls[k].at \in Nat /\ clock \in Nat /\ Window \in Nat
          BY CallTypes DEF LimiterInv, Limiter!LimiterAssumption
        <4>2. calls[k].at \in bucket \/ calls[k].at <= clock - Window
          BY <3>3 DEF LimiterInv
        <4> QED BY <2>1, <4>1, <4>2
      <3>4. ASSUME NEW w \in Workers
            PROVE  \/ limiterTxn'[w] = Limiter!NoTxn
                   \/ \E at \in Nat, limit \in {Limit, Default} :
                         /\ at <= clock'
                         /\ limiterTxn'[w] = [pc |-> "run", at |-> at, limit |-> limit]
        BY <2>1 DEF LimiterInv
      <3> QED BY <2>1, <3>1, <3>2, <3>3, <3>4 DEF LimiterInv
    <2>2. CASE Limiter!Tick
      BY <2>1, <2>2 DEF Limiter!Tick, LimiterInv
    <2>3. ASSUME NEW w \in Workers, Limiter!Begin(w)
          PROVE  LimiterInv'
      BY <2>1, <2>3 DEF Limiter!Begin, LimiterInv
    <2>4. CASE UNCHANGED Limiter!vars
      BY <2>1, <2>4 DEF Limiter!vars, LimiterInv
    <2> QED BY <2>2, <2>3, <2>4, LimiterRuns, LimiterRunsDown DEF Limiter!Next
  <1> QED BY <1>1, LimiterInit, PTL DEF Limiter!Spec

\* The window tells who gets in, for any limits, window and number of requests
\* (utils/rate_limiter.py, check_rate_limit).
THEOREM WindowTells ==
    ASSUME Limiter!LimiterAssumption
    PROVE  Limiter!Spec => []Limiter!WindowTellsWho
  <1>1. LimiterInv => Limiter!WindowTellsWho
    <2> SUFFICES ASSUME LimiterInv, NEW i \in DOMAIN calls
                 PROVE  ~calls[i].down /\ calls[i].ran = calls[i].at =>
                          (calls[i].allowed <=>
                              Limiter!Cardinality(Limiter!InWindow(i)) <= calls[i].limit)
      BY DEF Limiter!WindowTellsWho
    <2>1. Limiter!InWindow(i) = Stamps(calls, i, calls[i].at - Window)
      BY DEF Limiter!InWindow, Stamps
    <2>2. Tells(calls, i)
      BY DEF LimiterInv
    <2> QED BY <2>1, <2>2 DEF Tells
  <1> QED BY <1>1, LimiterHolds, PTL

-----------------------------------------------------------------------------
(* The health check of campaigns.                                          *)

\* A check has found something, and the campaign active; so it is still as
\* long as nobody has written its status.
Checks(t, rows) ==
    \/ t = Health!NoTxn
    \/ \E entry, types :
          /\ entry \in Health!Write
          /\ t = [pc |-> "write", types |-> types, write |-> entry]
          /\ entry.seen <= Len(rows)
          /\ entry.by = "health" <=> types # {}
          /\ entry.by = "health" /\ entry.seen = Len(rows) => rows[Len(rows)].to = "active"

PauseTold(rows, logs, i) ==
    /\ rows[i].by = "health" => rows[i].seen < i - 1 \/ rows[i - 1].to = "active"
    /\ rows[i].by = "health" <=> \E a \in logs : a[1] = i

HealthInv ==
    /\ writes \in Seq(Health!Write) /\ Len(writes) > 0
    /\ writes[1].by = "user"
    /\ \A a \in anomalies : a[1] \in 1..Len(writes)
    /\ \A i \in 1..Len(writes) : PauseTold(writes, anomalies, i)
    /\ DOMAIN healthTxn = Workers
    /\ \A w \in Workers : Checks(healthTxn[w], writes)

LEMMA HealthInit == Health!Init => HealthInv
  <1> SUFFICES ASSUME Health!Init PROVE HealthInv
    OBVIOUS
  <1>1. PICK s \in Health!Statuses : writes = <<[by |-> "user", to |-> s, seen |-> 0]>>
    BY DEF Health!Init
  <1>2. [by |-> "user", to |-> s, seen |-> 0] \in Health!Write
    BY DEF Health!Write
  <1>3. /\ writes \in Seq(Health!Write) /\ Len(writes) = 1
        /\ writes[1] = [by |-> "user", to |-> s, seen |-> 0]
    BY <1>1, <1>2
  <1>4. anomalies = {} /\ DOMAIN healthTxn = Workers /\ \A w \in Workers : healthTxn[w] = Health!NoTxn
    BY DEF Health!Init
  <1>5. \A i \in 1..Len(writes) : PauseTold(writes, anomalies, i)
    BY <1>3, <1>4 DEF PauseTold
  <1> QED BY <1>3, <1>4, <1>5 DEF HealthInv, Checks

LEMMA HealthCommit ==
    ASSUME HealthInv, NEW w \in Workers, Health!CommitWrite(w)
    PROVE  HealthInv'
  <1>1. PICK n : n = Len(writes)
    OBVIOUS
  <1>2. PICK entry, types :
            /\ entry \in Health!Write
            /\ healthTxn[w] = [pc |-> "write", types |-> types, write |-> entry]
            /\ entry.seen <= n
            /\ entry.by = "health" <=> types # {}
            /\ entry.by = "health" /\ entry.seen = n => writes[n].to = "active"
    BY <1>1 DEF HealthInv, Checks, Health!CommitWrite, Health!NoTxn
  <1>3. /\ writes' = Append(writes, entry)
        /\ anomalies' = anomalies \cup ({n + 1} \X types)
        /\ healthTxn' = [healthTxn EXCEPT ![w] = Health!NoTxn]
    <2>1. healthTxn[w].write = entry /\ healthTxn[w].types = types
      BY <1>2
    <2> QED BY <1>1, <2>1, Zenon DEF Health!CommitWrite, Health!Step
  <1>4. /\ n \in Nat /\ n > 0 /\ writes' \in Seq(Health!Write) /\ Len(writes') = n + 1
        /\ writes'[n + 1] = entry /\ \A i \in 1..n : writes'[i] = writes[i]
        /\ entry.seen \in Nat
    <2>1. entry.seen \in Nat
      BY <1>2 DEF Health!Write
    <2>2. writes \in Seq(Health!Write) /\ n \in Nat /\ n > 0
      BY <1>1 DEF HealthInv
    <2>3. /\ Append(writes, entry) \in Seq(Health!Write) /\ Len(Append(writes, entry)) = n + 1
          /\ Append(writes, entry)[n + 1] = entry
          /\ \A i \in 1..n : Append(writes, entry)[i] = writes[i]
      BY <1>1, <1>2, <2>2, AppendProperties
    <2> QED BY <1>3, <2>1, <2>2, <2>3
  <1>5. \A a \in anomalies' : a \in anomalies \/ (a[1] = n + 1 /\ types # {})
    BY <1>3
  <1>6. \A a \in anomalies' : a[1] \in 1..n + 1
    BY <1>1, <1>4, <1>5 DEF HealthInv
  <1>7. ASSUME NEW i \in 1..n
        PROVE  PauseTold(writes', anomalies', i)
    <2>1. PauseTold(writes, anomalies, i) /\ writes'[i] = writes[i]
      BY <1>1, <1>4 DEF HealthInv
    <2>2. (\E a \in anomalies' : a[1] = i) <=> \E a \in anomalies : a[1] = i
      <3>1. i # n + 1
        BY <1>4
      <3> QED BY <1>3, <1>5, <3>1
    <2>3. i > 1 => writes'[i - 1] = writes[i - 1]
      <3>1. i > 1 => i - 1 \in 1..n
        BY <1>4
      <3> QED BY <1>4, <3>1
    <2>4. writes[1].by # "health"
      BY DEF HealthInv
    <2>5. writes[i].by = "health" => writes[i].seen < i - 1 \/ writes[i - 1].to = "active"
      BY <2>1 DEF PauseTold
    <2>6. writes'[i].by = "health" <=> \E a \in anomalies' : a[1] = i
      BY <2>1, <2>2 DEF PauseTold
    <2>7. writes'[i].by = "health" => writes'[i].seen < i - 1 \/ writes'[i - 1].to = "active"
      <3>1. CASE i = 1
        BY <2>1, <2>4, <3>1, Zenon
      <3>2. CASE i > 1
        BY <2>1, <2>3, <2>5, <3>2, Zenon
      <3>3. i = 1 \/ i > 1
        BY <1>4
      <3> QED BY <3>1, <3>2, <3>3
    <2> QED BY <2>6, <2>7, Zenon DEF PauseTold
  <1>8. PauseTold(writes', anomalies', n + 1)
    <2>1. entry.by = "health" => entry.seen < (n + 1) - 1 \/ writes'[(n + 1) - 1].to = "active"
      BY <1>2, <1>4
    <2>2. ASSUME types # {}
          PROVE  \E a \in anomalies' : a[1] = n + 1
      <3>1. PICK type \in types : TRUE
        BY <2>2
      <3>2. <<n + 1, type>> \in anomalies'
        BY <1>3
      <3> QED BY <3>2
    <2>3. types = {} => ~\E a \in anomalies' : a[1] = n + 1
      BY <1>1, <1>4, <1>5 DEF HealthInv
    <2> QED BY <1>2, <1>4, <2>1, <2>2, <2>3 DEF PauseTold
  <1>9. \A i \in 1..n + 1 : i \in 1..n \/ i = n + 1
    BY <1>4
  <1>10. ASSUME NEW v \in Workers
         PROVE  Checks(healthTxn'[v], writes')
    <2>1. CASE v = w
      BY <1>3, <2>1 DEF HealthInv, Checks
    <2>2. CASE v # w
      <3>1. healthTxn'[v] = healthTxn[v] /\ Checks(healthTxn[v], writes)
        BY <1>3, <2>2 DEF HealthInv
      <3>2. \A e \in Health!Write : e.seen <= n => e.seen <= n + 1 /\ e.seen # n + 1
        BY <1>4 DEF Health!Write
      <3> QED BY <1>1, <1>4, <3>1, <3>2 DEF Checks
    <2> QED BY <2>1, <2>2
  <1>11. \A i \in 1..Len(writes') : PauseTold(writes', anomalies', i)
    BY <1>4, <1>7, <1>8, <1>9
  <1>12. Len(writes') > 0 /\ writes'[1].by = "user" /\ \A a \in anomalies' : a[1] \in 1..Len(writes')
    BY <1>4, <1>6 DEF HealthInv
  <1>13. DOMAIN healthTxn' = Workers
    BY <1>3 DEF HealthInv
  <1> QED BY <1>4, <1>10, <1>11, <1>12, <1>13, Zenon DEF HealthInv

LEMMA HealthHolds == Health!Spec => []HealthInv
  <1>1. HealthInv /\ [Health!Next]_(Health!vars) => HealthInv'
    <2> SUFFICES ASSUME HealthInv, [Health!Next]_(Health!vars)
                 PROVE  HealthInv'
      OBVIOUS
    <2>1. ASSUME NEW w \in Workers, NEW t, Checks(t, writes), Health!Step(w, t),
                 UNCHANGED <<writes, anomalies>>
          PROVE  HealthInv'
      BY <2>1 DEF HealthInv, Health!Step
    <2>2. Len(writes) \in Nat /\ writes[Len(writes)] \in Health!Write
      BY DEF HealthInv
    <2>3. ASSUME NEW w \in Workers, Health!BeginHealth(w)
          PROVE  HealthInv'
      <3>1. PICK m \in Measured :
                /\ Health!Anomalies(m) # {}
                /\ Health!Step(w, [pc |-> "write", types |-> Health!Anomalies(m),
                                   write |-> [by |-> "health", to |-> "paused",
                                              seen |-> Len(writes)]])
        BY <2>3 DEF Health!BeginHealth
      <3>2. PICK types : types = Health!Anomalies(m)
        OBVIOUS
      <3>3. PICK entry : entry = [by |-> "health", to |-> "paused", seen |-> Len(writes)]
        OBVIOUS
      <3>4. entry \in Health!Write
        BY <2>2, <3>3 DEF Health!Write, Health!Statuses
      <3>5. writes[Len(writes)].to = "active"
        BY <2>3 DEF Health!BeginHealth, Health!Checked, Health!Status
      <3>6. /\ entry.seen <= Len(writes) /\ types # {} /\ entry.by = "health"
        BY <2>2, <3>1, <3>2, <3>3
      <3>7. PICK t : t = [pc |-> "write", types |-> types, write |-> entry]
        OBVIOUS
      <3>8. Checks(t, writes)
        BY <3>4, <3>5, <3>6, <3>7, Zenon DEF Checks
      <3> QED BY <2>1, <2>3, <3>1, <3>2, <3>3, <3>7, <3>8, Zenon DEF Health!BeginHealth
    <2>4. ASSUME NEW w \in Workers, Health!BeginSetStatus(w)
          PROVE  HealthInv'
      <3>1. PICK to \in Health!Statuses :
                Health!Step(w, [pc |-> "write", types |-> {},
                                write |-> [by |-> "user", to |-> to, seen |-> Len(writes)]])
        BY <2>4 DEF Health!BeginSetStatus
      <3>2. PICK entry : entry = [by |-> "user", to |-> to, seen |-> Len(writes)]
        OBVIOUS
      <3>3. entry \in Health!Write
        BY <2>2, <3>2 DEF Health!Write
      <3>4. entry.seen <= Len(writes) /\ entry.by # "health"
        BY <2>2, <3>2
      <3>5. PICK types : types = {}
        OBVIOUS
      <3>6. PICK t : t = [pc |-> "write", types |-> types, write |-> entry]
        OBVIOUS
      <3>7. Checks(t, writes)
        BY <3>3, <3>4, <3>5, <3>6, Zenon DEF Checks
      <3> QED BY <2>1, <2>4, <3>1, <3>2, <3>5, <3>6, <3>7, Zenon DEF Health!BeginSetStatus
    <2>5. ASSUME NEW w \in Workers, Health!Rollback(w)
          PROVE  HealthInv'
      BY <2>1, <2>5 DEF Health!Rollback, Checks
    <2>6. CASE UNCHANGED Health!vars
      BY <2>6 DEF Health!vars, HealthInv
    <2> QED BY <2>3, <2>4, <2>5, <2>6, HealthCommit DEF Health!Next
  <1> QED BY <1>1, HealthInit, PTL DEF Health!Spec

\* The check pauses active campaigns only, unless somebody else was faster, and
\* every pause of it has its anomaly (services/anomaly_detection.py,
\* check_and_pause_if_needed).
THEOREM PausesTold == Health!Spec => []Health!PausesExplained
  <1>1. HealthInv => Health!PausesExplained
    BY DEF HealthInv, Health!PausesExplained, PauseTold
  <1> QED BY <1>1, HealthHolds, PTL

-----------------------------------------------------------------------------
(* The experiments.  Assignments and outcomes are never taken back, so that *)
(* a sample that was large enough when it was counted remains so.           *)

LEMMA TestsCardinality ==
    /\ \A S : Tests!Cardinality(S) = Cardinality(S)
    /\ \A S : Tests!IsFiniteSet(S) <=> IsFiniteSet(S)
  BY DEF Tests!Cardinality, Cardinality, Tests!IsFiniteSet, IsFiniteSet

\* Two variants have their sample, v among them.
Sampled(rows, told, v) ==
    LET seen(u) == Cardinality({l \in rows : VariantOf[l] = u /\ told[l] # None})
    IN  /\ seen(v) >= SampleSize
        /\ \E u \in Variants \ {v} : seen(u) >= SampleSize

Judges(t, rows, told) ==
    /\ t.pc = "assign" => t.lead # None
    /\ t.pc = "record" => t.value \in {0, 1}
    /\ t.pc = "declare" => t.winner # None /\ Sampled(rows, told, t.winner)

TestInv ==
    /\ assigned \subseteq Leads
    /\ DOMAIN outcome = Leads
    /\ winner # None => Sampled(assigned, outcome, winner)
    /\ DOMAIN testTxn = Workers
    /\ \A w \in Workers : Judges(testTxn[w], assigned, outcome) /\ testTxn[w].lead \in Leads \cup {None}

LEMMA SampledStays ==
    ASSUME NEW rows, NEW more, NEW told, NEW later, NEW v,
           IsFiniteSet(more), rows \subseteq more,
           \A l \in rows : told[l] # None => later[l] # None,
           Sampled(rows, told, v)
    PROVE  Sampled(more, later, v)
  <1>1. ASSUME NEW u
        PROVE  /\ Cardinality({l \in rows : VariantOf[l] = u /\ told[l] # None}) \in Nat
               /\ Cardinality({l \in more : VariantOf[l] = u /\ later[l] # None}) \in Nat
               /\ Cardinality({l \in rows : VariantOf[l] = u /\ told[l] # None})
                     <= Cardinality({l \in more : VariantOf[l] = u /\ later[l] # None})
    <2>1. PICK S : S = {l \in rows : VariantOf[l] = u /\ told[l] # None}
      OBVIOUS
    <2>2. PICK T : T = {l \in more : VariantOf[l] = u /\ later[l] # None}
      OBVIOUS
    <2>3. S \subseteq T
      BY <2>1, <2>2
    <2>4. IsFiniteSet(T)
      BY <2>2, FS_Subset
    <2> QED BY <2>1, <2>2, <2>3, <2>4, FS_Subset, FS_CardinalityType
  <1>2. SampleSize \in Nat
    BY BackOfficeAssumption DEF Tests!ExperimentAssumption
  <1>3. ASSUME NEW u, Cardinality({l \in rows : VariantOf[l] = u /\ told[l] # None}) >= SampleSize
        PROVE  Cardinality({l \in more : VariantOf[l] = u /\ later[l] # None}) >= SampleSize
    <2>1. PICK m : m = Cardinality({l \in rows : VariantOf[l] = u /\ told[l] # None})
      OBVIOUS
    <2>2. PICK n : n = Cardinality({l \in more : VariantOf[l] = u /\ later[l] # None})
      OBVIOUS
    <2>3. m \in Nat /\ n \in Nat /\ m <= n
      BY <1>1, <2>1, <2>2, Zenon
    <2>4. m >= SampleSize
      BY <1>3, <2>1, Zenon
    <2>5. n >= SampleSize
      BY <1>2, <2>3, <2>4
    <2> QED BY <2>2, <2>5, Zenon
  <1>4. Cardinality({l \in more : VariantOf[l] = v /\ later[l] # None}) >= SampleSize
    BY <1>3 DEF Sampled
  <1>5. PICK u \in Variants \ {v} :
            Cardinality({l \in rows : VariantOf[l] = u /\ told[l] # None}) >= SampleSize
    BY DEF Sampled
  <1>6. Cardinality({l \in more : VariantOf[l] = u /\ later[l] # None}) >= SampleSize
    BY <1>3, <1>5
  <1> QED BY <1>4, <1>5, <1>6 DEF Sampled

LEMMA TestStep ==
    ASSUME TestInv, NEW w \in Workers, NEW t, testTxn' = [testTxn EXCEPT ![w] = t],
           Judges(t, assigned, outcome), t.lead \in Leads \cup {None},
           UNCHANGED <<winner, assigned, outcome>>
    PROVE  TestInv'
  BY DEF TestInv

\* Fewer rows or outcomes there are never.
LEMMA TestGrow ==
    ASSUME TestInv, assigned' \subseteq Leads, assigned \subseteq assigned', DOMAIN outcome' = Leads,
           \A l \in assigned : outcome[l] # None => outcome'[l] # None,
           UNCHANGED winner, NEW w \in Workers, testTxn' = [testTxn EXCEPT ![w] = Tests!NoTxn]
    PROVE  TestInv'
  <1>1. IsFiniteSet(assigned')
    BY BackOfficeAssumption, TestsCardinality, FS_Subset DEF Tests!ExperimentAssumption
  <1>2. ASSUME NEW v, Sampled(assigned, outcome, v)
        PROVE  Sampled(assigned', outcome', v)
    BY <1>1, <1>2, SampledStays
  <1>3. ASSUME NEW v \in Workers
        PROVE  Judges(testTxn'[v], assigned', outcome') /\ testTxn'[v].lead \in Leads \cup {None}
    BY <1>2 DEF TestInv, Judges, Tests!NoTxn
  <1> QED BY <1>2, <1>3 DEF TestInv

LEMMA TestCount ==
    ASSUME TestInv, NEW w \in Workers, Tests!Count(w)
    PROVE  TestInv'
  <1>1. PICK a \in Tests!WithData :
            /\ \E b \in Tests!WithData : a # b
            /\ testTxn' = [testTxn EXCEPT ![w] = [Tests!NoTxn EXCEPT !.pc = "declare", !.winner = a]]
    BY DEF Tests!Count
  <1>2. PICK b \in Tests!WithData : a # b
    BY <1>1
  <1>3. PICK t : t = [Tests!NoTxn EXCEPT !.pc = "declare", !.winner = a]
    OBVIOUS
  <1>4. t.pc = "declare" /\ t.winner = a /\ t.lead = None
    BY <1>3 DEF Tests!NoTxn
  <1>5. a \in Variants /\ b \in Variants /\ a # None
    BY BackOfficeAssumption DEF Tests!WithData, Tests!ExperimentAssumption
  <1>6. Sampled(assigned, outcome, a)
    <2>1. Tests!Size(a) >= SampleSize /\ Tests!Size(b) >= SampleSize
      BY DEF Tests!Count, Tests!EnoughData
    <2> QED BY <1>2, <1>5, <2>1, TestsCardinality DEF Sampled, Tests!Size, Tests!Observed
  <1>7. Judges(t, assigned, outcome)
    BY <1>4, <1>5, <1>6 DEF Judges
  <1>8. testTxn' = [testTxn EXCEPT ![w] = t] /\ UNCHANGED <<winner, assigned, outcome>>
    BY <1>1, <1>3 DEF Tests!Count, Tests!db
  <1> QED BY <1>4, <1>7, <1>8, TestStep

\* A winner has its sample and a rival with one, whatever has been recorded and
\* whichever experiment was started again since (services/ab_testing.py,
\* declare_winner).
THEOREM WinnerSampled == Tests!Spec => []Tests!WinnerHasSample
  <1>1. Tests!Init => TestInv
    BY DEF Tests!Init, TestInv, Judges, Tests!NoTxn
  <1>2. TestInv /\ [Tests!Next]_(Tests!vars) => TestInv'
    <2> SUFFICES ASSUME TestInv, [Tests!Next]_(Tests!vars)
                 PROVE  TestInv'
      OBVIOUS
    <2>1. ASSUME NEW w \in Workers, NEW t, Tests!Begin(w, t), t.pc \notin {"record", "declare"},
                 t.pc = "assign" => t.lead # None,
                 t.lead \in Leads \cup {None}
          PROVE  TestInv'
      BY <2>1, TestStep DEF Tests!Begin, Tests!db, Judges
    <2>2. ASSUME NEW w \in Workers, Tests!BeginStart(w)
          PROVE  TestInv'
      BY <2>1, <2>2 DEF Tests!BeginStart, Tests!NoTxn
    <2>3. ASSUME NEW w \in Workers, Tests!BeginAssign(w)
          PROVE  TestInv'
      <3>1. PICK l \in Leads : Tests!Begin(w, [Tests!NoTxn EXCEPT !.pc = "assign", !.lead = l])
        BY <2>3 DEF Tests!BeginAssign
      <3>2. l # None
        BY BackOfficeAssumption DEF Tests!ExperimentAssumption
      <3> QED BY <2>1, <3>1, <3>2 DEF Tests!NoTxn
    <2>4. ASSUME NEW w \in Workers, Tests!BeginRecord(w)
          PROVE  TestInv'
      <3>1. PICK l \in assigned, v \in Tests!Metrics :
                Tests!Begin(w, [Tests!NoTxn EXCEPT !.pc = "record", !.lead = l, !.value = v])
        BY <2>4 DEF Tests!BeginRecord
      <3>2. PICK t : t = [Tests!NoTxn EXCEPT !.pc = "record", !.lead = l, !.value = v]
        OBVIOUS
      <3>3. t.pc = "record" /\ t.value = v /\ t.lead = l
        BY <3>2 DEF Tests!NoTxn
      <3>4. Judges(t, assigned, outcome) /\ t.lead \in Leads
        BY <3>3 DEF Judges, Tests!Metrics, TestInv
      <3> QED BY <3>1, <3>2, <3>4, TestStep DEF Tests!Begin, Tests!db
    <2>5. ASSUME NEW w \in Workers, Tests!BeginDeclare(w)
          PROVE  TestInv'
      BY <2>1, <2>5 DEF Tests!BeginDeclare, Tests!NoTxn
    <2>6. ASSUME NEW w \in Workers, Tests!CommitStart(w)
          PROVE  TestInv'
      BY <2>6, TestStep DEF Tests!CommitStart, Tests!End, Judges, Tests!NoTxn
    <2>7. ASSUME NEW w \in Workers, Tests!CommitAssign(w)
          PROVE  TestInv'
      BY <2>7, TestGrow DEF Tests!CommitAssign, Tests!End, TestInv, Judges
    <2>8. ASSUME NEW w \in Workers, Tests!CommitRecord(w)
          PROVE  TestInv'
      BY <2>8, BackOfficeAssumption, TestGrow
         DEF Tests!CommitRecord, Tests!End, TestInv, Judges, Tests!ExperimentAssumption
    <2>9. ASSUME NEW w \in Workers, Tests!CommitDeclare(w)
          PROVE  TestInv'
      BY <2>9 DEF Tests!CommitDeclare, Tests!End, TestInv, Judges, Tests!NoTxn
    <2>10. ASSUME NEW w \in Workers, Tests!Rollback(w)
           PROVE  TestInv'
      BY <2>10, TestStep DEF Tests!Rollback, Tests!End, Tests!db, Judges, Tests!NoTxn
    <2>11. CASE UNCHANGED Tests!vars
      BY <2>11 DEF Tests!vars, Tests!db, TestInv
    <2> QED BY <2>2, <2>3, <2>4, <2>5, <2>6, <2>7, <2>8, <2>9, <2>10, <2>11, TestCount DEF Tests!Next
  <1>3. TestInv => Tests!WinnerHasSample
    BY TestsCardinality DEF TestInv, Sampled, Tests!WinnerHasSample, Tests!Size, Tests!Observed
  <1> QED BY <1>1, <1>2, <1>3, PTL DEF Tests!Spec

-----------------------------------------------------------------------------
(* The campaign.  A request that writes the status of a target knows what    *)
(* the writes it has read had earned, and the counts of a performance are    *)
(* those of the present targets as long as no transaction has changed them.  *)

Forgiven(rows, i) ==
    \/ rows[i].seen # i - 1
    \/ \E j \in 1..Len(rows) :
          \/ j > i /\ rows[j].seen < i
          \/ rows[j].outcome = "manual" /\ (j > i \/ rows[i].outcome # "converted")

\* At this level, the first n writes have what they earned, or an excuse.
Honours(to, rows, n) ==
    /\ \A i \in 1..n : Outreach!Level(to) < Outreach!Earned(rows[i].outcome) => Forgiven(rows, i)
    /\ to = "skipped" => \E j \in 1..Len(rows) : rows[j].outcome = "manual"

Knows(t, row) ==
    /\ t.write.seen <= Len(row.writes)
    /\ t.write.seen = Len(row.writes) => row.status = t.read
    /\ Honours(t.read, row.writes, t.write.seen)

WritesTarget(t, rows, there) ==
    t.pc = "write" =>
        /\ t.target \in Invited
        /\ t.read \in Outreach!Statuses /\ t.status \in Outreach!Statuses
        /\ t.write \in Outreach!Write
        /\ t.write.outcome # "manual" => t.status = Outreach!Advanced(t.read, t.write.outcome)
        /\ IF rows[t.target] = None THEN ~there ELSE Knows(t, rows[t.target])

TargetInv ==
    /\ DOMAIN targets = Invited
    /\ \A r \in Invited : targets[r] # None =>
          /\ exists
          /\ targets[r] \in Outreach!Target
          /\ Honours(targets[r].status, targets[r].writes, Len(targets[r].writes))
    /\ DOMAIN campaignTxn = Workers
    /\ \A w \in Workers : WritesTarget(campaignTxn[w], targets, exists)

\* What a request may do to the level of a target.
LEMMA AdvanceRises ==
    ASSUME NEW read \in Outreach!Statuses, NEW answer \in Outreach!Outcomes
    PROVE  /\ Outreach!Advanced(read, answer) \in Outreach!Statuses
           /\ Outreach!Level(Outreach!Advanced(read, answer)) >= Outreach!Level(read)
           /\ Outreach!Advanced(read, answer) = "skipped" => read = "skipped"
           /\ read # "skipped" \/ answer = "converted" =>
                 Outreach!Level(Outreach!Advanced(read, answer)) >= Outreach!Earned(answer)
  BY DEF Outreach!Statuses, Outreach!Outcomes, Outreach!Advanced, Outreach!Level, Outreach!Earned

LEMMA Levels ==
    /\ \A to \in Outreach!Statuses : Outreach!Level(to) \in 0..3
    /\ \A answer \in Outreach!Outcomes \cup {"manual"} : Outreach!Earned(answer) \in 0..3
    /\ Outreach!Earned("manual") = 0
  BY DEF Outreach!Statuses, Outreach!Outcomes, Outreach!Level, Outreach!Earned

\* A further write takes no excuse away.
LEMMA ExcusesStay ==
    ASSUME NEW rows \in Seq(Outreach!Write), NEW entry \in Outreach!Write
    PROVE  /\ Append(rows, entry) \in Seq(Outreach!Write)
           /\ Len(rows) \in Nat /\ Len(Append(rows, entry)) = Len(rows) + 1
           /\ Append(rows, entry)[Len(rows) + 1] = entry
           /\ \A i \in 1..Len(rows) : /\ Append(rows, entry)[i] = rows[i]
                                      /\ Forgiven(rows, i) => Forgiven(Append(rows, entry), i)
           /\ \A to \in Outreach!Statuses : \A n \in 0..Len(rows) :
                 Honours(to, rows, n) => Honours(to, Append(rows, entry), n)
  <1>1. PICK more : more = Append(rows, entry)
    OBVIOUS
  <1>2. /\ more \in Seq(Outreach!Write) /\ Len(rows) \in Nat /\ Len(more) = Len(rows) + 1
        /\ more[Len(rows) + 1] = entry
        /\ \A i \in 1..Len(rows) : more[i] = rows[i]
    BY <1>1, AppendProperties, LenProperties
  <1>3. \A i \in 1..Len(rows) : i \in 1..Len(more)
    BY <1>2
  <1>4. ASSUME NEW i \in 1..Len(rows), Forgiven(rows, i)
        PROVE  Forgiven(more, i)
    BY <1>2, <1>3, <1>4 DEF Forgiven
  <1>5. ASSUME NEW to \in Outreach!Statuses, NEW n \in 0..Len(rows), Honours(to, rows, n)
        PROVE  Honours(to, more, n)
    <2>1. \A i \in 1..n : i \in 1..Len(rows)
      BY <1>2
    <2>2. ASSUME NEW i \in 1..n, Outreach!Level(to) < Outreach!Earned(more[i].outcome)
          PROVE  Forgiven(more, i)
      BY <1>2, <1>4, <1>5, <2>1, <2>2 DEF Honours
    <2> QED BY <1>2, <1>3, <1>5, <2>2 DEF Honours
  <1> QED BY <1>1, <1>2, <1>4, <1>5

\* The row after a request has written it.
LEMMA WriteHonours ==
    ASSUME NEW row \in Outreach!Target, Honours(row.status, row.writes, Len(row.writes)),
           NEW t, Knows(t, row),
           t.read \in Outreach!Statuses, t.status \in Outreach!Statuses,
           t.write \in Outreach!Write,
           t.write.outcome # "manual" => t.status = Outreach!Advanced(t.read, t.write.outcome)
    PROVE  /\ Outreach!Written(row, t) \in Outreach!Target
           /\ Outreach!Written(row, t).writes = Append(row.writes, t.write)
           /\ Honours(Outreach!Written(row, t).status, Append(row.writes, t.write),
                      Len(row.writes) + 1)
  <1>1. PICK to : to = IF t.status = t.read THEN row.status ELSE t.status
    OBVIOUS
  <1>2. PICK more : more = Append(row.writes, t.write)
    OBVIOUS
  <1>3. PICK n : n = Len(row.writes)
    OBVIOUS
  <1>4. PICK seen : seen = t.write.seen
    OBVIOUS
  <1>5. PICK answer : answer = t.write.outcome
    OBVIOUS
  <1>6. /\ row.status \in Outreach!Statuses /\ row.writes \in Seq(Outreach!Write)
        /\ to \in Outreach!Statuses
    BY <1>1 DEF Outreach!Target
  <1>7. Outreach!Written(row, t) = [status |-> to, writes |-> more]
    BY <1>1, <1>2, Zenon DEF Outreach!Written
  <1>8. answer \in Outreach!Outcomes \cup {"manual"} /\ seen \in Nat
    BY <1>4, <1>5 DEF Outreach!Write
  <1>9. /\ more \in Seq(Outreach!Write) /\ n \in Nat /\ Len(more) = n + 1
        /\ more[n + 1] = t.write /\ more[n + 1].seen = seen /\ more[n + 1].outcome = answer
        /\ \A i \in 1..n : more[i] = row.writes[i]
        /\ \A i \in 1..n : Forgiven(row.writes, i) => Forgiven(more, i)
    BY <1>2, <1>3, <1>4, <1>5, <1>6, ExcusesStay
  <1>10. seen <= n /\ (seen = n => row.status = t.read) /\ Honours(t.read, row.writes, seen)
    BY <1>3, <1>4 DEF Knows
  <1>11. Honours(t.read, more, seen) /\ Honours(row.status, more, n)
    <2>1. seen \in 0..n /\ n \in 0..n
      BY <1>8, <1>9, <1>10
    <2>2. Honours(row.status, row.writes, n)
      BY <1>3
    <2> QED BY <1>2, <1>3, <1>6, <1>10, <2>1, <2>2, ExcusesStay
  <1>12. n + 1 \in 1..Len(more)
    BY <1>9
  <1>13. \/ to = row.status
         \/ answer = "manual"
         \/ /\ answer \in Outreach!Outcomes /\ to = Outreach!Advanced(t.read, answer)
            /\ Outreach!Level(to) >= Outreach!Level(t.read)
            /\ to = "skipped" => t.read = "skipped"
    BY <1>1, <1>5, <1>8, AdvanceRises
  <1>14. to = "skipped" => \E j \in 1..Len(more) : more[j].outcome = "manual"
    BY <1>9, <1>11, <1>12, <1>13 DEF Honours
  <1>15. ASSUME NEW i \in 1..n, Outreach!Level(to) < Outreach!Earned(more[i].outcome)
         PROVE  Forgiven(more, i)
    <2>1. CASE to = row.status
      BY <1>11, <1>15, <2>1 DEF Honours
    <2>2. CASE answer = "manual"
      <3>1. n + 1 > i
        BY <1>9
      <3> QED BY <1>9, <1>12, <2>2, <3>1 DEF Forgiven
    <2>3. CASE seen < i
      <3>1. n + 1 > i
        BY <1>9
      <3> QED BY <1>9, <1>12, <2>3, <3>1 DEF Forgiven
    <2>4. CASE i <= seen /\ Outreach!Level(to) >= Outreach!Level(t.read)
      <3>1. more[i] \in Outreach!Write
        BY <1>9
      <3>2. Outreach!Earned(more[i].outcome) \in 0..3
        BY <3>1, Levels DEF Outreach!Write
      <3>3. Outreach!Level(t.read) < Outreach!Earned(more[i].outcome)
        BY <1>6, <1>15, <2>4, <3>2, Levels
      <3> QED BY <1>8, <1>11, <2>4, <3>3 DEF Honours
    <2> QED BY <1>8, <1>13, <2>1, <2>2, <2>3, <2>4
  <1>16. ASSUME Outreach!Level(to) < Outreach!Earned(answer)
         PROVE  Forgiven(more, n + 1)
    <2>1. CASE seen # n
      BY <1>9, <2>1 DEF Forgiven
    <2>2. CASE seen = n
      <3>1. to = t.status /\ t.read = row.status
        BY <1>1, <1>10, <2>2
      <3>2. answer # "manual"
        BY <1>6, <1>16, Levels
      <3>3. answer \in Outreach!Outcomes /\ to = Outreach!Advanced(t.read, answer)
        BY <1>5, <1>8, <3>1, <3>2
      <3>4. Outreach!Level(to) \in 0..3 /\ Outreach!Earned(answer) \in 0..3
        BY <1>6, <3>3, Levels
      <3>5. t.read = "skipped" /\ answer # "converted"
        BY <1>16, <3>3, <3>4, AdvanceRises
      <3>6. PICK j \in 1..Len(more) : more[j].outcome = "manual"
        BY <1>11, <3>5 DEF Honours
      <3> QED BY <1>9, <3>5, <3>6 DEF Forgiven
    <2> QED BY <2>1, <2>2
  <1>17. \A i \in 1..n + 1 : i \in 1..n \/ i = n + 1
    BY <1>9
  <1>18. Honours(to, more, n + 1)
    BY <1>9, <1>14, <1>15, <1>16, <1>17 DEF Honours
  <1>19. Outreach!Written(row, t) \in Outreach!Target
    BY <1>6, <1>7, <1>9 DEF Outreach!Target
  <1>20. Outreach!Written(row, t).status = to /\ Outreach!Written(row, t).writes = more
    BY <1>7
  <1> QED BY <1>2, <1>3, <1>18, <1>19, <1>20

LEMMA NoTarget == None \notin Outreach!Target /\ None \notin Outreach!Performance
  BY BackOfficeAssumption DEF Outreach!CampaignAssumption

\* A step of one request that leaves the targets alone.
LEMMA TargetStep ==
    ASSUME TargetInv, NEW w \in Workers, NEW t, Outreach!Step(w, t),
           WritesTarget(t, targets, exists), UNCHANGED <<exists, targets>>
    PROVE  TargetInv'
  BY DEF TargetInv, Outreach!Step

LEMMA TargetBegins ==
    ASSUME TargetInv, NEW w \in Workers, Outreach!BeginLog(w) \/ Outreach!BeginSetStatus(w)
    PROVE  TargetInv'
  <1>1. PICK r \in Outreach!Chosen, to \in Outreach!Statuses,
             answer \in Outreach!Outcomes \cup {"manual"} :
            /\ answer # "manual" => to = Outreach!Advanced(targets[r].status, answer)
            /\ Outreach!Step(w, [pc |-> "write", target |-> r, read |-> targets[r].status,
                                 status |-> to,
                                 write |-> [outcome |-> answer, seen |-> Len(targets[r].writes)]])
    <2>1. CASE Outreach!BeginLog(w)
      <3>1. PICK r \in Outreach!Chosen, answer \in Outreach!Outcomes :
                Outreach!Step(w, [pc |-> "write", target |-> r, read |-> targets[r].status,
                                  status |-> Outreach!Advanced(targets[r].status, answer),
                                  write |-> [outcome |-> answer,
                                             seen |-> Len(targets[r].writes)]])
        BY <2>1 DEF Outreach!BeginLog
      <3>2. targets[r].status \in Outreach!Statuses
        BY DEF Outreach!Chosen, TargetInv, Outreach!Target
      <3> QED BY <3>1, <3>2, AdvanceRises
    <2>2. CASE Outreach!BeginSetStatus(w)
      BY <2>2 DEF Outreach!BeginSetStatus
    <2> QED BY <2>1, <2>2
  <1>2. PICK entry : entry = [outcome |-> answer, seen |-> Len(targets[r].writes)]
    OBVIOUS
  <1>3. PICK t : t = [pc |-> "write", target |-> r, read |-> targets[r].status, status |-> to,
                      write |-> entry]
    OBVIOUS
  <1>4. /\ r \in Invited /\ targets[r] # None /\ targets[r] \in Outreach!Target
        /\ Honours(targets[r].status, targets[r].writes, Len(targets[r].writes))
    BY DEF Outreach!Chosen, TargetInv
  <1>5. Len(targets[r].writes) \in Nat /\ targets[r].status \in Outreach!Statuses
    BY <1>4 DEF Outreach!Target
  <1>6. entry \in Outreach!Write /\ entry.outcome = answer /\ entry.seen = Len(targets[r].writes)
    BY <1>2, <1>5 DEF Outreach!Write
  <1>7. /\ t.pc = "write" /\ t.target = r /\ t.read = targets[r].status /\ t.status = to
        /\ t.write = entry
    BY <1>3
  <1>8. Knows(t, targets[r])
    BY <1>4, <1>5, <1>6, <1>7 DEF Knows
  <1>9. WritesTarget(t, targets, exists)
    BY <1>1, <1>4, <1>5, <1>6, <1>7, <1>8 DEF WritesTarget
  <1>10. Outreach!Step(w, t)
    BY <1>1, <1>2, <1>3, Zenon
  <1>11. UNCHANGED <<exists, targets>>
    BY DEF Outreach!BeginLog, Outreach!BeginSetStatus
  <1> QED BY <1>9, <1>10, <1>11, TargetStep

LEMMA TargetInsert ==
    ASSUME TargetInv, NEW w \in Workers, Outreach!CommitInsert(w)
    PROVE  TargetInv'
  <1>1. PICK adds : adds = campaignTxn[w].adds
    OBVIOUS
  <1>2. /\ exists /\ exists' = exists
        /\ adds \cap Outreach!Chosen = {}
        /\ targets' = [r \in Invited |-> IF r \in adds THEN [status |-> "pending", writes |-> <<>>]
                                         ELSE targets[r]]
        /\ campaignTxn' = [campaignTxn EXCEPT ![w] = Outreach!NoTxn]
    BY <1>1 DEF Outreach!CommitInsert, Outreach!Change, Outreach!Step
  <1>3. PICK row : row = [status |-> "pending", writes |-> <<>>]
    OBVIOUS
  <1>4. row.status = "pending" /\ row.writes = <<>> /\ Len(row.writes) = 0
    BY <1>3
  <1>5. row \in Outreach!Target
    <2>1. <<>> \in Seq(Outreach!Write)
      BY EmptySeq
    <2> QED BY <1>3, <2>1 DEF Outreach!Target, Outreach!Statuses
  <1>6. Honours(row.status, row.writes, Len(row.writes))
    BY <1>4 DEF Honours
  <1>7. ASSUME NEW r \in Invited, targets'[r] # None
        PROVE  /\ exists'
               /\ targets'[r] \in Outreach!Target
               /\ Honours(targets'[r].status, targets'[r].writes, Len(targets'[r].writes))
    <2>1. CASE r \in adds
      BY <1>2, <1>3, <1>5, <1>6, <2>1
    <2>2. CASE r \notin adds
      BY <1>2, <1>7, <2>2 DEF TargetInv
    <2> QED BY <2>1, <2>2
  <1>8. ASSUME NEW v \in Workers
        PROVE  WritesTarget(campaignTxn'[v], targets', exists')
    <2>1. CASE v = w
      BY <1>2, <2>1 DEF TargetInv, WritesTarget, Outreach!NoTxn
    <2>2. CASE v # w
      <3>1. campaignTxn'[v] = campaignTxn[v] /\ WritesTarget(campaignTxn[v], targets, exists)
        BY <1>2, <2>2 DEF TargetInv
      <3>2. ASSUME campaignTxn[v].pc = "write"
            PROVE  targets'[campaignTxn[v].target] = targets[campaignTxn[v].target]
        BY <1>2, <3>1, <3>2 DEF WritesTarget, Outreach!Chosen
      <3> QED BY <1>2, <3>1, <3>2 DEF WritesTarget
    <2> QED BY <2>1, <2>2
  <1>9. DOMAIN targets' = Invited /\ DOMAIN campaignTxn' = Workers
    BY <1>2 DEF TargetInv
  <1> QED BY <1>7, <1>8, <1>9 DEF TargetInv

LEMMA TargetWrite ==
    ASSUME TargetInv, NEW w \in Workers, Outreach!CommitWrite(w)
    PROVE  TargetInv'
  <1>1. PICK t : t = campaignTxn[w]
    OBVIOUS
  <1>2. PICK r : r = t.target
    OBVIOUS
  <1>3. PICK row : row = targets[r]
    OBVIOUS
  <1>4. PICK later : later = Outreach!Written(row, t)
    OBVIOUS
  <1>5. /\ t.pc = "write" /\ r \in Invited /\ row # None /\ exists' = exists
        /\ targets' = [targets EXCEPT ![r] = later]
        /\ campaignTxn' = [campaignTxn EXCEPT ![w] = Outreach!NoTxn]
    BY <1>1, <1>2, <1>3, <1>4
       DEF Outreach!CommitWrite, Outreach!Change, Outreach!Step, Outreach!Chosen
  <1>6. exists /\ row \in Outreach!Target /\ Honours(row.status, row.writes, Len(row.writes))
    BY <1>3, <1>5 DEF TargetInv
  <1>7. /\ t.read \in Outreach!Statuses /\ t.status \in Outreach!Statuses
        /\ t.write \in Outreach!Write /\ Knows(t, row)
        /\ t.write.outcome # "manual" => t.status = Outreach!Advanced(t.read, t.write.outcome)
    <2>1. WritesTarget(t, targets, exists)
      BY <1>1 DEF TargetInv
    <2> QED BY <1>2, <1>3, <1>5, <2>1 DEF WritesTarget
  <1>8. row.writes \in Seq(Outreach!Write)
    BY <1>6 DEF Outreach!Target
  <1>9. /\ later \in Outreach!Target
        /\ later.writes = Append(row.writes, t.write)
        /\ Len(later.writes) = Len(row.writes) + 1 /\ Len(row.writes) \in Nat
        /\ Honours(later.status, later.writes, Len(later.writes))
    <2>1. /\ later \in Outreach!Target
          /\ later.writes = Append(row.writes, t.write)
          /\ Honours(later.status, Append(row.writes, t.write), Len(row.writes) + 1)
      BY <1>4, <1>6, <1>7, WriteHonours
    <2>2. /\ Len(Append(row.writes, t.write)) = Len(row.writes) + 1 /\ Len(row.writes) \in Nat
      BY <1>7, <1>8, ExcusesStay
    <2> QED BY <2>1, <2>2
  <1>10. ASSUME NEW s \in Invited, targets'[s] # None
         PROVE  /\ exists'
                /\ targets'[s] \in Outreach!Target
                /\ Honours(targets'[s].status, targets'[s].writes, Len(targets'[s].writes))
    <2>1. CASE s = r
      <3>1. targets'[s] = later
        BY <1>5, <2>1 DEF TargetInv
      <3> QED BY <1>5, <1>6, <1>9, <3>1
    <2>2. CASE s # r
      BY <1>5, <1>10, <2>2 DEF TargetInv
    <2> QED BY <2>1, <2>2
  <1>11. ASSUME NEW v \in Workers, v # w, campaignTxn[v].pc = "write", campaignTxn[v].target = r
         PROVE  Knows(campaignTxn[v], later)
    <2>1. PICK other : other = campaignTxn[v]
      OBVIOUS
    <2>2. WritesTarget(other, targets, exists)
      BY <2>1 DEF TargetInv
    <2>3. Knows(other, row) /\ other.write \in Outreach!Write /\ other.read \in Outreach!Statuses
      BY <1>3, <1>5, <1>11, <2>1, <2>2 DEF WritesTarget
    <2>4. other.write.seen \in 0..Len(row.writes)
      BY <1>9, <2>3 DEF Knows, Outreach!Write
    <2>5. Honours(other.read, later.writes, other.write.seen)
      BY <1>7, <1>8, <1>9, <2>3, <2>4, ExcusesStay DEF Knows
    <2>6. other.write.seen <= Len(later.writes) /\ other.write.seen # Len(later.writes)
      BY <1>9, <2>4
    <2> QED BY <2>1, <2>5, <2>6 DEF Knows
  <1>12. later # None
    BY <1>9, NoTarget
  <1>13. ASSUME NEW v \in Workers
         PROVE  WritesTarget(campaignTxn'[v], targets', exists')
    <2>1. CASE v = w
      BY <1>5, <2>1 DEF TargetInv, WritesTarget, Outreach!NoTxn
    <2>2. CASE v # w
      <3>1. campaignTxn'[v] = campaignTxn[v] /\ WritesTarget(campaignTxn[v], targets, exists)
        BY <1>5, <2>2 DEF TargetInv
      <3>2. targets'[r] = later /\ \A s \in Invited : s # r => targets'[s] = targets[s]
        BY <1>5 DEF TargetInv
      <3>3. CASE campaignTxn[v].pc = "write" /\ campaignTxn[v].target = r
        BY <1>5, <1>11, <1>12, <2>2, <3>1, <3>2, <3>3 DEF WritesTarget
      <3>4. CASE campaignTxn[v].pc = "write" /\ campaignTxn[v].target # r
        BY <1>5, <3>1, <3>2, <3>4 DEF WritesTarget
      <3>5. CASE campaignTxn[v].pc # "write"
        BY <3>1, <3>5 DEF WritesTarget
      <3> QED BY <3>3, <3>4, <3>5
    <2> QED BY <2>1, <2>2
  <1>14. DOMAIN targets' = Invited /\ DOMAIN campaignTxn' = Workers
    BY <1>5 DEF TargetInv
  <1> QED BY <1>10, <1>13, <1>14 DEF TargetInv

LEMMA TargetsHold == Outreach!Spec => []TargetInv
  <1>1. Outreach!Init => TargetInv
    <2> SUFFICES ASSUME Outreach!Init PROVE TargetInv
      OBVIOUS
    <2>1. \A r \in Invited : targets[r] = None
      BY DEF Outreach!Init
    <2>2. \A w \in Workers : campaignTxn[w].pc = "idle"
      BY DEF Outreach!Init, Outreach!NoTxn
    <2>3. DOMAIN targets = Invited /\ DOMAIN campaignTxn = Workers
      BY DEF Outreach!Init
    <2> QED BY <2>1, <2>2, <2>3 DEF TargetInv, WritesTarget
  <1>2. TargetInv /\ [Outreach!Next]_(Outreach!vars) => TargetInv'
    <2> SUFFICES ASSUME TargetInv, [Outreach!Next]_(Outreach!vars)
                 PROVE  TargetInv'
      OBVIOUS
    <2>1. ASSUME NEW w \in Workers, NEW t, Outreach!Step(w, t), t.pc # "write",
                 UNCHANGED <<exists, targets>>
          PROVE  TargetInv'
      BY <2>1, TargetStep DEF WritesTarget
    <2>2. ASSUME NEW w \in Workers, Outreach!BeginSelect(w)
          PROVE  TargetInv'
      BY <2>1, <2>2 DEF Outreach!BeginSelect
    <2>3. ASSUME NEW w \in Workers, Outreach!BeginAdd(w)
          PROVE  TargetInv'
      BY <2>1, <2>3 DEF Outreach!BeginAdd
    <2>4. ASSUME NEW w \in Workers, Outreach!DeleteCampaign(w)
          PROVE  TargetInv'
      <3>1. /\ exists' = FALSE /\ targets' = [r \in Invited |-> None]
            /\ campaignTxn' = [campaignTxn EXCEPT ![w] = Outreach!NoTxn]
        BY <2>4 DEF Outreach!DeleteCampaign, Outreach!Change, Outreach!Step
      <3>2. DOMAIN campaignTxn' = Workers /\ DOMAIN targets' = Invited
            /\ \A r \in Invited : targets'[r] = None
        BY <3>1 DEF TargetInv
      <3>3. \A v \in Workers : v # w => campaignTxn'[v] = campaignTxn[v]
        BY <3>1 DEF TargetInv
      <3>4. campaignTxn'[w].pc = "idle"
        BY <3>1 DEF TargetInv, Outreach!NoTxn
      <3>5. ASSUME NEW v \in Workers
            PROVE  WritesTarget(campaignTxn'[v], targets', exists')
        BY <3>1, <3>2, <3>3, <3>4 DEF WritesTarget, TargetInv
      <3> QED BY <3>2, <3>5 DEF TargetInv
    <2>5. ASSUME NEW w \in Workers, Outreach!CountTotal(w)
          PROVE  TargetInv'
      BY <2>1, <2>5 DEF Outreach!CountTotal
    <2>6. ASSUME NEW w \in Workers, Outreach!CountContacted(w)
          PROVE  TargetInv'
      BY <2>1, <2>6 DEF Outreach!CountContacted
    <2>7. ASSUME NEW w \in Workers, Outreach!CountResponded(w)
          PROVE  TargetInv'
      BY <2>1, <2>7 DEF Outreach!CountResponded
    <2>8. ASSUME NEW w \in Workers, Outreach!CountConverted(w)
          PROVE  TargetInv'
      BY <2>1, <2>8 DEF Outreach!CountConverted
    <2>9. ASSUME NEW w \in Workers,
                 \/ Outreach!LookUp(w) \/ Outreach!StorePerformance(w) \/ Outreach!Rollback(w)
          PROVE  TargetInv'
      <3>1. CASE Outreach!LookUp(w)
        BY <2>1, <3>1 DEF Outreach!LookUp
      <3> QED BY <2>1, <2>9, <3>1
              DEF Outreach!StorePerformance, Outreach!Rollback, Outreach!NoTxn
    <2>10. CASE UNCHANGED Outreach!vars
      BY <2>10 DEF Outreach!vars, TargetInv
    <2> QED BY <2>2, <2>3, <2>4, <2>5, <2>6, <2>7, <2>8, <2>9, <2>10,
               TargetBegins, TargetInsert, TargetWrite DEF Outreach!Next
  <1> QED BY <1>1, <1>2, PTL DEF Outreach!Spec

\* What a target has earned is taken back by hand only, or by a request that
\* had read it before (services/outreach.py, log_activity).
THEOREM AnswersKept == Outreach!Spec => []Outreach!AdvanceKept
  <1>1. TargetInv => Outreach!AdvanceKept
    <2> SUFFICES ASSUME TargetInv, NEW r \in Outreach!Chosen
                 PROVE  \A i \in DOMAIN targets[r].writes :
                           Outreach!Level(targets[r].status)
                                 < Outreach!Earned(targets[r].writes[i].outcome) =>
                              Forgiven(targets[r].writes, i)
      BY DEF Outreach!AdvanceKept, Forgiven, TargetInv, Outreach!Target, Outreach!Chosen
    <2>1. /\ targets[r].writes \in Seq(Outreach!Write)
          /\ Honours(targets[r].status, targets[r].writes, Len(targets[r].writes))
      BY DEF TargetInv, Outreach!Chosen, Outreach!Target
    <2> QED BY <2>1 DEF Honours
  <1> QED BY <1>1, TargetsHold, PTL

-----------------------------------------------------------------------------
\* Targets that have got at least so far.
Reached(rows, S) == {r \in Invited : rows[r] # None /\ rows[r].status \in S}
Chosen(rows)     == {r \in Invited : rows[r] # None}

Fits(row, rows) ==
    /\ row.total = Cardinality(Chosen(rows))
    /\ row.contacted = Cardinality(Reached(rows, {"contacted", "responded", "converted"}))

Narrows(row) ==
    row.calm => /\ row.contacted <= row.total
                /\ row.responded <= row.contacted
                /\ row.converted <= row.responded

Counts(t, rows, n) ==
    /\ t.pc \in {"contacted", "responded", "converted"} => t.from \in Nat /\ t.from <= n
    /\ t.pc = "contacted" /\ t.from = n => t.total = Cardinality(Chosen(rows))
    /\ t.pc = "responded" /\ t.from = n => Fits(t, rows)
    /\ t.pc = "converted" /\ t.from = n =>
          /\ Fits(t, rows)
          /\ t.responded = Cardinality(Reached(rows, {"responded", "converted"}))
    /\ t.pc \in {"lookup", "store"} => Narrows(t.row)

FunnelInv ==
    /\ commits \in Nat
    /\ performance # None => Narrows(performance)
    /\ DOMAIN campaignTxn = Workers
    /\ \A w \in Workers : Counts(campaignTxn[w], targets, commits)

LEMMA SameCounts ==
    /\ \A S : Outreach!Cardinality(S) = Cardinality(S)
    /\ \A S : Outreach!IsFiniteSet(S) <=> IsFiniteSet(S)
  BY DEF Outreach!Cardinality, Cardinality, Outreach!IsFiniteSet, IsFiniteSet

\* Of fewer statuses there are fewer targets.
LEMMA FewerReach ==
    ASSUME NEW rows, NEW S, NEW T, S \subseteq T
    PROVE  /\ Cardinality(Reached(rows, S)) <= Cardinality(Reached(rows, T))
           /\ Cardinality(Reached(rows, S)) <= Cardinality(Chosen(rows))
           /\ Cardinality(Reached(rows, S)) \in Nat
  <1>1. IsFiniteSet(Invited)
    BY BackOfficeAssumption, SameCounts DEF Outreach!CampaignAssumption
  <1>2. Chosen(rows) \subseteq Invited /\ Reached(rows, T) \subseteq Invited
    BY DEF Chosen, Reached
  <1>3. IsFiniteSet(Chosen(rows)) /\ IsFiniteSet(Reached(rows, T))
    BY <1>1, <1>2, FS_Subset
  <1>4. Reached(rows, S) \subseteq Chosen(rows) /\ Reached(rows, S) \subseteq Reached(rows, T)
    BY DEF Chosen, Reached
  <1> QED BY <1>3, <1>4, FS_Subset, FS_CardinalityType

LEMMA Asked ==
    /\ Outreach!Chosen = Chosen(targets)
    /\ \A S : Outreach!With(S) = Reached(targets, S)
  BY DEF Outreach!Chosen, Outreach!With, Chosen, Reached

LEMMA FunnelStep ==
    ASSUME FunnelInv, NEW w \in Workers, NEW t, Outreach!Step(w, t),
           Counts(t, targets, commits), UNCHANGED <<targets, commits>>,
           performance' = performance \/ performance' = None \/ Narrows(performance')
    PROVE  FunnelInv'
  BY DEF FunnelInv, Outreach!Step

\* Counts made before a change are known to be old.
LEMMA FunnelChange ==
    ASSUME FunnelInv, NEW w \in Workers, Outreach!Change(w),
           performance' = performance \/ performance' = None
    PROVE  FunnelInv'
  <1>1. commits \in Nat /\ commits' = commits + 1
        /\ campaignTxn' = [campaignTxn EXCEPT ![w] = Outreach!NoTxn]
    BY DEF FunnelInv, Outreach!Change, Outreach!Step
  <1>2. ASSUME NEW v \in Workers
        PROVE  Counts(campaignTxn'[v], targets', commits')
    <2>1. CASE v = w
      BY <1>1, <2>1 DEF FunnelInv, Counts, Outreach!NoTxn
    <2>2. CASE v # w
      <3>1. campaignTxn'[v] = campaignTxn[v] /\ Counts(campaignTxn[v], targets, commits)
        BY <1>1, <2>2 DEF FunnelInv
      <3>2. \A n \in Nat : n <= commits => n <= commits' /\ n # commits'
        BY <1>1
      <3> QED BY <3>1, <3>2, Zenon DEF Counts
    <2> QED BY <2>1, <2>2
  <1> QED BY <1>1, <1>2 DEF FunnelInv

LEMMA FunnelCounts ==
    ASSUME FunnelInv, NEW w \in Workers,
           \/ Outreach!CountTotal(w) \/ Outreach!CountContacted(w)
           \/ Outreach!CountResponded(w) \/ Outreach!CountConverted(w)
    PROVE  FunnelInv'
  <1>1. Counts(campaignTxn[w], targets, commits) /\ commits \in Nat
    BY DEF FunnelInv
  <1>2. CASE Outreach!CountTotal(w)
    <2>1. PICK t : t = [pc |-> "contacted", from |-> commits,
                        total |-> Outreach!Cardinality(Outreach!Chosen)]
      OBVIOUS
    <2>2. t.pc = "contacted" /\ t.from = commits /\ t.total = Cardinality(Chosen(targets))
      BY <2>1, SameCounts, Asked
    <2>3. Counts(t, targets, commits)
      BY <1>1, <2>2 DEF Counts
    <2> QED BY <1>2, <2>1, <2>3, FunnelStep DEF Outreach!CountTotal
  <1>3. CASE Outreach!CountContacted(w)
    <2>1. PICK t : t = [pc |-> "responded", from |-> campaignTxn[w].from,
                        total |-> campaignTxn[w].total,
                        contacted |-> Outreach!Cardinality(
                                          Outreach!With(Outreach!ContactedOrFurther))]
      OBVIOUS
    <2>2. /\ t.pc = "responded" /\ t.from = campaignTxn[w].from /\ t.total = campaignTxn[w].total
          /\ t.contacted = Cardinality(Reached(targets, {"contacted", "responded", "converted"}))
      BY <2>1, SameCounts, Asked DEF Outreach!ContactedOrFurther
    <2>3. Counts(t, targets, commits)
      BY <1>1, <1>3, <2>2 DEF Counts, Fits, Outreach!CountContacted
    <2> QED BY <1>3, <2>1, <2>3, FunnelStep DEF Outreach!CountContacted
  <1>4. CASE Outreach!CountResponded(w)
    <2>1. PICK t : t = [pc |-> "converted", from |-> campaignTxn[w].from,
                        total |-> campaignTxn[w].total, contacted |-> campaignTxn[w].contacted,
                        responded |-> Outreach!Cardinality(
                                          Outreach!With({"responded", "converted"}))]
      OBVIOUS
    <2>2. /\ t.pc = "converted" /\ t.from = campaignTxn[w].from /\ t.total = campaignTxn[w].total
          /\ t.contacted = campaignTxn[w].contacted
          /\ t.responded = Cardinality(Reached(targets, {"responded", "converted"}))
      BY <2>1, SameCounts, Asked
    <2>3. Counts(t, targets, commits)
      BY <1>1, <1>4, <2>2 DEF Counts, Fits, Outreach!CountResponded
    <2> QED BY <1>4, <2>1, <2>3, FunnelStep DEF Outreach!CountResponded
  <1>5. CASE Outreach!CountConverted(w)
    <2>1. PICK old : old = campaignTxn[w]
      OBVIOUS
    <2>2. PICK row : row = [total |-> old.total, contacted |-> old.contacted,
                            responded |-> old.responded,
                            converted |-> Outreach!Cardinality(Outreach!With({"converted"})),
                            calm |-> commits = old.from]
      OBVIOUS
    <2>3. PICK t : t = [pc |-> "lookup", row |-> row]
      OBVIOUS
    <2>4. /\ row.total = old.total /\ row.contacted = old.contacted
          /\ row.responded = old.responded
          /\ row.converted = Cardinality(Reached(targets, {"converted"}))
          /\ row.calm <=> commits = old.from
      BY <2>2, SameCounts, Asked
    <2>5. Narrows(row)
      <3> SUFFICES ASSUME commits = old.from
                   PROVE  /\ row.contacted <= row.total
                          /\ row.responded <= row.contacted
                          /\ row.converted <= row.responded
        BY <2>4 DEF Narrows
      <3>1. Fits(old, targets)
            /\ old.responded = Cardinality(Reached(targets, {"responded", "converted"}))
        BY <1>1, <1>5, <2>1 DEF Counts, Outreach!CountConverted
      <3> QED BY <2>4, <3>1, FewerReach DEF Fits
    <2>6. Counts(t, targets, commits)
      BY <2>3, <2>5 DEF Counts
    <2>7. Outreach!Step(w, t) /\ UNCHANGED <<targets, commits, performance>>
      BY <1>5, <2>1, <2>2, <2>3, Zenon DEF Outreach!CountConverted
    <2> QED BY <2>6, <2>7, FunnelStep
  <1> QED BY <1>2, <1>3, <1>4, <1>5

\* An UPDATE leaves the row that was counted, if the row is still as it was read.
LEMMA FunnelStored ==
    ASSUME NEW t, Narrows(t.row)
    PROVE  Narrows(Outreach!Calculated(t))
  <1>1. PICK row : row = Outreach!Calculated(t)
    OBVIOUS
  <1>2. /\ row.total = Outreach!Column(t, "total")
        /\ row.contacted = Outreach!Column(t, "contacted")
        /\ row.responded = Outreach!Column(t, "responded")
        /\ row.converted = Outreach!Column(t, "converted")
        /\ row.calm <=> t.row.calm /\ \A c \in Outreach!Columns : performance[c] = t.read[c]
    BY <1>1 DEF Outreach!Calculated
  <1>3. ASSUME row.calm
        PROVE  /\ row.contacted <= row.total
               /\ row.responded <= row.contacted
               /\ row.converted <= row.responded
    <2>1. \A c \in Outreach!Columns : Outreach!Column(t, c) = t.row[c]
      BY <1>2, <1>3 DEF Outreach!Column
    <2>2. /\ row.total = t.row.total /\ row.contacted = t.row.contacted
          /\ row.responded = t.row.responded /\ row.converted = t.row.converted
      BY <1>2, <2>1 DEF Outreach!Columns
    <2>3. t.row.calm
      BY <1>2, <1>3
    <2> QED BY <2>2, <2>3 DEF Narrows
  <1> QED BY <1>1, <1>3 DEF Narrows

\* A stored performance counts no more answers than contacts and no more
\* conversions than answers, unless targets changed between its counts or
\* another calculation was stored since it looked at the row
\* (services/outreach.py, calculate_performance).
THEOREM FunnelKept == Outreach!Spec => []Outreach!FunnelNarrows
  <1>1. Outreach!Init => FunnelInv
    BY DEF Outreach!Init, FunnelInv, Counts, Outreach!NoTxn
  <1>2. FunnelInv /\ [Outreach!Next]_(Outreach!vars) => FunnelInv'
    <2> SUFFICES ASSUME FunnelInv, [Outreach!Next]_(Outreach!vars)
                 PROVE  FunnelInv'
      OBVIOUS
    <2>1. ASSUME NEW w \in Workers, NEW t, Outreach!Step(w, t), t.pc \in {"insert", "write", "idle"},
                 UNCHANGED <<targets, commits, performance>>
          PROVE  FunnelInv'
      BY <2>1, FunnelStep DEF Counts
    <2>2. ASSUME NEW w \in Workers,
                 \/ Outreach!BeginSelect(w) \/ Outreach!BeginAdd(w)
          PROVE  FunnelInv'
      BY <2>1, <2>2 DEF Outreach!BeginSelect, Outreach!BeginAdd
    <2>3. ASSUME NEW w \in Workers, Outreach!BeginLog(w)
          PROVE  FunnelInv'
      BY <2>1, <2>3 DEF Outreach!BeginLog
    <2>4. ASSUME NEW w \in Workers, Outreach!BeginSetStatus(w)
          PROVE  FunnelInv'
      BY <2>1, <2>4 DEF Outreach!BeginSetStatus
    <2>5. ASSUME NEW w \in Workers, Outreach!Rollback(w)
          PROVE  FunnelInv'
      BY <2>1, <2>5 DEF Outreach!Rollback, Outreach!NoTxn
    <2>6. ASSUME NEW w \in Workers,
                 Outreach!CommitInsert(w) \/ Outreach!CommitWrite(w) \/ Outreach!DeleteCampaign(w)
          PROVE  FunnelInv'
      BY <2>6, FunnelChange
         DEF Outreach!CommitInsert, Outreach!CommitWrite, Outreach!DeleteCampaign
    <2>7. ASSUME NEW w \in Workers, Outreach!StorePerformance(w)
          PROVE  FunnelInv'
      <3>1. /\ campaignTxn[w].pc = "store"
            /\ performance' \in {campaignTxn[w].row, Outreach!Calculated(campaignTxn[w])}
            /\ Outreach!Step(w, Outreach!NoTxn) /\ UNCHANGED <<targets, commits>>
        BY <2>7 DEF Outreach!StorePerformance
      <3>4. Narrows(campaignTxn[w].row)
        BY <3>1 DEF FunnelInv, Counts
      <3>5. Narrows(performance')
        BY <3>1, <3>4, FunnelStored
      <3>2. Counts(Outreach!NoTxn, targets, commits)
        BY DEF Counts, Outreach!NoTxn
      <3> QED BY <3>1, <3>2, <3>5, FunnelStep
    <2>9. ASSUME NEW w \in Workers, Outreach!LookUp(w)
          PROVE  FunnelInv'
      <3>1. PICK t : t = [pc |-> "store", row |-> campaignTxn[w].row, read |-> performance]
        OBVIOUS
      <3>2. /\ campaignTxn[w].pc = "lookup" /\ Outreach!Step(w, t)
            /\ UNCHANGED <<targets, commits, performance>>
        BY <2>9, <3>1 DEF Outreach!LookUp
      <3>3. Counts(t, targets, commits)
        BY <3>1, <3>2 DEF FunnelInv, Counts
      <3> QED BY <3>2, <3>3, FunnelStep
    <2>8. CASE UNCHANGED Outreach!vars
      BY <2>8 DEF Outreach!vars, FunnelInv
    <2> QED BY <2>2, <2>3, <2>4, <2>5, <2>6, <2>7, <2>8, <2>9, FunnelCounts DEF Outreach!Next
  <1>3. FunnelInv => Outreach!FunnelNarrows
    BY DEF FunnelInv, Narrows, Outreach!FunnelNarrows
  <1> QED BY <1>1, <1>2, <1>3, PTL DEF Outreach!Spec

-----------------------------------------------------------------------------
(* The agents.  The rows of a run are those of the stages from the first on, *)
(* and the context stays the caller's.                                       *)

Stage(k) == Agents!PIPELINE_STAGES[k]

Follows(rows, from) ==
    /\ \A n \in 1..Len(rows) : from + n - 1 \in 1..4 /\ rows[n].agent = Stage(from + n - 1)
    /\ \A n \in 1..Len(rows) : n < Len(rows) => rows[n].success

\* A restaurant is qualified and a lead closed for those who named it.
Named(rows, context) ==
    \A n \in 1..Len(rows) : rows[n].success =>
       /\ rows[n].agent = "qualification" => "restaurant_id" \in context
       /\ rows[n].agent = "closing" => "lead_id" \in context

Runs(t) ==
    t.pc = "stages" =>
        /\ t.now = t.request.context
        /\ t.request \in Agents!Request
        /\ Named(t.request.rows, t.request.context)
        /\ t.last \in 1..4
        /\ t.request.pipeline => t.last = 4
        /\ t.next \in 1..5
        /\ t.request.success <=> \A n \in 1..Len(t.request.rows) : t.request.rows[n].success
        /\ \E from \in 1..4 :
              /\ from <= t.last
              /\ Follows(t.request.rows, from)
              /\ t.next = IF t.request.success THEN from + Len(t.request.rows) ELSE t.last + 1

RowsTell(request) ==
    /\ Len(request.rows) > 0
    /\ Named(request.rows, request.context)
    /\ request.success <=> \A n \in 1..Len(request.rows) : request.rows[n].success
    /\ \E from \in 1..4 :
          /\ Follows(request.rows, from)
          /\ request.pipeline /\ request.success => from + Len(request.rows) = 5

AgentInv ==
    /\ requests \in Seq(Agents!Request)
    /\ \A i \in 1..Len(requests) : RowsTell(requests[i])
    /\ DOMAIN agentTxn = Workers
    /\ \A w \in Workers : Runs(agentTxn[w])

LEMMA FourStages ==
    /\ DOMAIN Agents!PIPELINE_STAGES = 1..4 /\ Len(Agents!PIPELINE_STAGES) = 4
    /\ Stage(1) = "lead_discovery" /\ Stage(2) = "qualification"
    /\ Stage(3) = "outreach" /\ Stage(4) = "closing"
    /\ \A k \in 1..4 : Stage(k) \in Agents!Stages
    /\ \A k \in 1..4 : Stage(k) = "qualification" => k = 2
    /\ \A k \in 1..4 : Stage(k) = "closing" => k = 4
  BY DEF Agents!PIPELINE_STAGES, Stage, Agents!Stages

LEMMA StageNumber ==
    ASSUME NEW k \in 1..4
    PROVE  \A j \in DOMAIN Agents!PIPELINE_STAGES : Agents!PIPELINE_STAGES[j] = Stage(k) <=> j = k
  <1>1. \A j \in 1..4 : Stage(j) = Stage(k) => j = k
    BY FourStages
  <1> QED BY <1>1, FourStages DEF Stage

\* What the run of a stage may be.
LEMMA StageRuns ==
    ASSUME NEW k \in 1..4, NEW context, NEW row \in Agents!Outcomes(Stage(k), context)
    PROVE  /\ row \in Agents!Row /\ row.agent = Stage(k) /\ row.success \in BOOLEAN
           /\ row.success /\ k = 2 => "restaurant_id" \in context
           /\ row.success /\ k = 4 => "lead_id" \in context
  <1>1. PICK done \in {"completed", "failed"}, well \in BOOLEAN :
            /\ row = [agent |-> Stage(k), status |-> done, success |-> well]
            /\ well => Agents!Accepts(Stage(k), context)
    BY DEF Agents!Outcomes
  <1>2. row.agent = Stage(k) /\ row.success = well /\ row \in Agents!Row
    BY <1>1, FourStages DEF Agents!Row
  <1> QED BY <1>1, <1>2, FourStages DEF Agents!Accepts

LEMMA AgentStep ==
    ASSUME AgentInv, NEW w \in Workers, NEW t, Agents!Step(w, t), Runs(t), UNCHANGED requests
    PROVE  AgentInv'
  BY DEF AgentInv, Agents!Step

LEMMA AgentStart ==
    ASSUME AgentInv, NEW w \in Workers, Agents!StartAgent(w) \/ Agents!StartPipeline(w)
    PROVE  AgentInv'
  <1>1. PICK k \in 1..4, context \in Contexts, last \in 1..4, whole \in BOOLEAN :
            /\ k <= last
            /\ whole => last = 4
            /\ Agents!Step(w, [pc |-> "stages", next |-> k, last |-> last, now |-> context,
                               request |-> [context |-> context, rows |-> <<>>,
                                            pipeline |-> whole, success |-> TRUE]])
    <2>1. CASE Agents!StartAgent(w)
      <3>1. PICK k \in 1..4, context \in Contexts :
                Agents!Step(w, [pc |-> "stages", next |-> k, last |-> k, now |-> context,
                                request |-> [context |-> context, rows |-> <<>>,
                                             pipeline |-> FALSE, success |-> TRUE]])
        BY <2>1, FourStages DEF Agents!StartAgent
      <3>2. k <= k
        OBVIOUS
      <3> QED BY <3>1, <3>2, Zenon
    <2>2. CASE Agents!StartPipeline(w)
      <3>1. PICK k \in 1..4, context \in Contexts :
                Agents!Step(w, [pc |-> "stages", next |-> k, last |-> 4, now |-> context,
                                request |-> [context |-> context, rows |-> <<>>,
                                             pipeline |-> TRUE, success |-> TRUE]])
        BY <2>2, FourStages DEF Agents!StartPipeline
      <3>2. k <= 4 /\ 4 \in 1..4
        OBVIOUS
      <3> QED BY <3>1, <3>2, Zenon
    <2> QED BY <2>1, <2>2
  <1>2. PICK request : request = [context |-> context, rows |-> <<>>, pipeline |-> whole,
                                  success |-> TRUE]
    OBVIOUS
  <1>3. PICK t : t = [pc |-> "stages", next |-> k, last |-> last, now |-> context,
                      request |-> request]
    OBVIOUS
  <1>4. /\ t.next = k /\ t.last = last /\ t.now = context /\ t.request = request
        /\ request.context = context /\ request.rows = <<>> /\ request.pipeline = whole
        /\ request.success
    BY <1>2, <1>3
  <1>5. request \in Agents!Request
    <2>1. <<>> \in Seq(Agents!Row) /\ context \in SUBSET Agents!Keys
      BY BackOfficeAssumption, EmptySeq DEF Agents!AgentAssumption
    <2> QED BY <1>2, <2>1 DEF Agents!Request
  <1>6. Len(request.rows) = 0
    BY <1>4
  <1>7. Follows(request.rows, k) /\ Named(request.rows, request.context)
    BY <1>6 DEF Follows, Named
  <1>8. \A n \in 1..Len(request.rows) : request.rows[n].success
    BY <1>6
  <1>9. last \in 1..4 /\ k <= last /\ k = k + Len(request.rows)
    BY <1>1, <1>6
  <1>10. Runs(t)
    BY <1>1, <1>4, <1>5, <1>7, <1>8, <1>9 DEF Runs
  <1>11. Agents!Step(w, t) /\ UNCHANGED requests
    BY <1>1, <1>2, <1>3, Zenon DEF Agents!StartAgent, Agents!StartPipeline
  <1> QED BY <1>10, <1>11, AgentStep

LEMMA AgentRun ==
    ASSUME AgentInv, NEW w \in Workers, Agents!RunStage(w)
    PROVE  AgentInv'
  <1>1. PICK t : t = agentTxn[w]
    OBVIOUS
  <1>2. PICK row \in Agents!Outcomes(Stage(t.next), t.now) : Agents!Step(w, Agents!Ran(t, row))
    BY <1>1 DEF Agents!RunStage, Stage
  <1>3. t.pc = "stages" /\ t.next <= t.last /\ Runs(t)
    BY <1>1 DEF Agents!RunStage, AgentInv
  <1>4. PICK from \in 1..4 :
            /\ from <= t.last
            /\ Follows(t.request.rows, from)
            /\ t.next = IF t.request.success THEN from + Len(t.request.rows) ELSE t.last + 1
    BY <1>3 DEF Runs
  <1>5. /\ t.last \in 1..4 /\ t.next \in 1..4 /\ t.now = t.request.context
        /\ t.request.pipeline => t.last = 4
        /\ Named(t.request.rows, t.request.context)
        /\ t.request.success <=> \A n \in 1..Len(t.request.rows) : t.request.rows[n].success
    BY <1>3 DEF Runs
  <1>6. /\ t.request \in Agents!Request /\ t.request.context \in SUBSET Agents!Keys
        /\ t.request.rows \in Seq(Agents!Row)
        /\ t.request.pipeline \in BOOLEAN /\ t.request.success \in BOOLEAN
    BY <1>3 DEF Runs, Agents!Request
  <1>7. PICK rows : rows = t.request.rows
    OBVIOUS
  <1>8. t.request.success /\ t.next = from + Len(rows)
    BY <1>3, <1>4, <1>5, <1>7
  <1>9. /\ row \in Agents!Row /\ row.agent = Stage(t.next) /\ row.success \in BOOLEAN
        /\ row.success /\ t.next = 2 => "restaurant_id" \in t.request.context
        /\ row.success /\ t.next = 4 => "lead_id" \in t.request.context
    BY <1>5, StageRuns
  <1>10. PICK more : more = Append(rows, row)
    OBVIOUS
  <1>11. PICK n : n = Len(rows)
    OBVIOUS
  <1>12. /\ more \in Seq(Agents!Row) /\ n \in Nat /\ Len(more) = n + 1 /\ more[n + 1] = row
         /\ \A i \in 1..n : more[i] = rows[i]
    BY <1>6, <1>7, <1>9, <1>10, <1>11, AppendProperties, LenProperties
  <1>13. \A i \in 1..n + 1 : i \in 1..n \/ i = n + 1
    BY <1>12
  <1>14. Follows(more, from)
    <2>1. ASSUME NEW i \in 1..n + 1
          PROVE  /\ from + i - 1 \in 1..4 /\ more[i].agent = Stage(from + i - 1)
                 /\ i < n + 1 => more[i].success
      <3>1. CASE i \in 1..n
        BY <1>4, <1>5, <1>7, <1>8, <1>11, <1>12, <3>1 DEF Follows
      <3>2. CASE i = n + 1
        <4>1. from + i - 1 = t.next
          BY <1>8, <1>11, <1>12, <3>2
        <4> QED BY <1>5, <1>9, <1>12, <3>2, <4>1
      <3> QED BY <1>13, <3>1, <3>2
    <2> QED BY <1>12, <2>1 DEF Follows
  <1>15. Named(more, t.request.context)
    <2>1. row.success /\ row.agent = "qualification" => "restaurant_id" \in t.request.context
      BY <1>5, <1>9, FourStages
    <2>2. row.success /\ row.agent = "closing" => "lead_id" \in t.request.context
      BY <1>5, <1>9, FourStages
    <2>3. ASSUME NEW i \in 1..n + 1, more[i].success
          PROVE  /\ more[i].agent = "qualification" => "restaurant_id" \in t.request.context
                 /\ more[i].agent = "closing" => "lead_id" \in t.request.context
      BY <1>5, <1>7, <1>11, <1>12, <1>13, <2>1, <2>2, <2>3 DEF Named
    <2> QED BY <1>12, <2>3 DEF Named
  <1>16. row.success <=> \A i \in 1..n + 1 : more[i].success
    <2>1. \A i \in 1..n : more[i].success
      BY <1>5, <1>7, <1>8, <1>11, <1>12
    <2>2. n + 1 \in 1..n + 1
      BY <1>12
    <2> QED BY <1>12, <1>13, <2>1, <2>2, Zenon
  <1>17. PICK request : request = [context |-> t.request.context, rows |-> more,
                                   pipeline |-> t.request.pipeline,
                                   success |-> t.request.success /\ row.success]
    OBVIOUS
  <1>18. /\ request.context = t.request.context /\ request.rows = more
         /\ request.pipeline = t.request.pipeline
         /\ request.success <=> row.success
    BY <1>8, <1>17
  <1>19. request \in Agents!Request
    <2>1. (t.request.success /\ row.success) \in BOOLEAN
      OBVIOUS
    <2> QED BY <1>6, <1>12, <1>17, <2>1, Zenon DEF Agents!Request
  <1>20. PICK later : later = Agents!Ran(t, row)
    OBVIOUS
  <1>21. /\ later.pc = "stages" /\ later.last = t.last /\ later.request = request
         /\ later.next = IF row.success THEN t.next + 1 ELSE t.last + 1
    BY <1>7, <1>10, <1>17, <1>20 DEF Agents!Ran, Agents!Goes
  <1>22. later.now = t.now
    <2>1. t.now \cup Agents!Added(row.agent, t.now) = t.now
      BY DEF Agents!Added
    <2>2. later.now = IF row.success THEN t.now \cup Agents!Added(row.agent, t.now) ELSE t.now
      BY <1>20 DEF Agents!Ran
    <2> QED BY <2>1, <2>2
  <1>23. Len(more) = n + 1 /\ later.next \in 1..5
         /\ later.next = IF row.success THEN from + Len(more) ELSE t.last + 1
    BY <1>5, <1>8, <1>11, <1>12, <1>21
  <1>24. Runs(later)
    BY <1>4, <1>5, <1>14, <1>15, <1>16, <1>18, <1>19, <1>21, <1>22, <1>23 DEF Runs
  <1> QED BY <1>2, <1>20, <1>24, AgentStep DEF Agents!RunStage

LEMMA AgentCommit ==
    ASSUME AgentInv, NEW w \in Workers, Agents!CommitRun(w)
    PROVE  AgentInv'
  <1>1. PICK t : t = agentTxn[w]
    OBVIOUS
  <1>2. PICK request : request = t.request
    OBVIOUS
  <1>3. /\ t.pc = "stages" /\ t.next > t.last /\ Runs(t)
        /\ requests' = Append(requests, request)
        /\ agentTxn' = [agentTxn EXCEPT ![w] = Agents!NoTxn]
    BY <1>1, <1>2 DEF Agents!CommitRun, AgentInv, Agents!Step
  <1>4. PICK from \in 1..4 :
            /\ from <= t.last
            /\ Follows(request.rows, from)
            /\ t.next = IF request.success THEN from + Len(request.rows) ELSE t.last + 1
    BY <1>2, <1>3 DEF Runs
  <1>5. /\ request \in Agents!Request /\ t.last \in 1..4 /\ t.next \in 1..5
        /\ request.pipeline => t.last = 4
        /\ Named(request.rows, request.context)
        /\ request.success <=> \A n \in 1..Len(request.rows) : request.rows[n].success
    BY <1>2, <1>3 DEF Runs
  <1>6. Len(request.rows) \in Nat
    BY <1>5 DEF Agents!Request
  <1>7. Len(request.rows) > 0
    <2>1. CASE request.success
      BY <1>3, <1>4, <1>5, <1>6, <2>1
    <2>2. CASE ~request.success
      BY <1>5, <1>6, <2>2
    <2> QED BY <2>1, <2>2
  <1>8. request.pipeline /\ request.success => from + Len(request.rows) = 5
    BY <1>3, <1>4, <1>5, <1>6
  <1>9. RowsTell(request)
    BY <1>4, <1>5, <1>7, <1>8 DEF RowsTell
  <1>10. /\ requests' \in Seq(Agents!Request) /\ Len(requests) \in Nat
         /\ Len(requests') = Len(requests) + 1 /\ requests'[Len(requests) + 1] = request
         /\ \A i \in 1..Len(requests) : requests'[i] = requests[i]
    BY <1>3, <1>5, AppendProperties, LenProperties DEF AgentInv
  <1>11. \A i \in 1..Len(requests) + 1 : i \in 1..Len(requests) \/ i = Len(requests) + 1
    BY <1>10
  <1>12. \A i \in 1..Len(requests') : RowsTell(requests'[i])
    BY <1>9, <1>10, <1>11 DEF AgentInv
  <1>13. DOMAIN agentTxn' = Workers /\ \A v \in Workers : Runs(agentTxn'[v])
    BY <1>3 DEF AgentInv, Runs, Agents!NoTxn
  <1> QED BY <1>10, <1>12, <1>13 DEF AgentInv

LEMMA AgentsHold == Agents!Spec => []AgentInv
  <1>1. Agents!Init => AgentInv
    <2> SUFFICES ASSUME Agents!Init PROVE AgentInv
      OBVIOUS
    <2>1. requests = <<>> /\ DOMAIN agentTxn = Workers
          /\ \A w \in Workers : agentTxn[w].pc = "idle"
      BY DEF Agents!Init, Agents!NoTxn
    <2>2. requests \in Seq(Agents!Request) /\ Len(requests) = 0
      BY <2>1, EmptySeq
    <2> QED BY <2>1, <2>2 DEF AgentInv, Runs
  <1>2. AgentInv /\ [Agents!Next]_(Agents!vars) => AgentInv'
    <2> SUFFICES ASSUME AgentInv, [Agents!Next]_(Agents!vars)
                 PROVE  AgentInv'
      OBVIOUS
    <2>1. ASSUME NEW w \in Workers, Agents!Rollback(w)
          PROVE  AgentInv'
      BY <2>1, AgentStep DEF Agents!Rollback, Runs, Agents!NoTxn
    <2>2. CASE UNCHANGED Agents!vars
      BY <2>2 DEF Agents!vars, AgentInv
    <2> QED BY <2>1, <2>2, AgentStart, AgentRun, AgentCommit DEF Agents!Next
  <1> QED BY <1>1, <1>2, PTL DEF Agents!Spec

\* The rows of a pipeline follow each other up to the first without success, it
\* succeeded when the closing stage did, and nobody qualified or closed what
\* the caller had not named (agents/coordinator.py, _run_pipeline).
THEOREM PipelinesTell == Agents!Spec => []Agents!PipelineTellsStages
  <1>1. AgentInv => Agents!PipelineTellsStages
    <2> DEFINE number(i, n) == CHOOSE k \in DOMAIN Agents!PIPELINE_STAGES :
                                  Agents!PIPELINE_STAGES[k] = requests[i].rows[n].agent
    <2>1. ASSUME AgentInv, NEW i \in DOMAIN requests
          PROVE  LET rows == requests[i].rows
                 IN  /\ \A n \in 1..Len(rows) - 1 : rows[n].success /\ number(i, n + 1) = number(i, n) + 1
                     /\ requests[i].pipeline =>
                           (requests[i].success <=> /\ rows[Len(rows)].success
                                                    /\ rows[Len(rows)].agent = "closing")
                     /\ \A n \in DOMAIN rows :
                           rows[n].success =>
                              /\ rows[n].agent = "qualification" => "restaurant_id" \in requests[i].context
                              /\ rows[n].agent = "closing" => "lead_id" \in requests[i].context
      <3>1. PICK request : request = requests[i]
        OBVIOUS
      <3>2. request \in Agents!Request /\ RowsTell(request)
        BY <2>1, <3>1 DEF AgentInv
      <3>3. PICK rows : rows = request.rows
        OBVIOUS
      <3>4. PICK from \in 1..4 :
                /\ Follows(rows, from)
                /\ request.pipeline /\ request.success => from + Len(rows) = 5
        BY <3>2, <3>3 DEF RowsTell
      <3>5. /\ Len(rows) \in Nat /\ Len(rows) > 0 /\ DOMAIN rows = 1..Len(rows)
            /\ Named(rows, request.context)
            /\ request.success <=> \A n \in 1..Len(rows) : rows[n].success
        BY <3>2, <3>3 DEF Agents!Request, RowsTell
      <3>6. ASSUME NEW n \in 1..Len(rows)
            PROVE  number(i, n) = from + n - 1
        <4>1. PICK k : k = from + n - 1
          OBVIOUS
        <4>2. k \in 1..4 /\ requests[i].rows[n].agent = Stage(k)
          BY <3>1, <3>3, <3>4, <4>1 DEF Follows
        <4>3. \A j \in DOMAIN Agents!PIPELINE_STAGES :
                 Agents!PIPELINE_STAGES[j] = requests[i].rows[n].agent <=> j = k
          BY <4>2, StageNumber
        <4>4. k \in DOMAIN Agents!PIPELINE_STAGES
          BY <4>2, FourStages
        <4>5. number(i, n) = k
          BY <4>3, <4>4
        <4> QED BY <4>1, <4>5
      <3>7. ASSUME NEW n \in 1..Len(rows) - 1
            PROVE  rows[n].success /\ number(i, n + 1) = number(i, n) + 1
        <4>1. n \in 1..Len(rows) /\ n + 1 \in 1..Len(rows) /\ n < Len(rows)
          BY <3>5
        <4> HIDE DEF number
        <4> QED BY <3>4, <3>6, <4>1 DEF Follows
      <3>8. request.success <=> rows[Len(rows)].success
        BY <3>4, <3>5 DEF Follows
      <3>9. request.pipeline /\ request.success => rows[Len(rows)].agent = "closing"
        BY <3>4, <3>5, FourStages DEF Follows
      <3> QED BY <3>1, <3>3, <3>5, <3>7, <3>8, <3>9 DEF Named
    <2> QED BY <2>1 DEF Agents!PipelineTellsStages
  <1> QED BY <1>1, AgentsHold, PTL

-----------------------------------------------------------------------------
(* The explanations of restaurants and the recalculations.  Whoever found no *)
(* row had looked at the rows of an earlier state, and rows only come.       *)

LEMMA ScoringCardinality ==
    /\ \A S : Scoring!Cardinality(S) = Cardinality(S)
    /\ \A S : Scoring!IsFiniteSet(S) <=> IsFiniteSet(S)
  BY DEF Scoring!Cardinality, Cardinality, Scoring!IsFiniteSet, IsFiniteSet

\* A finite set as a sequence.
LEMMA Listed ==
    ASSUME NEW S, IsFiniteSet(S)
    PROVE  /\ Scoring!SetToSeq(S) \in Seq(S)
           /\ \A x \in S : \E i \in 1..Len(Scoring!SetToSeq(S)) : Scoring!SetToSeq(S)[i] = x
  <1>1. PICK n : n = Cardinality(S)
    OBVIOUS
  <1>2. n \in Nat /\ Bijection(1..n, S) # {}
    BY <1>1, FS_CardinalityType DEF ExistsBijection
  <1>3. \E g \in [1..n -> S] : IsInjective(g)
    BY <1>2 DEF Bijection, Injection
  <1>4. PICK f : f = CHOOSE g \in [1..n -> S] : IsInjective(g)
    OBVIOUS
  <1>5. f \in [1..n -> S] /\ IsInjective(f)
    BY <1>3, <1>4
  <1>6. f = Scoring!SetToSeq(S)
    BY <1>1, <1>4, ScoringCardinality DEF Scoring!SetToSeq, Scoring!IsInjective, IsInjective
  <1>7. f \in Injection(1..n, S)
    BY <1>5 DEF Injection
  <1>8. Cardinality(1..n) = n
    BY <1>2, FS_Interval
  <1>9. f \in Surjection(1..n, S)
    BY <1>1, <1>7, <1>8, FS_Injection
  <1>10. f \in Seq(S) /\ Len(f) = n
    BY <1>2, <1>5
  <1> QED BY <1>6, <1>9, <1>10 DEF Surjection

\* What a scoring knows of its restaurant.
Looked(e, rows) ==
    /\ e.restaurant \in Scored
    /\ e.seen \in 0..Len(rows)
    /\ e.row = {} => \A i \in 1..e.seen : rows[i].restaurant # e.restaurant
    /\ e.row # {} => \E i \in 1..Len(rows) : e.row = {i} /\ rows[i].restaurant = e.restaurant

Rows(rows) == \E S : rows \in Seq(S)

Places(rows, r) == {i \in 1..Len(rows) : rows[i].restaurant = r}

\* More rows, the old ones of the same restaurants.
Further(rows, more) ==
    /\ Rows(more) /\ Len(rows) <= Len(more)
    /\ \A i \in 1..Len(rows) : /\ more[i].restaurant = rows[i].restaurant
                               /\ more[i].seen = rows[i].seen

LEMMA RowsAre ==
    ASSUME NEW rows, Rows(rows)
    PROVE  Len(rows) \in Nat /\ DOMAIN rows = 1..Len(rows)
  BY DEF Rows

LEMMA FurtherPlaces ==
    ASSUME NEW rows, Rows(rows), NEW more, Further(rows, more), NEW r
    PROVE  /\ Places(rows, r) \subseteq Places(more, r)
           /\ Cardinality(Places(rows, r)) > 1 => Cardinality(Places(more, r)) > 1
  <1>1. Len(rows) \in Nat /\ Len(more) \in Nat /\ Len(rows) <= Len(more)
    BY RowsAre DEF Further
  <1>2. Places(rows, r) \subseteq Places(more, r)
    BY <1>1 DEF Places, Further
  <1>3. IsFiniteSet(1..Len(more)) /\ Places(more, r) \subseteq 1..Len(more)
    BY <1>1, FS_Interval DEF Places
  <1>4. IsFiniteSet(Places(more, r)) /\ IsFiniteSet(Places(rows, r))
    BY <1>2, <1>3, FS_Subset
  <1>5. /\ Cardinality(Places(rows, r)) <= Cardinality(Places(more, r))
        /\ Cardinality(Places(rows, r)) \in Nat /\ Cardinality(Places(more, r)) \in Nat
    BY <1>2, <1>4, FS_Subset, FS_CardinalityType
  <1> QED BY <1>2, <1>5

LEMMA FurtherLooked ==
    ASSUME NEW rows, Rows(rows), NEW more, Further(rows, more), NEW e, Looked(e, rows)
    PROVE  Looked(e, more)
  <1>1. Len(rows) \in Nat /\ Len(more) \in Nat /\ Len(rows) <= Len(more)
    BY RowsAre DEF Further
  <1>2. e.seen \in 0..Len(more) /\ \A i \in 1..e.seen : i \in 1..Len(rows)
    BY <1>1 DEF Looked
  <1>3. \A i \in 1..Len(rows) : i \in 1..Len(more)
    BY <1>1
  <1> QED BY <1>2, <1>3 DEF Looked, Further

\* What the upsert stores.
LEMMA StoredRows ==
    ASSUME Rows(explanations), NEW done, IsFiniteSet(done), \A e \in done : Looked(e, explanations)
    PROVE  /\ Further(explanations, Scoring!Stored(done))
           /\ \A i \in 1..Len(Scoring!Stored(done)) :
                 i > Len(explanations) =>
                    \E e \in done : /\ e.row = {}
                                    /\ Scoring!Stored(done)[i].restaurant = e.restaurant
                                    /\ Scoring!Stored(done)[i].seen = e.seen
           /\ \A e \in done : Places(Scoring!Stored(done), e.restaurant) # {}
  <1>1. PICK n : n = Len(explanations)
    OBVIOUS
  <1>2. n \in Nat /\ DOMAIN explanations = 1..n
    BY <1>1, RowsAre
  <1>3. PICK old : old = Scoring!Updated(done)
    OBVIOUS
  <1>4. PICK fresh : fresh = {d \in done : d.row = {}}
    OBVIOUS
  <1>5. PICK f : f = [e \in fresh |-> [restaurant |-> e.restaurant, total |-> e.total,
                                       seen |-> e.seen]]
    OBVIOUS
  <1>6. PICK adds : adds = Scoring!Inserted(done)
    OBVIOUS
  <1>7. adds = {f[e] : e \in fresh}
    BY <1>4, <1>5, <1>6 DEF Scoring!Inserted
  <1>8. IsFiniteSet(adds)
    <2>1. IsFiniteSet(fresh)
      BY <1>4, FS_Subset
    <2>2. f \in Surjection(fresh, adds)
      BY <1>5, <1>7 DEF Surjection
    <2> QED BY <2>1, <2>2, FS_Surjection
  <1>9. PICK list : list = Scoring!SetToSeq(adds)
    OBVIOUS
  <1>10. list \in Seq(adds) /\ \A x \in adds : \E i \in 1..Len(list) : list[i] = x
    BY <1>8, <1>9, Listed
  <1>11. PICK more : more = old \o list
    OBVIOUS
  <1>12. more = Scoring!Stored(done)
    BY <1>3, <1>6, <1>9, <1>11 DEF Scoring!Stored
  <1>13. DOMAIN old = 1..n /\ \A i \in 1..n : /\ old[i].restaurant = explanations[i].restaurant
                                              /\ old[i].seen = explanations[i].seen
    BY <1>2, <1>3 DEF Scoring!Updated
  <1>14. PICK T : T = {old[i] : i \in 1..n} \cup adds
    OBVIOUS
  <1>15. old \in Seq(T) /\ Len(old) = n
    <2>1. old = [i \in 1..n |-> old[i]]
      BY <1>2, <1>3 DEF Scoring!Updated
    <2>2. old \in [1..n -> T]
      BY <1>14, <2>1
    <2> QED BY <1>2, <2>2
  <1>16. list \in Seq(T)
    BY <1>10, <1>14
  <1>17. /\ more \in Seq(T) /\ Len(more) = n + Len(list) /\ Len(list) \in Nat
         /\ \A i \in 1..n + Len(list) : more[i] = IF i <= n THEN old[i] ELSE list[i - n]
    BY <1>11, <1>15, <1>16, ConcatProperties, LenProperties
  <1>18. Further(explanations, more)
    BY <1>1, <1>2, <1>13, <1>17 DEF Further, Rows
  <1>19. ASSUME NEW i \in 1..Len(more), i > n
         PROVE  \E e \in done : e.row = {} /\ more[i].restaurant = e.restaurant
                                           /\ more[i].seen = e.seen
    <2>1. i - n \in 1..Len(list) /\ more[i] = list[i - n]
      BY <1>2, <1>17, <1>19
    <2>2. list[i - n] \in adds
      BY <1>10, <2>1
    <2>3. PICK e \in fresh : more[i] = f[e]
      BY <1>7, <2>1, <2>2
    <2>4. e \in done /\ e.row = {} /\ f[e].restaurant = e.restaurant /\ f[e].seen = e.seen
      BY <1>4, <1>5
    <2>5. more[i].restaurant = e.restaurant /\ more[i].seen = e.seen
      BY <2>3, <2>4
    <2> QED BY <2>4, <2>5, Zenon
  <1>20. ASSUME NEW e \in done
         PROVE  Places(more, e.restaurant) # {}
    <2>1. CASE e.row # {}
      <3>1. PICK i \in 1..n : explanations[i].restaurant = e.restaurant
        BY <1>1, <2>1 DEF Looked
      <3> QED BY <1>2, <1>13, <1>17, <3>1 DEF Places
    <2>2. CASE e.row = {}
      <3>1. e \in fresh /\ f[e] \in adds /\ f[e].restaurant = e.restaurant
        BY <1>4, <1>5, <1>7, <2>2
      <3>2. PICK i \in 1..Len(list) : list[i] = f[e]
        BY <1>10, <3>1
      <3>3. n + i \in 1..Len(more) /\ more[n + i] = list[i]
        BY <1>2, <1>17
      <3> QED BY <3>1, <3>2, <3>3 DEF Places
    <2> QED BY <2>1, <2>2
  <1> QED BY <1>1, <1>12, <1>18, <1>19, <1>20

JobTold(job, rows) ==
    IF job.status = "completed"
    THEN /\ job.total <= job.processed /\ job.processed = Cardinality(job.listed)
         /\ \A r \in job.listed : Places(rows, r) # {}
    ELSE job.lazy \/ \E r \in Scored : Cardinality(Places(rows, r)) > 1

\* What was scored, of what was listed when the restaurants of here were there.
Scores(t, rows, here) ==
    /\ t.pc = "score" => IsFiniteSet(t.done) /\ \A e \in t.done : Looked(e, rows)
    /\ t.pc = "list" => t.total \in Nat /\ t.total <= Cardinality(here)
    /\ t.pc = "recalculate" =>
          /\ DOMAIN t = {"pc", "weights", "total", "listed", "left", "done"}
          /\ t.listed \subseteq Scored /\ t.left \subseteq t.listed
          /\ t.total \in Nat /\ t.total <= Cardinality(t.listed)
          /\ IsFiniteSet(t.done)
          /\ \A e \in t.done : Looked(e, rows) /\ e.restaurant \notin t.left
          /\ \A r \in t.listed \ t.left : \E e \in t.done : e.restaurant = r
          /\ Cardinality(t.done) + Cardinality(t.left) = Cardinality(t.listed)

OverlapsOnly(rows) ==
    \A i, j \in 1..Len(rows) :
       i < j /\ rows[i].restaurant = rows[j].restaurant => rows[j].seen < i

JobInv ==
    /\ Rows(explanations) /\ OverlapsOnly(explanations)
    /\ jobs \in Seq(Scoring!Job)
    /\ \A k \in 1..Len(jobs) : JobTold(jobs[k], explanations)
    /\ present \subseteq Scored
    /\ DOMAIN scoreTxn = Workers
    /\ \A w \in Workers : Scores(scoreTxn[w], explanations, present)

LEMMA ScoredFinite ==
    ASSUME NEW S \in SUBSET Scored
    PROVE  IsFiniteSet(S) /\ Cardinality(S) \in Nat
  BY BackOfficeAssumption, ScoringCardinality, FS_CardinalityType, FS_Subset
     DEF Scoring!ProfileAssumption

LEMMA FurtherJob ==
    ASSUME NEW rows, Rows(rows), NEW more, Further(rows, more), NEW job, JobTold(job, rows)
    PROVE  JobTold(job, more)
  BY FurtherPlaces, Zenon DEF JobTold

LEMMA FurtherScores ==
    ASSUME NEW rows, Rows(rows), NEW more, Further(rows, more), NEW t, NEW here,
           Scores(t, rows, here)
    PROVE  Scores(t, more, here)
  BY FurtherLooked DEF Scores

\* The rows the upsert adds.
LEMMA StoredOverlaps ==
    ASSUME Rows(explanations), OverlapsOnly(explanations),
           NEW done, IsFiniteSet(done), \A e \in done : Looked(e, explanations)
    PROVE  OverlapsOnly(Scoring!Stored(done))
  <1>1. PICK more : more = Scoring!Stored(done)
    OBVIOUS
  <1>2. PICK n : n = Len(explanations)
    OBVIOUS
  <1>3. /\ Further(explanations, more)
        /\ \A i \in 1..Len(more) : i > n =>
              \E e \in done : /\ e.row = {} /\ more[i].restaurant = e.restaurant
                              /\ more[i].seen = e.seen
    <2>1. Further(explanations, Scoring!Stored(done))
      BY StoredRows
    <2>2. \A i \in 1..Len(Scoring!Stored(done)) :
             i > Len(explanations) =>
                \E e \in done : /\ e.row = {}
                                /\ Scoring!Stored(done)[i].restaurant = e.restaurant
                                /\ Scoring!Stored(done)[i].seen = e.seen
      BY StoredRows
    <2> QED BY <1>1, <1>2, <2>1, <2>2
  <1>4. n \in Nat /\ Len(more) \in Nat /\ n <= Len(more)
    BY <1>2, <1>3, RowsAre DEF Further
  <1> SUFFICES ASSUME NEW i \in 1..Len(more), NEW j \in 1..Len(more), i < j,
                      more[i].restaurant = more[j].restaurant
               PROVE  more[j].seen < i
    BY <1>1 DEF OverlapsOnly
  <1>5. CASE j <= n
    <2>1. i \in 1..n /\ j \in 1..n
      BY <1>4, <1>5
    <2> QED BY <1>2, <1>3, <2>1 DEF OverlapsOnly, Further
  <1>6. CASE j > n
    <2>1. PICK e \in done : /\ e.row = {} /\ more[j].restaurant = e.restaurant
                            /\ more[j].seen = e.seen
      BY <1>3, <1>6
    <2>2. /\ e.seen \in 0..n
          /\ \A k \in 1..e.seen : explanations[k].restaurant # e.restaurant
      BY <1>2, <2>1 DEF Looked
    <2>3. i \in 1..n => more[i].restaurant = explanations[i].restaurant
      BY <1>2, <1>3 DEF Further
    <2>4. CASE i > e.seen
      BY <1>4, <2>1, <2>2, <2>4
    <2>5. CASE i <= e.seen
      <3>1. i \in 1..e.seen /\ i \in 1..n
        BY <1>4, <2>2, <2>5
      <3> QED BY <2>1, <2>2, <2>3, <3>1
    <2> QED BY <1>4, <2>2, <2>4, <2>5
  <1> QED BY <1>4, <1>5, <1>6

LEMMA JobStep ==
    ASSUME JobInv, NEW w \in Workers, NEW t, Scoring!Step(w, t),
           Scores(t, explanations, present), UNCHANGED <<explanations, jobs, present>>
    PROVE  JobInv'
  BY DEF JobInv, Scoring!Step

\* Rows come, and the job that brought them.
LEMMA JobStore ==
    ASSUME JobInv, NEW w \in Workers, NEW done, IsFiniteSet(done),
           \A e \in done : Looked(e, explanations),
           explanations' = Scoring!Stored(done), Scoring!Step(w, Scoring!NoTxn),
           jobs' \in Seq(Scoring!Job), present' = present,
           \A k \in 1..Len(jobs') : \/ k \in 1..Len(jobs) /\ jobs'[k] = jobs[k]
                                    \/ JobTold(jobs'[k], explanations')
    PROVE  JobInv'
  <1>1. Rows(explanations) /\ OverlapsOnly(explanations)
    BY DEF JobInv
  <1>2. Further(explanations, explanations')
    BY <1>1, StoredRows
  <1>3. Rows(explanations') /\ OverlapsOnly(explanations')
    BY <1>1, <1>2, StoredOverlaps DEF Further
  <1>4. \A k \in 1..Len(jobs') : JobTold(jobs'[k], explanations')
    BY <1>1, <1>2, FurtherJob DEF JobInv
  <1>5. ASSUME NEW v \in Workers
        PROVE  Scores(scoreTxn'[v], explanations', present')
    <2>1. CASE v = w
      BY <2>1 DEF Scoring!Step, Scoring!NoTxn, JobInv, Scores
    <2>2. CASE v # w
      <3>1. scoreTxn'[v] = scoreTxn[v] /\ Scores(scoreTxn[v], explanations, present)
        BY <2>2 DEF Scoring!Step, JobInv
      <3> QED BY <1>1, <1>2, <3>1, FurtherScores
    <2> QED BY <2>1, <2>2
  <1>6. DOMAIN scoreTxn' = Workers
    BY DEF Scoring!Step, JobInv
  <1> QED BY <1>3, <1>4, <1>5, <1>6 DEF JobInv

\* What evaluate_restaurant returns, where it does not raise.
LEMMA EvaluatedLooked ==
    ASSUME Rows(explanations), NEW r \in Scored, NEW weights, ~Scoring!Raises(weights, r)
    PROVE  /\ Looked(Scoring!Evaluated(weights, r), explanations)
           /\ Scoring!Evaluated(weights, r).restaurant = r
  <1>1. PICK e : e = Scoring!Evaluated(weights, r)
    OBVIOUS
  <1>2. Len(explanations) \in Nat /\ DOMAIN explanations = 1..Len(explanations)
    BY RowsAre
  <1>3. PICK places : places = {i \in 1..Len(explanations) : explanations[i].restaurant = r}
    OBVIOUS
  <1>4. e.row = places /\ e.restaurant = r /\ e.seen = Len(explanations)
    BY <1>1, <1>2, <1>3 DEF Scoring!Evaluated, Scoring!Rows
  <1>5. ~(Cardinality(places) > 1)
    BY <1>2, <1>3, ScoringCardinality DEF Scoring!Raises, Scoring!Rows
  <1>6. IsFiniteSet(places)
    <2>1. IsFiniteSet(1..Len(explanations)) /\ places \in SUBSET (1..Len(explanations))
      BY <1>2, <1>3, FS_Interval
    <2> QED BY <2>1, FS_Subset
  <1>7. Cardinality(places) = 0 \/ Cardinality(places) = 1
    BY <1>5, <1>6, FS_CardinalityType
  <1>8. places = {} \/ \E i : places = {i}
    BY <1>6, <1>7, FS_EmptySet, FS_Singleton
  <1>9. places # {} => \E i \in 1..Len(explanations) :
                          places = {i} /\ explanations[i].restaurant = r
    BY <1>3, <1>8
  <1>10. places = {} => \A i \in 1..Len(explanations) : explanations[i].restaurant # r
    BY <1>3
  <1>11. Looked(e, explanations)
    BY <1>2, <1>4, <1>9, <1>10 DEF Looked
  <1> QED BY <1>1, <1>4, <1>11

LEMMA JobEvaluate ==
    ASSUME JobInv, NEW w \in Workers, Scoring!EvaluateNext(w)
    PROVE  JobInv'
  <1>1. PICK t : t = scoreTxn[w]
    OBVIOUS
  <1>2. PICK r \in t.left :
            /\ ~Scoring!Raises(t.weights, r)
            /\ Scoring!Step(w, [t EXCEPT !.left = t.left \ {r},
                                         !.done = t.done \cup {Scoring!Evaluated(t.weights, r)}])
    BY <1>1 DEF Scoring!EvaluateNext
  <1>3. PICK e : e = Scoring!Evaluated(t.weights, r)
    OBVIOUS
  <1>4. PICK u : u = [t EXCEPT !.left = t.left \ {r}, !.done = t.done \cup {e}]
    OBVIOUS
  <1>5. /\ t.pc = "recalculate"
        /\ DOMAIN t = {"pc", "weights", "total", "listed", "left", "done"}
        /\ t.listed \subseteq Scored /\ t.left \subseteq t.listed
        /\ t.total \in Nat /\ t.total <= Cardinality(t.listed)
        /\ IsFiniteSet(t.done)
        /\ \A d \in t.done : Looked(d, explanations) /\ d.restaurant \notin t.left
        /\ \A s \in t.listed \ t.left : \E d \in t.done : d.restaurant = s
        /\ Cardinality(t.done) + Cardinality(t.left) = Cardinality(t.listed)
    BY <1>1 DEF JobInv, Scores, Scoring!EvaluateNext
  <1>6. /\ u.pc = "recalculate" /\ u.left = t.left \ {r} /\ u.done = t.done \cup {e}
        /\ u.listed = t.listed /\ u.total = t.total /\ DOMAIN u = DOMAIN t
    BY <1>4, <1>5
  <1>7. Looked(e, explanations) /\ e.restaurant = r
    BY <1>2, <1>3, <1>5, EvaluatedLooked DEF JobInv
  <1>8. e \notin t.done
    BY <1>5, <1>7
  <1>9. IsFiniteSet(t.left)
    BY <1>5, ScoredFinite, FS_Subset
  <1>10. /\ IsFiniteSet(u.done) /\ Cardinality(u.done) = Cardinality(t.done) + 1
         /\ Cardinality(u.left) = Cardinality(t.left) - 1
    <2>1. IsFiniteSet(u.done) /\ Cardinality(u.done) = Cardinality(t.done) + 1
      <3>1. /\ IsFiniteSet(t.done \cup {e})
            /\ Cardinality(t.done \cup {e}) =
                  IF e \in t.done THEN Cardinality(t.done) ELSE Cardinality(t.done) + 1
        BY <1>5, FS_AddElement, Zenon
      <3> QED BY <1>6, <1>8, <3>1
    <2>2. Cardinality(u.left) = Cardinality(t.left) - 1
      BY <1>6, <1>9, FS_RemoveElement
    <2> QED BY <2>1, <2>2
  <1>11. Cardinality(t.done) \in Nat /\ Cardinality(t.left) \in Nat
    BY <1>5, <1>9, FS_CardinalityType
  <1>12. Cardinality(u.done) + Cardinality(u.left) = Cardinality(u.listed)
    BY <1>6, <1>5, <1>10, <1>11
  <1>13. u.listed \subseteq Scored /\ u.left \subseteq u.listed
         /\ \A d \in u.done : Looked(d, explanations) /\ d.restaurant \notin u.left
    BY <1>6, <1>5, <1>7
  <1>14. ASSUME NEW s \in u.listed \ u.left
         PROVE  \E d \in u.done : d.restaurant = s
    BY <1>6, <1>5, <1>7
  <1>15. Scores(u, explanations, present)
    BY <1>6, <1>5, <1>10, <1>12, <1>13, <1>14 DEF Scores
  <1>16. Scoring!Step(w, u)
    BY <1>2, <1>3, <1>4, Zenon
  <1>17. UNCHANGED <<explanations, jobs, present>>
    BY DEF Scoring!EvaluateNext, Scoring!db
  <1> QED BY <1>15, <1>16, <1>17, JobStep

LEMMA JobFinish ==
    ASSUME JobInv, NEW w \in Workers, Scoring!FinishRecalculate(w)
    PROVE  JobInv'
  <1>1. PICK t : t = scoreTxn[w]
    OBVIOUS
  <1>2. PICK failed \in BOOLEAN : failed <=> \E r \in t.left : Scoring!Raises(t.weights, r)
    OBVIOUS
  <1>3. PICK lazy \in BOOLEAN : lazy <=> \E s \in Lazy : t.weights[s] # Off
    OBVIOUS
  <1>4. PICK job : job = [status |-> IF failed THEN "failed" ELSE "completed",
                          total |-> t.total, processed |-> Cardinality(t.done),
                          listed |-> t.listed, lazy |-> lazy]
    OBVIOUS
  <1>5. /\ t.pc = "recalculate" /\ (failed \/ t.left = {})
        /\ explanations' = Scoring!Stored(t.done)
        /\ Scoring!Step(w, Scoring!NoTxn) /\ present' = present
    BY <1>1, <1>2 DEF Scoring!FinishRecalculate
  <1>6. jobs' = Append(jobs, job)
    <2>1. jobs' = Append(jobs, [status |-> IF \E r \in t.left : Scoring!Raises(t.weights, r)
                                           THEN "failed" ELSE "completed",
                                total |-> t.total,
                                processed |-> Scoring!Cardinality(t.done),
                                listed |-> t.listed,
                                lazy |-> \E s \in Lazy : t.weights[s] # Off])
      BY <1>1 DEF Scoring!FinishRecalculate
    <2>2. lazy = \E s \in Lazy : t.weights[s] # Off
      BY <1>3, Zenon
    <2> QED BY <1>2, <1>4, <2>1, <2>2, ScoringCardinality
  <1>7. /\ t.listed \subseteq Scored /\ t.left \subseteq t.listed
        /\ t.total \in Nat /\ t.total <= Cardinality(t.listed)
        /\ IsFiniteSet(t.done)
        /\ \A e \in t.done : Looked(e, explanations)
        /\ \A r \in t.listed \ t.left : \E e \in t.done : e.restaurant = r
        /\ Cardinality(t.done) + Cardinality(t.left) = Cardinality(t.listed)
    BY <1>1, <1>5 DEF JobInv, Scores
  <1>8. Cardinality(t.done) \in Nat /\ Cardinality(t.listed) \in Nat
    BY <1>7, ScoredFinite, FS_CardinalityType
  <1>9. job \in Scoring!Job
    BY <1>4, <1>7, <1>8 DEF Scoring!Job
  <1>10. /\ Rows(explanations) /\ Further(explanations, explanations')
         /\ \A e \in t.done : Places(explanations', e.restaurant) # {}
    BY <1>5, <1>7, StoredRows DEF JobInv
  <1>11. JobTold(job, explanations')
    <2>1. CASE ~failed
      <3>1. t.left = {}
        BY <1>5, <2>1
      <3>2. job.status = "completed" /\ job.total = t.total /\ job.listed = t.listed
            /\ job.processed = Cardinality(t.done)
        BY <1>4, <2>1
      <3>3. Cardinality(t.done) = Cardinality(t.listed)
        BY <1>7, <1>8, <3>1, FS_EmptySet
      <3>4. ASSUME NEW r \in t.listed
            PROVE  Places(explanations', r) # {}
        BY <1>7, <1>10, <3>1
      <3> QED BY <1>7, <3>2, <3>3, <3>4 DEF JobTold
    <2>2. CASE failed
      <3>1. job.status = "failed" /\ job.lazy = lazy
        BY <1>4, <2>2
      <3>2. PICK r \in t.left : Scoring!Raises(t.weights, r)
        BY <1>2, <2>2
      <3>3. CASE lazy
        BY <3>1, <3>3 DEF JobTold
      <3>4. CASE ~lazy
        <4>1. Cardinality(Places(explanations, r)) > 1
          <5>1. Scoring!Rows(r) = Places(explanations, r)
            BY <1>10, RowsAre DEF Scoring!Rows, Places
          <5> QED BY <1>3, <3>2, <3>4, <5>1, ScoringCardinality DEF Scoring!Raises
        <4>2. Cardinality(Places(explanations', r)) > 1
          BY <1>10, <4>1, FurtherPlaces
        <4>3. r \in Scored
          BY <1>7
        <4> QED BY <3>1, <4>2, <4>3 DEF JobTold
      <3> QED BY <3>3, <3>4
    <2> QED BY <2>1, <2>2
  <1>12. /\ jobs' \in Seq(Scoring!Job) /\ Len(jobs') = Len(jobs) + 1 /\ Len(jobs) \in Nat
         /\ jobs'[Len(jobs) + 1] = job /\ \A k \in 1..Len(jobs) : jobs'[k] = jobs[k]
    BY <1>6, <1>9, AppendProperties, LenProperties DEF JobInv
  <1>13. \A k \in 1..Len(jobs') : \/ k \in 1..Len(jobs) /\ jobs'[k] = jobs[k]
                                  \/ JobTold(jobs'[k], explanations')
    BY <1>11, <1>12
  <1> QED BY <1>5, <1>7, <1>12, <1>13, JobStore

LEMMA JobsHold == Scoring!Spec => []JobInv
  <1>1. Scoring!Init => JobInv
    <2> SUFFICES ASSUME Scoring!Init PROVE JobInv
      OBVIOUS
    <2>1. explanations = <<>> /\ jobs = <<>> /\ DOMAIN scoreTxn = Workers
          /\ \A w \in Workers : scoreTxn[w].pc = "idle"
      BY DEF Scoring!Init, Scoring!NoTxn
    <2>2. explanations \in Seq({}) /\ Len(explanations) = 0
          /\ jobs \in Seq(Scoring!Job) /\ Len(jobs) = 0
      BY <2>1, EmptySeq
    <2>3. \A w \in Workers : Scores(scoreTxn[w], explanations, present)
      BY <2>1 DEF Scores
    <2>4. Rows(explanations) /\ OverlapsOnly(explanations)
      BY <2>2 DEF Rows, OverlapsOnly
    <2>5. \A k \in 1..Len(jobs) : JobTold(jobs[k], explanations)
      BY <2>2
    <2>6. present \subseteq Scored
      BY DEF Scoring!Init
    <2>7. jobs \in Seq(Scoring!Job)
      BY <2>2
    <2>8. DOMAIN scoreTxn = Workers
      BY <2>1
    <2> QED BY <2>3, <2>4, <2>5, <2>6, <2>7, <2>8, Zenon DEF JobInv
  <1>2. JobInv /\ [Scoring!Next]_(Scoring!vars) => JobInv'
    <2> SUFFICES ASSUME JobInv, [Scoring!Next]_(Scoring!vars)
                 PROVE  JobInv'
      OBVIOUS
    <2>1. ASSUME NEW w \in Workers, NEW t, Scoring!Step(w, t),
                 t.pc \notin {"score", "list", "recalculate"},
                 UNCHANGED <<explanations, jobs, present>>
          PROVE  JobInv'
      BY <2>1, JobStep DEF Scores
    <2>2. ASSUME NEW w \in Workers, Scoring!BeginUpdate(w)
          PROVE  JobInv'
      BY <2>1, <2>2 DEF Scoring!BeginUpdate, Scoring!db
    <2>3. ASSUME NEW w \in Workers, Scoring!Suggest(w)
          PROVE  JobInv'
      BY <2>1, <2>3 DEF Scoring!Suggest, Scoring!db
    <2>4. ASSUME NEW w \in Workers, Scoring!BeginApply(w)
          PROVE  JobInv'
      BY <2>1, <2>4 DEF Scoring!BeginApply, Scoring!db
    <2>5. ASSUME NEW w \in Workers, Scoring!CommitUpdate(w)
          PROVE  JobInv'
      BY <2>1, <2>5 DEF Scoring!CommitUpdate, Scoring!NoTxn
    <2>6. ASSUME NEW w \in Workers, Scoring!AddRule(w) \/ Scoring!Delete(w)
          PROVE  JobInv'
      BY <2>6 DEF Scoring!AddRule, Scoring!Delete, JobInv
    <2>7. ASSUME NEW w \in Workers, Scoring!BeginScore(w)
          PROVE  JobInv'
      <3>1. PICK r \in Scored :
                /\ ~Scoring!Raises(profile.weights, r)
                /\ Scoring!Step(w, [pc |-> "score",
                                    done |-> {Scoring!Evaluated(profile.weights, r)}])
        BY <2>7 DEF Scoring!BeginScore, JobInv
      <3>2. PICK e : e = Scoring!Evaluated(profile.weights, r)
        OBVIOUS
      <3>3. PICK t : t = [pc |-> "score", done |-> {e}]
        OBVIOUS
      <3>4. t.pc = "score" /\ t.done = {e}
        BY <3>3
      <3>5. Looked(e, explanations)
        BY <3>1, <3>2, EvaluatedLooked DEF JobInv
      <3>6. Scores(t, explanations, present)
        BY <3>4, <3>5, FS_Singleton DEF Scores
      <3>7. Scoring!Step(w, t)
        BY <3>1, <3>2, <3>3, Zenon
      <3> QED BY <2>7, <3>6, <3>7, JobStep DEF Scoring!BeginScore, Scoring!db
    <2>8. ASSUME NEW w \in Workers, Scoring!CommitScore(w)
          PROVE  JobInv'
      <3>1. IsFiniteSet(scoreTxn[w].done) /\ \A e \in scoreTxn[w].done : Looked(e, explanations)
        BY <2>8 DEF Scoring!CommitScore, JobInv, Scores
      <3>2. jobs' = jobs /\ jobs \in Seq(Scoring!Job)
        BY <2>8 DEF Scoring!CommitScore, JobInv
      <3> QED BY <2>8, <3>1, <3>2, JobStore DEF Scoring!CommitScore
    <2>9. ASSUME NEW w \in Workers, Scoring!BeginRecalculate(w)
          PROVE  JobInv'
      <3>1. PICK t : t = [pc |-> "list", weights |-> profile.weights,
                          total |-> Scoring!Cardinality(present)]
        OBVIOUS
      <3>2. t.pc = "list" /\ t.total = Cardinality(present)
        BY <3>1, ScoringCardinality
      <3>3. Cardinality(present) \in Nat
        BY ScoredFinite DEF JobInv
      <3>4. Scores(t, explanations, present)
        BY <3>2, <3>3 DEF Scores
      <3> QED BY <2>9, <3>1, <3>4, JobStep DEF Scoring!BeginRecalculate, Scoring!db
    <2>10. ASSUME NEW w \in Workers, Scoring!Rollback(w)
           PROVE  JobInv'
      BY <2>1, <2>10 DEF Scoring!Rollback, Scoring!NoTxn, Scoring!db
    <2>11. CASE UNCHANGED Scoring!vars
      BY <2>11 DEF Scoring!vars, Scoring!db, JobInv
    <2>12. CASE Scoring!AddRestaurant
      <3>1. /\ present \subseteq present' /\ present' \subseteq Scored
            /\ UNCHANGED <<explanations, jobs, scoreTxn>>
        BY <2>12 DEF Scoring!AddRestaurant, JobInv
      <3>2. /\ Cardinality(present) \in Nat /\ Cardinality(present') \in Nat
            /\ Cardinality(present) <= Cardinality(present')
        <4>1. IsFiniteSet(present') /\ Cardinality(present') \in Nat
              /\ Cardinality(present) \in Nat
          BY <3>1, ScoredFinite DEF JobInv
        <4> QED BY <3>1, <4>1, FS_Subset
      <3>3. ASSUME NEW t, Scores(t, explanations, present)
            PROVE  Scores(t, explanations, present')
        BY <3>2, <3>3 DEF Scores
      <3> QED BY <3>1, <3>3 DEF JobInv
    <2>13. ASSUME NEW w \in Workers, Scoring!ListRestaurants(w)
           PROVE  JobInv'
      <3>1. PICK old : old = scoreTxn[w]
        OBVIOUS
      <3>2. PICK t : t = [pc |-> "recalculate", weights |-> old.weights, total |-> old.total,
                          listed |-> present, left |-> present, done |-> {}]
        OBVIOUS
      <3>3. Scoring!Step(w, t) /\ UNCHANGED <<explanations, jobs, present>>
        BY <2>13, <3>1, <3>2 DEF Scoring!ListRestaurants, Scoring!db
      <3>4. old.total \in Nat /\ old.total <= Cardinality(present)
        BY <2>13, <3>1 DEF Scoring!ListRestaurants, JobInv, Scores
      <3>5. /\ t.pc = "recalculate" /\ t.total = old.total /\ t.listed = present
            /\ t.left = present /\ t.done = {}
            /\ DOMAIN t = {"pc", "weights", "total", "listed", "left", "done"}
        BY <3>2
      <3>6. present \subseteq Scored /\ Cardinality(present) \in Nat
        BY ScoredFinite DEF JobInv
      <3>7. Scores(t, explanations, present)
        BY <3>4, <3>5, <3>6, FS_EmptySet DEF Scores
      <3> QED BY <3>3, <3>7, JobStep
    <2> QED BY <2>2, <2>3, <2>4, <2>5, <2>6, <2>7, <2>8, <2>9, <2>10, <2>11, <2>12, <2>13,
               JobEvaluate, JobFinish DEF Scoring!Next
  <1> QED BY <1>1, <1>2, PTL DEF Scoring!Spec

\* A completed job has an explanation for each restaurant it listed, which are
\* no fewer than those it counted, whatever crawls add in between; a failed one
\* has its reason, and a restaurant has two explanations only if their scorings
\* overlapped
\* (services/scoring_engine.py, recalculate_batch and evaluate_restaurant).
THEOREM JobsTell == Scoring!Spec => []Scoring!JobsExplained
  <1>1. JobInv => Scoring!JobsExplained
    <2> SUFFICES ASSUME JobInv PROVE Scoring!JobsExplained
      OBVIOUS
    <2>1. DOMAIN explanations = 1..Len(explanations) /\ DOMAIN jobs = 1..Len(jobs)
      BY RowsAre DEF JobInv
    <2>2. \A r : Scoring!Rows(r) = Places(explanations, r)
      BY <2>1 DEF Scoring!Rows, Places
    <2> QED BY <2>1, <2>2, ScoringCardinality
            DEF JobInv, OverlapsOnly, JobTold, Scoring!JobsExplained
  <1> QED BY <1>1, JobsHold, PTL

-----------------------------------------------------------------------------
(* The types of the services.  The invariants above give most of them.      *)

LEMMA QueueTyped == Queue!Spec => []Queue!TypeOK
  <1>1. QueueInv => Queue!TypeOK
    BY DEF QueueInv
  <1>2. QueueInv /\ [Queue!Next]_(Queue!vars) => QueueInv'
    BY BackOfficeAssumption, QueueAnyStep
  <1>3. Queue!Init => QueueInv
    BY BackOfficeAssumption, QueueInit
  <1> QED BY <1>1, <1>2, <1>3, PTL DEF Queue!Spec

Overridden == overrides \subseteq [scope : ConfigScopes, value : Values]

LEMMA ConfigTyped == Config!Spec => []Config!TypeOK
  <1>1. Config!Init => SettingInv /\ Overridden
    BY SettingInit DEF Config!Init, Overridden
  <1>2. SettingInv /\ [Config!Next]_(Config!vars) => SettingInv'
    BY BackOfficeAssumption, SettingStep
  <1>3. Overridden /\ [Config!Next]_(Config!vars) => Overridden'
    <2> SUFFICES ASSUME Overridden, [Config!Next]_(Config!vars) PROVE Overridden'
      OBVIOUS
    <2>1. ASSUME NEW w \in Workers, Config!CreateOverride(w) PROVE Overridden'
      BY <2>1 DEF Config!CreateOverride, Overridden
    <2>2. CASE UNCHANGED overrides
      BY <2>2 DEF Overridden
    <2> QED BY <2>1, <2>2 DEF Config!Next, Config!vars, Config!BeginSet, Config!CountVersions,
               Config!CommitInsert,
               Config!CommitUpdate, Config!Rollback
  <1>4. SettingInv /\ Overridden => Config!TypeOK
    BY DEF SettingInv, Overridden, Config!TypeOK, Changes, SettingTxn, Entry, Config!NoTxn
  <1> QED BY <1>1, <1>2, <1>3, <1>4, PTL DEF Config!Spec

TestTypes ==
    /\ Tests!TypeOK
    /\ \A w \in Workers :
          /\ testTxn[w].pc \in {"assign", "record"} => testTxn[w].lead # None
          /\ testTxn[w].pc = "record" => testTxn[w].value # None

LEMMA TestTxnKept ==
    ASSUME TestTypes, NEW w \in Workers, NEW t \in Tests!Txn,
           t.pc \in {"assign", "record"} => t.lead # None,
           t.pc = "record" => t.value # None,
           testTxn' = [testTxn EXCEPT ![w] = t],
           status' \in {"draft", "running", "completed"}, winner' \in Variants \cup {None},
           assigned' \subseteq Leads, outcome' \in [Leads -> Tests!Metrics \cup {None}]
    PROVE  TestTypes'
  BY DEF TestTypes, Tests!TypeOK

LEMMA TestIdle == Tests!NoTxn \in Tests!Txn /\ Tests!NoTxn.pc = "idle"
  BY DEF Tests!NoTxn, Tests!Txn

LEMMA TestsTyped == Tests!Spec => []Tests!TypeOK
  <1>1. Tests!Init => TestTypes
    BY TestIdle DEF Tests!Init, TestTypes, Tests!TypeOK
  <1>2. TestTypes /\ [Tests!Next]_(Tests!vars) => TestTypes'
    <2> SUFFICES ASSUME TestTypes, [Tests!Next]_(Tests!vars) PROVE TestTypes'
      OBVIOUS
    <2>1. CASE UNCHANGED Tests!vars
      BY <2>1 DEF TestTypes, Tests!TypeOK, Tests!vars, Tests!db
    <2> SUFFICES ASSUME NEW w \in Workers,
                        \/ Tests!BeginStart(w) \/ Tests!BeginAssign(w) \/ Tests!BeginRecord(w)
                        \/ Tests!BeginDeclare(w) \/ Tests!Count(w)
                        \/ Tests!CommitStart(w) \/ Tests!CommitAssign(w)
                        \/ Tests!CommitRecord(w) \/ Tests!CommitDeclare(w)
                        \/ Tests!Rollback(w)
                 PROVE  TestTypes'
      BY <2>1 DEF Tests!Next
    <2>2. /\ status \in {"draft", "running", "completed"} /\ winner \in Variants \cup {None}
          /\ assigned \subseteq Leads /\ outcome \in [Leads -> Tests!Metrics \cup {None}]
          /\ testTxn[w] \in Tests!Txn
          /\ testTxn[w].pc \in {"assign", "record"} => testTxn[w].lead # None
          /\ testTxn[w].pc = "record" => testTxn[w].value # None
      BY DEF TestTypes, Tests!TypeOK
    <2>3. CASE Tests!BeginStart(w) \/ Tests!BeginDeclare(w)
      <3>1. PICK pc \in {"start", "count"} :
               Tests!Begin(w, [Tests!NoTxn EXCEPT !.pc = pc])
        BY <2>3 DEF Tests!BeginStart, Tests!BeginDeclare
      <3>2. PICK t : t = [Tests!NoTxn EXCEPT !.pc = pc]
        OBVIOUS
      <3>3. t \in Tests!Txn /\ t.pc = pc
        BY <3>2 DEF Tests!NoTxn, Tests!Txn
      <3> QED BY <2>2, <3>1, <3>2, <3>3, TestTxnKept DEF Tests!Begin, Tests!db
    <2>4. CASE Tests!BeginAssign(w)
      <3>1. PICK l \in Leads :
               Tests!Begin(w, [Tests!NoTxn EXCEPT !.pc = "assign", !.lead = l])
        BY <2>4 DEF Tests!BeginAssign
      <3>2. PICK t : t = [Tests!NoTxn EXCEPT !.pc = "assign", !.lead = l]
        OBVIOUS
      <3>3. t \in Tests!Txn /\ t.pc = "assign" /\ t.lead = l
        BY <3>2 DEF Tests!NoTxn, Tests!Txn
      <3>4. l # None
        BY BackOfficeAssumption DEF Tests!ExperimentAssumption
      <3> QED BY <2>2, <3>1, <3>2, <3>3, <3>4, TestTxnKept DEF Tests!Begin, Tests!db
    <2>5. CASE Tests!BeginRecord(w)
      <3>1. PICK l \in Leads, v \in Tests!Metrics :
               Tests!Begin(w, [Tests!NoTxn EXCEPT !.pc = "record", !.lead = l, !.value = v])
        BY <2>2, <2>5 DEF Tests!BeginRecord
      <3>2. PICK t : t = [Tests!NoTxn EXCEPT !.pc = "record", !.lead = l, !.value = v]
        OBVIOUS
      <3>3. t \in Tests!Txn /\ t.pc = "record" /\ t.lead = l /\ t.value = v
        BY <3>2 DEF Tests!NoTxn, Tests!Txn
      <3>4. l # None /\ v # None
        BY BackOfficeAssumption DEF Tests!ExperimentAssumption, Tests!Metrics
      <3> QED BY <2>2, <3>1, <3>2, <3>3, <3>4, TestTxnKept DEF Tests!Begin, Tests!db
    <2>6. CASE Tests!Count(w)
      <3>1. PICK a \in Variants :
               testTxn' = [testTxn EXCEPT ![w] = [Tests!NoTxn EXCEPT !.pc = "declare", !.winner = a]]
        BY <2>6 DEF Tests!Count, Tests!WithData
      <3>2. PICK t : t = [Tests!NoTxn EXCEPT !.pc = "declare", !.winner = a]
        OBVIOUS
      <3>3. t \in Tests!Txn /\ t.pc = "declare"
        BY <3>2 DEF Tests!NoTxn, Tests!Txn
      <3> QED BY <2>2, <2>6, <3>1, <3>2, <3>3, TestTxnKept DEF Tests!Count, Tests!db
    <2>7. CASE \/ Tests!CommitStart(w) \/ Tests!CommitDeclare(w) \/ Tests!Rollback(w)
      <3>1. /\ status' \in {"draft", "running", "completed"} /\ winner' \in Variants \cup {None}
            /\ UNCHANGED <<assigned, outcome>>
            /\ testTxn' = [testTxn EXCEPT ![w] = Tests!NoTxn]
        BY <2>2, <2>7 DEF Tests!CommitStart, Tests!CommitDeclare, Tests!Rollback, Tests!End, Tests!db,
           Tests!Txn
      <3> QED BY <2>2, <3>1, TestIdle, TestTxnKept
    <2>8. CASE Tests!CommitAssign(w)
      <3>1. /\ assigned' \subseteq Leads
            /\ UNCHANGED <<status, winner, outcome>>
            /\ testTxn' = [testTxn EXCEPT ![w] = Tests!NoTxn]
        BY <2>2, <2>8 DEF Tests!CommitAssign, Tests!End, Tests!Txn
      <3> QED BY <2>2, <3>1, TestIdle, TestTxnKept
    <2>9. CASE Tests!CommitRecord(w)
      <3>1. /\ outcome' \in [Leads -> Tests!Metrics \cup {None}]
            /\ UNCHANGED <<status, winner, assigned>>
            /\ testTxn' = [testTxn EXCEPT ![w] = Tests!NoTxn]
        BY <2>2, <2>9 DEF Tests!CommitRecord, Tests!End, Tests!Txn
      <3> QED BY <2>2, <3>1, TestIdle, TestTxnKept
    <2> QED BY <2>3, <2>4, <2>5, <2>6, <2>7, <2>8, <2>9
  <1>3. TestTypes => Tests!TypeOK
    BY DEF TestTypes
  <1> QED BY <1>1, <1>2, <1>3, PTL DEF Tests!Spec

PromptKeeps(t, rows) ==
    /\ t.pc = "update" => t.version \in 1..(MaxVersion - 1)
    /\ t.pc \in {"update", "target", "rollback"} => t.version \in rows

PromptTypes ==
    /\ Prompts!TypeOK
    /\ stored # {} => 1 \in stored
    /\ \A w \in Workers : PromptKeeps(promptTxn[w], stored)

LEMMA PromptIdle ==
    /\ MaxVersion \in Nat /\ MaxVersion >= 1
    /\ Prompts!NoTxn \in Prompts!Txn /\ \A rows : PromptKeeps(Prompts!NoTxn, rows)
  BY BackOfficeAssumption DEF Prompts!PromptAssumption, Prompts!NoTxn, Prompts!Txn, PromptKeeps

LEMMA PromptTxnKept ==
    ASSUME PromptTypes, NEW w \in Workers, NEW t \in Prompts!Txn, PromptKeeps(t, stored),
           Prompts!Step(w, t)
    PROVE  PromptTypes'
  <1>1. /\ promptTxn' \in [Workers -> Prompts!Txn]
        /\ \A v \in Workers : promptTxn'[v] = t \/ promptTxn'[v] = promptTxn[v]
        /\ UNCHANGED <<stored, active, raced, back>>
    BY DEF PromptTypes, Prompts!TypeOK, Prompts!Step, Prompts!db
  <1>2. QED
    BY <1>1 DEF PromptTypes, Prompts!TypeOK, PromptKeeps

LEMMA PromptTxnsEnd ==
    ASSUME PromptTypes, NEW w \in Workers, Prompts!End(w), stored \subseteq stored',
           stored' \subseteq Prompts!Versions, active' \subseteq stored', raced' \in BOOLEAN,
           back' \in BOOLEAN, 1 \in stored'
    PROVE  PromptTypes'
  <1>1. Prompts!NoTxn \in Prompts!Txn /\ \A rows : PromptKeeps(Prompts!NoTxn, rows)
    BY PromptIdle
  <1>2. ASSUME NEW v \in Workers
        PROVE  /\ [promptTxn[v] EXCEPT !.alone = FALSE] \in Prompts!Txn
               /\ PromptKeeps([promptTxn[v] EXCEPT !.alone = FALSE], stored')
    BY DEF PromptTypes, Prompts!TypeOK, PromptKeeps, Prompts!Txn
  <1>3. promptTxn' \in [Workers -> Prompts!Txn]
    BY <1>1, <1>2 DEF Prompts!End
  <1>4. \A v \in Workers : PromptKeeps(promptTxn'[v], stored')
    BY <1>1, <1>2 DEF Prompts!End
  <1>5. QED
    BY <1>3, <1>4 DEF PromptTypes, Prompts!TypeOK

LEMMA PromptsTyped == Prompts!Spec => []Prompts!TypeOK
  <1>1. Prompts!Init => PromptTypes
    BY PromptIdle DEF Prompts!Init, PromptTypes, Prompts!TypeOK
  <1>2. PromptTypes /\ [Prompts!Next]_(Prompts!vars) => PromptTypes'
    <2> SUFFICES ASSUME PromptTypes, [Prompts!Next]_(Prompts!vars) PROVE PromptTypes'
      OBVIOUS
    <2>1. CASE UNCHANGED Prompts!vars
      BY <2>1 DEF PromptTypes, Prompts!TypeOK, Prompts!vars, Prompts!db
    <2> SUFFICES ASSUME NEW w \in Workers,
                        \/ Prompts!BeginCreate(w) \/ Prompts!CommitCreate(w)
                        \/ Prompts!BeginUpdate(w) \/ Prompts!CommitUpdate(w)
                        \/ Prompts!BeginRollback(w) \/ Prompts!ReadOthers(w)
                        \/ Prompts!CommitRollback(w) \/ Prompts!Abort(w)
                 PROVE  PromptTypes'
      BY <2>1 DEF Prompts!Next
    <2>2. MaxVersion \in Nat /\ MaxVersion >= 1
      BY PromptIdle
    <2>3. promptTxn[w] \in Prompts!Txn
      BY DEF PromptTypes, Prompts!TypeOK
    <2>4. CASE Prompts!BeginCreate(w) \/ Prompts!Abort(w)
      <3>1. \E t \in {Prompts!NoTxn, [Prompts!NoTxn EXCEPT !.pc = "create", !.version = 1]} :
               Prompts!Step(w, t)
        BY <2>4 DEF Prompts!BeginCreate, Prompts!Abort
      <3>2. PICK t : t = [Prompts!NoTxn EXCEPT !.pc = "create", !.version = 1]
        OBVIOUS
      <3>3. t.pc = "create" /\ t.version = 1 /\ 1 \in 0..MaxVersion
        BY <2>2, <3>2 DEF Prompts!NoTxn
      <3>4. t \in Prompts!Txn
        BY <3>2, <3>3 DEF Prompts!NoTxn, Prompts!Txn
      <3>5. PromptKeeps(t, stored)
        BY <3>1, <3>3 DEF PromptKeeps
      <3> QED BY <3>1, <3>2, <3>4, <3>5, PromptIdle, PromptTxnKept
    <2>5. CASE Prompts!BeginUpdate(w)
      <3>1. PICK v \in 1..(MaxVersion - 1) :
               /\ v \in stored
               /\ Prompts!Step(w, [Prompts!NoTxn EXCEPT !.pc = "update", !.version = v])
        BY <2>5 DEF Prompts!BeginUpdate, PromptTypes, Prompts!TypeOK
      <3>2. PICK t : t = [Prompts!NoTxn EXCEPT !.pc = "update", !.version = v]
        OBVIOUS
      <3>3. t.pc = "update" /\ t.version = v /\ v \in 0..MaxVersion
        BY <2>2, <3>1, <3>2 DEF Prompts!NoTxn
      <3>4. t \in Prompts!Txn
        BY <3>2, <3>3 DEF Prompts!NoTxn, Prompts!Txn
      <3>5. PromptKeeps(t, stored)
        BY <3>1, <3>3 DEF PromptKeeps
      <3> QED BY <3>1, <3>2, <3>4, <3>5, PromptTxnKept
    <2>6. CASE Prompts!BeginRollback(w)
      <3>1. PICK v \in stored :
               Prompts!Step(w, [Prompts!NoTxn EXCEPT !.pc = "target", !.version = v, !.on = v \in active])
        BY <2>6 DEF Prompts!BeginRollback
      <3>2. PICK t : t = [Prompts!NoTxn EXCEPT !.pc = "target", !.version = v, !.on = v \in active]
        OBVIOUS
      <3>3. t \in Prompts!Txn /\ PromptKeeps(t, stored)
        <4>1. v \in 0..MaxVersion
          BY <2>2 DEF PromptTypes, Prompts!TypeOK, Prompts!Versions
        <4>2. (v \in active) \in BOOLEAN
          OBVIOUS
        <4> QED BY <3>2, <4>1, <4>2 DEF Prompts!NoTxn, Prompts!Txn, PromptKeeps
      <3> QED BY <3>1, <3>2, <3>3, PromptTxnKept
    <2>7. CASE Prompts!ReadOthers(w)
      <3>1. PICK t : /\ t = [promptTxn[w] EXCEPT !.pc = "rollback",
                                                 !.off = active \ {promptTxn[w].version}]
                     /\ promptTxn[w].pc = "target"
                     /\ Prompts!Step(w, t)
        BY <2>7 DEF Prompts!ReadOthers
      <3>2. t \in Prompts!Txn /\ PromptKeeps(t, stored)
        BY <2>3, <3>1 DEF PromptTypes, Prompts!TypeOK, Prompts!Txn, PromptKeeps
      <3> QED BY <3>1, <3>2, PromptTxnKept
    <2>8. CASE Prompts!CommitCreate(w)
      <3>1. /\ stored = {} /\ stored' = {1} /\ active' = {1}
            /\ Prompts!End(w) /\ raced' \in BOOLEAN /\ back' \in BOOLEAN
        BY <2>3, <2>8 DEF Prompts!CommitCreate, Prompts!Txn, PromptTypes, Prompts!TypeOK
      <3> QED BY <2>2, <3>1, PromptTxnsEnd DEF Prompts!Versions
    <2>9. CASE Prompts!CommitUpdate(w)
      <3>1. PICK v : v = promptTxn[w].version
        OBVIOUS
      <3>2. /\ stored' = stored \cup {v + 1}
            /\ active' = (active \ {v}) \cup {v + 1}
            /\ Prompts!End(w) /\ promptTxn[w].pc = "update"
            /\ raced' = (raced \/ ~promptTxn[w].alone) /\ back' = back
        BY <2>9, <3>1 DEF Prompts!CommitUpdate
      <3>3. v \in 1..(MaxVersion - 1)
        BY <3>1, <3>2 DEF PromptTypes, PromptKeeps
      <3>4. v \in stored /\ 1 \in stored'
        BY <3>1, <3>2 DEF PromptTypes, PromptKeeps
      <3>5. v + 1 \in Prompts!Versions
        BY <2>2, <3>3 DEF Prompts!Versions
      <3>6. stored \subseteq Prompts!Versions /\ active \subseteq stored
        BY DEF PromptTypes, Prompts!TypeOK
      <3>7. raced' \in BOOLEAN /\ back' \in BOOLEAN
        BY <3>2 DEF PromptTypes, Prompts!TypeOK
      <3> QED BY <3>2, <3>4, <3>5, <3>6, <3>7, PromptTxnsEnd
    <2>10. CASE Prompts!CommitRollback(w)
      <3>1. /\ promptTxn[w].version \in stored /\ stored' = stored
            /\ active' \subseteq active \cup {promptTxn[w].version}
            /\ Prompts!End(w) /\ raced' \in BOOLEAN /\ back' \in BOOLEAN
        BY <2>3, <2>10 DEF Prompts!CommitRollback, Prompts!Txn, PromptTypes, Prompts!TypeOK, PromptKeeps
      <3> QED BY <3>1, PromptTxnsEnd DEF PromptTypes, Prompts!TypeOK
    <2> QED BY <2>4, <2>5, <2>6, <2>7, <2>8, <2>9, <2>10
  <1>3. PromptTypes => Prompts!TypeOK
    BY DEF PromptTypes
  <1> QED BY <1>1, <1>2, <1>3, PTL DEF Prompts!Spec

Counted(t) ==
    /\ t.pc \in {"idle", "insert", "write", "contacted", "responded", "converted", "lookup",
                 "store"}
    /\ t.pc \in {"contacted", "responded", "converted"} => t.total \in Nat
    /\ t.pc \in {"responded", "converted"} => t.contacted \in Nat
    /\ t.pc = "converted" => t.responded \in Nat
    /\ t.pc \in {"lookup", "store"} => t.row \in Outreach!Performance

\* The figures a transaction has counted so far are numbers.
CampaignTypes ==
    /\ exists \in BOOLEAN /\ commits \in 0..MaxCommits
    /\ performance # None => exists /\ performance \in Outreach!Performance
    /\ DOMAIN campaignTxn = Workers
    /\ \A w \in Workers : Counted(campaignTxn[w])

LEMMA CampaignStep ==
    ASSUME CampaignTypes, NEW w \in Workers, NEW t, Counted(t), Outreach!Step(w, t),
           UNCHANGED <<exists, commits, performance>>
    PROVE  CampaignTypes'
  BY DEF CampaignTypes, Outreach!Step

LEMMA CampaignChange ==
    ASSUME CampaignTypes, NEW w \in Workers, Outreach!Change(w),
           \/ exists' = exists /\ performance' = performance
           \/ exists' = FALSE /\ performance' = None
    PROVE  CampaignTypes'
  <1>1. commits' \in 0..MaxCommits
    BY BackOfficeAssumption DEF CampaignTypes, Outreach!Change, Outreach!CampaignAssumption
  <1>2. Counted(Outreach!NoTxn)
    BY DEF Counted, Outreach!NoTxn
  <1> QED BY <1>1, <1>2 DEF CampaignTypes, Outreach!Change, Outreach!Step

LEMMA TargetsFinite ==
    \A S : /\ Outreach!Cardinality(Outreach!With(S)) \in Nat
           /\ Outreach!Cardinality(Outreach!Chosen) \in Nat
  <1>1. IsFiniteSet(Invited)
    BY BackOfficeAssumption, SameCounts DEF Outreach!CampaignAssumption
  <1>2. Outreach!Chosen \subseteq Invited /\ \A S : Outreach!With(S) \subseteq Invited
    BY DEF Outreach!Chosen, Outreach!With
  <1> QED BY <1>1, <1>2, SameCounts, FS_Subset, FS_CardinalityType

\* Every column of an UPDATE is a number, counted or left.
LEMMA CalculatedTyped ==
    ASSUME NEW t, t.row \in Outreach!Performance, performance \in Outreach!Performance
    PROVE  Outreach!Calculated(t) \in Outreach!Performance
  <1>1. \A c \in Outreach!Columns : t.row[c] \in Nat /\ performance[c] \in Nat
    BY DEF Outreach!Columns, Outreach!Performance
  <1>2. /\ Outreach!Column(t, "total") \in Nat /\ Outreach!Column(t, "contacted") \in Nat
        /\ Outreach!Column(t, "responded") \in Nat /\ Outreach!Column(t, "converted") \in Nat
    BY <1>1 DEF Outreach!Column, Outreach!Columns
  <1>3. PICK calm : calm = (t.row.calm /\ \A c \in Outreach!Columns : performance[c] = t.read[c])
    OBVIOUS
  <1>4. calm \in BOOLEAN
    BY <1>3
  <1> QED BY <1>2, <1>3, <1>4 DEF Outreach!Calculated, Outreach!Performance

LEMMA CampaignsTyped == Outreach!Spec => []Outreach!TypeOK
  <1>1. Outreach!Init => CampaignTypes
    BY BackOfficeAssumption DEF Outreach!Init, CampaignTypes, Counted, Outreach!NoTxn,
       Outreach!CampaignAssumption
  <1>2. CampaignTypes /\ [Outreach!Next]_(Outreach!vars) => CampaignTypes'
    <2> SUFFICES ASSUME CampaignTypes, [Outreach!Next]_(Outreach!vars) PROVE CampaignTypes'
      OBVIOUS
    <2>1. CASE UNCHANGED Outreach!vars
      BY <2>1 DEF CampaignTypes, Outreach!vars
    <2>2. ASSUME NEW w \in Workers, NEW t, Outreach!Step(w, t), t.pc \in {"insert", "write", "idle"},
                 UNCHANGED <<exists, commits, performance>>
          PROVE  CampaignTypes'
      BY <2>2, CampaignStep DEF Counted
    <2>3. ASSUME NEW w \in Workers,
                 Outreach!BeginSelect(w) \/ Outreach!BeginAdd(w) \/ Outreach!Rollback(w)
          PROVE  CampaignTypes'
      BY <2>2, <2>3 DEF Outreach!BeginSelect, Outreach!BeginAdd, Outreach!Rollback, Outreach!NoTxn
    <2>4. ASSUME NEW w \in Workers, Outreach!BeginLog(w)
          PROVE  CampaignTypes'
      BY <2>2, <2>4 DEF Outreach!BeginLog
    <2>5. ASSUME NEW w \in Workers, Outreach!BeginSetStatus(w)
          PROVE  CampaignTypes'
      BY <2>2, <2>5 DEF Outreach!BeginSetStatus
    <2>6. ASSUME NEW w \in Workers,
                 Outreach!CommitInsert(w) \/ Outreach!CommitWrite(w) \/ Outreach!DeleteCampaign(w)
          PROVE  CampaignTypes'
      <3>1. /\ Outreach!Change(w)
            /\ \/ exists' = exists /\ performance' = performance
               \/ exists' = FALSE /\ performance' = None
        <4>1. CASE Outreach!CommitInsert(w)
          BY <4>1 DEF Outreach!CommitInsert
        <4>2. CASE Outreach!CommitWrite(w)
          BY <4>2 DEF Outreach!CommitWrite
        <4>3. CASE Outreach!DeleteCampaign(w)
          BY <4>3 DEF Outreach!DeleteCampaign
        <4> QED BY <2>6, <4>1, <4>2, <4>3
      <3> QED BY <3>1, CampaignChange
    <2>7. ASSUME NEW w \in Workers, Outreach!CountTotal(w)
          PROVE  CampaignTypes'
      <3>1. PICK t : /\ t = [pc |-> "contacted", from |-> commits,
                             total |-> Outreach!Cardinality(Outreach!Chosen)]
                     /\ Outreach!Step(w, t) /\ UNCHANGED <<exists, commits, performance>>
        BY <2>7 DEF Outreach!CountTotal
      <3>2. Counted(t)
        BY <3>1, TargetsFinite DEF Counted
      <3> QED BY <3>1, <3>2, CampaignStep
    <2>8. ASSUME NEW w \in Workers, Outreach!CountContacted(w)
          PROVE  CampaignTypes'
      <3>1. PICK s : s = campaignTxn[w]
        OBVIOUS
      <3>2. PICK n : n = Outreach!Cardinality(Outreach!With(Outreach!ContactedOrFurther))
        OBVIOUS
      <3>3. PICK t : /\ t = [pc |-> "responded", from |-> s.from, total |-> s.total, contacted |-> n]
                     /\ s.pc = "contacted"
                     /\ Outreach!Step(w, t) /\ UNCHANGED <<exists, commits, performance>>
        BY <2>8, <3>1, <3>2 DEF Outreach!CountContacted
      <3>4. n \in Nat /\ s.total \in Nat
        BY <3>1, <3>2, <3>3, TargetsFinite DEF CampaignTypes, Counted
      <3>5. Counted(t)
        BY <3>3, <3>4 DEF Counted
      <3> QED BY <3>3, <3>5, CampaignStep
    <2>9. ASSUME NEW w \in Workers, Outreach!CountResponded(w)
          PROVE  CampaignTypes'
      <3>1. PICK s : s = campaignTxn[w]
        OBVIOUS
      <3>2. PICK n : n = Outreach!Cardinality(Outreach!With({"responded", "converted"}))
        OBVIOUS
      <3>3. PICK t : /\ t = [pc |-> "converted", from |-> s.from, total |-> s.total,
                             contacted |-> s.contacted, responded |-> n]
                     /\ s.pc = "responded"
                     /\ Outreach!Step(w, t) /\ UNCHANGED <<exists, commits, performance>>
        BY <2>9, <3>1, <3>2 DEF Outreach!CountResponded
      <3>4. n \in Nat /\ s.total \in Nat /\ s.contacted \in Nat
        BY <3>1, <3>2, <3>3, TargetsFinite DEF CampaignTypes, Counted
      <3>5. Counted(t)
        BY <3>3, <3>4 DEF Counted
      <3> QED BY <3>3, <3>5, CampaignStep
    <2>10. ASSUME NEW w \in Workers, Outreach!CountConverted(w)
           PROVE  CampaignTypes'
      <3>1. PICK s : s = campaignTxn[w]
        OBVIOUS
      <3>2. PICK n : n = Outreach!Cardinality(Outreach!With({"converted"}))
        OBVIOUS
      <3>3. PICK calm : calm = (commits = s.from)
        OBVIOUS
      <3>4. PICK row : row = [total |-> s.total, contacted |-> s.contacted,
                              responded |-> s.responded, converted |-> n, calm |-> calm]
        OBVIOUS
      <3>5. PICK t : /\ t.pc = "lookup" /\ t.row = row
                     /\ s.pc = "converted"
                     /\ Outreach!Step(w, t) /\ UNCHANGED <<exists, commits, performance>>
        <4>1. PICK t : t = [pc |-> "lookup", row |-> row]
          OBVIOUS
        <4>2. t.pc = "lookup" /\ t.row = row
          BY <4>1
        <4> QED BY <2>10, <3>1, <3>2, <3>3, <3>4, <4>1, <4>2, Zenon DEF Outreach!CountConverted
      <3>6. n \in Nat /\ s.total \in Nat /\ s.contacted \in Nat /\ s.responded \in Nat
        BY <3>1, <3>2, <3>5, TargetsFinite DEF CampaignTypes, Counted
      <3>7. calm \in BOOLEAN
        BY <3>3
      <3>8. row \in Outreach!Performance
        BY <3>4, <3>6, <3>7 DEF Outreach!Performance
      <3>9. Counted(t)
        BY <3>5, <3>8 DEF Counted
      <3> QED BY <3>5, <3>9, CampaignStep
    <2>11. ASSUME NEW w \in Workers, Outreach!StorePerformance(w)
           PROVE  CampaignTypes'
      <3>1. /\ campaignTxn[w].pc = "store" /\ exists
            /\ \/ performance' = campaignTxn[w].row
               \/ performance # None /\ performance' = Outreach!Calculated(campaignTxn[w])
            /\ campaignTxn' = [campaignTxn EXCEPT ![w] = Outreach!NoTxn]
            /\ UNCHANGED <<exists, commits>>
        BY <2>11 DEF Outreach!StorePerformance, Outreach!Step
      <3>4. campaignTxn[w].row \in Outreach!Performance
        BY <3>1 DEF CampaignTypes, Counted
      <3>5. performance # None => Outreach!Calculated(campaignTxn[w]) \in Outreach!Performance
        BY <3>4, CalculatedTyped DEF CampaignTypes
      <3>2. performance' \in Outreach!Performance
        BY <3>1, <3>4, <3>5
      <3>3. Counted(Outreach!NoTxn)
        BY DEF Counted, Outreach!NoTxn
      <3> QED BY <3>1, <3>2, <3>3 DEF CampaignTypes
    <2>12. ASSUME NEW w \in Workers, Outreach!LookUp(w)
           PROVE  CampaignTypes'
      <3>1. PICK t : t = [pc |-> "store", row |-> campaignTxn[w].row, read |-> performance]
        OBVIOUS
      <3>2. /\ campaignTxn[w].pc = "lookup" /\ Outreach!Step(w, t)
            /\ UNCHANGED <<exists, commits, performance>>
        BY <2>12, <3>1 DEF Outreach!LookUp
      <3>3. Counted(t)
        BY <3>1, <3>2 DEF CampaignTypes, Counted
      <3> QED BY <3>2, <3>3, CampaignStep
    <2> QED BY <2>1, <2>3, <2>4, <2>5, <2>6, <2>7, <2>8, <2>9, <2>10, <2>11, <2>12
            DEF Outreach!Next
  <1>3. TargetInv /\ CampaignTypes => Outreach!TypeOK
    BY DEF TargetInv, CampaignTypes, Counted, Outreach!TypeOK, Outreach!Chosen
  <1> QED BY <1>1, <1>2, <1>3, TargetsHold, PTL DEF Outreach!Spec

CrmTypes ==
    /\ log \in Seq(Crm!Entry) /\ Len(log) <= MaxWrites
    /\ queue \subseteq Crm!Batch
    /\ DOMAIN crmTxn = Workers
    /\ \A w \in Workers :
          /\ crmTxn[w].pc \in {"idle", "write", "batch"}
          /\ crmTxn[w].pc = "batch" => crmTxn[w].batch \in Crm!Batch

LEMMA CrmTypesStep ==
    ASSUME CrmTypes, NEW w \in Workers, NEW t, Crm!Step(w, t), log' = log,
           t.pc \in {"idle", "write"} \/ (t.pc = "batch" /\ t.batch \in Crm!Batch),
           queue' \subseteq Crm!Batch
    PROVE  CrmTypes'
  <1>1. DOMAIN crmTxn' = Workers /\ \A v \in Workers : crmTxn'[v] = IF v = w THEN t ELSE crmTxn[v]
    BY DEF CrmTypes, Crm!Step
  <1>2. \A v \in Workers :
          /\ crmTxn'[v].pc \in {"idle", "write", "batch"}
          /\ crmTxn'[v].pc = "batch" => crmTxn'[v].batch \in Crm!Batch
    BY <1>1 DEF CrmTypes
  <1> QED BY <1>1, <1>2 DEF CrmTypes

LEMMA CrmTypesCommit ==
    ASSUME CrmTypes, NEW w \in Workers, NEW more \in Seq(Crm!Entry), Crm!Commit(w, more),
           queue' = queue
    PROVE  CrmTypes'
  <1>1. log' = log \o more /\ Len(log) + Len(more) <= MaxWrites /\ Crm!Step(w, Crm!NoTxn)
    BY DEF Crm!Commit
  <1>2. log' \in Seq(Crm!Entry) /\ Len(log') <= MaxWrites
    BY <1>1 DEF CrmTypes
  <1>3. DOMAIN crmTxn' = Workers /\ \A v \in Workers : crmTxn'[v] \in {crmTxn[v], Crm!NoTxn}
    BY <1>1 DEF CrmTypes, Crm!Step
  <1>4. Crm!NoTxn.pc = "idle"
    BY DEF Crm!NoTxn
  <1> QED BY <1>2, <1>3, <1>4 DEF CrmTypes

LEMMA CrmTyped ==
    ASSUME Crm!HistoryAssumption
    PROVE  Crm!Spec => []Crm!TypeOK
  <1>1. Crm!Init => CrmTypes
    <2> SUFFICES ASSUME Crm!Init PROVE CrmTypes
      OBVIOUS
    <2>1. log = <<>> /\ queue = {} /\ MaxWrites \in Nat
      BY DEF Crm!Init, Crm!HistoryAssumption
    <2>2. DOMAIN crmTxn = Workers /\ \A w \in Workers : crmTxn[w].pc = "idle"
      BY DEF Crm!Init, Crm!NoTxn
    <2> QED BY <2>1, <2>2 DEF CrmTypes
  <1>2. CrmInv /\ CrmTypes /\ [Crm!Next]_(Crm!vars) => CrmTypes'
    <2> SUFFICES ASSUME CrmInv, CrmTypes, [Crm!Next]_(Crm!vars) PROVE CrmTypes'
      OBVIOUS
    <2>1. CASE UNCHANGED Crm!vars
      BY <2>1 DEF CrmTypes, Crm!vars
    <2>2. CASE Crm!MoveDeal
      BY <2>2 DEF Crm!MoveDeal, CrmTypes
    <2>3. CASE Crm!Post
      BY <2>3 DEF Crm!Post, CrmTypes
    <2>4. ASSUME NEW w \in Workers, NEW e,
                 Crm!Step(w, [pc |-> "write", entry |-> e]), UNCHANGED <<log, queue>>
          PROVE  CrmTypes'
      <3>1. PICK t : t = [pc |-> "write", entry |-> e]
        OBVIOUS
      <3>2. t.pc = "write" /\ Crm!Step(w, t) /\ queue' \subseteq Crm!Batch /\ log' = log
        BY <2>4, <3>1 DEF CrmTypes
      <3> QED BY <3>2, CrmTypesStep
    <2>5. ASSUME NEW w \in Workers, Crm!BeginSet(w)
          PROVE  CrmTypes'
      BY <2>4, <2>5 DEF Crm!BeginSet
    <2>6. ASSUME NEW w \in Workers, Crm!BeginQualify(w)
          PROVE  CrmTypes'
      BY <2>4, <2>6 DEF Crm!BeginQualify
    <2>7. ASSUME NEW w \in Workers, Crm!CommitWrite(w)
          PROVE  CrmTypes'
      <3>1. /\ crmTxn[w].pc = "write" /\ Crm!Commit(w, <<crmTxn[w].entry>>)
            /\ queue' = queue
        BY <2>7 DEF Crm!CommitWrite
      <3>2. crmTxn[w].entry \in Crm!Entry
        BY <3>1 DEF CrmInv, CrmTxnOK, Crm!NoTxn
      <3>3. <<crmTxn[w].entry>> \in Seq(Crm!Entry)
        BY <3>2
      <3> QED BY <3>1, <3>3, CrmTypesCommit
    <2>8. ASSUME NEW w \in Workers, Crm!TakeBatch(w)
          PROVE  CrmTypes'
      <3>1. PICK b \in queue :
                /\ queue' = queue \ {b}
                /\ Crm!Step(w, [pc |-> "batch", batch |-> b, left |-> b, read |-> value,
                                seen |-> Len(log), entries |-> <<>>])
        BY <2>8 DEF Crm!TakeBatch
      <3>2. PICK t : t = [pc |-> "batch", batch |-> b, left |-> b, read |-> value,
                          seen |-> Len(log), entries |-> <<>>]
        OBVIOUS
      <3>3. t.pc = "batch" /\ t.batch = b /\ b \in Crm!Batch /\ queue' \subseteq Crm!Batch
        BY <3>1, <3>2 DEF CrmTypes
      <3>4. log' = log
        BY <2>8 DEF Crm!TakeBatch
      <3> QED BY <3>1, <3>2, <3>3, <3>4, CrmTypesStep
    <2>9. ASSUME NEW w \in Workers, Crm!HandleEvent(w)
          PROVE  CrmTypes'
      <3>1. PICK s : s = crmTxn[w]
        OBVIOUS
      <3>2. PICK left, more :
                /\ s.pc = "batch"
                /\ Crm!Step(w, [s EXCEPT !.left = left, !.entries = more])
        BY <2>9, <3>1 DEF Crm!HandleEvent
      <3>3. PICK t : t = [s EXCEPT !.left = left, !.entries = more]
        OBVIOUS
      <3>4. PICK batch, rest, read, seen, entries :
                s = [pc |-> "batch", batch |-> batch, left |-> rest, read |-> read,
                     seen |-> seen, entries |-> entries]
        BY <3>1, <3>2 DEF CrmInv, CrmTxnOK, Crm!NoTxn
      <3>5. t.pc = "batch" /\ t.batch = s.batch
        BY <3>3, <3>4
      <3>6. s.batch \in Crm!Batch
        BY <3>1, <3>2 DEF CrmTypes
      <3>7. log' = log /\ queue' = queue
        BY <2>9 DEF Crm!HandleEvent
      <3>8. queue' \subseteq Crm!Batch
        BY <3>7 DEF CrmTypes
      <3> QED BY <3>2, <3>3, <3>5, <3>6, <3>7, <3>8, CrmTypesStep
    <2>10. ASSUME NEW w \in Workers, Crm!CommitBatch(w)
           PROVE  CrmTypes'
      <3>1. crmTxn[w].pc = "batch" /\ Crm!Commit(w, crmTxn[w].entries) /\ queue' = queue
        BY <2>10 DEF Crm!CommitBatch
      <3>2. crmTxn[w].entries \in Seq(Crm!Entry)
        BY <3>1 DEF CrmInv, CrmTxnOK, Crm!NoTxn
      <3> QED BY <3>1, <3>2, CrmTypesCommit
    <2>11. ASSUME NEW w \in Workers, Crm!Rollback(w)
           PROVE  CrmTypes'
      <3>1. /\ queue' \in IF crmTxn[w].pc = "batch" THEN {queue, queue \cup {crmTxn[w].batch}}
                          ELSE {queue}
            /\ Crm!Step(w, Crm!NoTxn) /\ log' = log
        BY <2>11 DEF Crm!Rollback
      <3>2. queue' \subseteq Crm!Batch
        BY <3>1 DEF CrmTypes
      <3>3. Crm!NoTxn.pc = "idle"
        BY DEF Crm!NoTxn
      <3> QED BY <3>1, <3>2, <3>3, CrmTypesStep
    <2> QED BY <2>1, <2>2, <2>3, <2>5, <2>6, <2>7, <2>8, <2>9, <2>10, <2>11 DEF Crm!Next
  <1>3. CrmInv /\ CrmTypes => Crm!TypeOK
    <2> SUFFICES ASSUME CrmInv, CrmTypes PROVE Crm!TypeOK
      OBVIOUS
    <2>1. ASSUME NEW w \in Workers
          PROVE  /\ crmTxn[w].pc = "write" => crmTxn[w].entry \in Crm!Entry
                 /\ crmTxn[w].pc = "batch" => crmTxn[w].entries \in Seq(Crm!Entry)
      BY DEF CrmInv, CrmTxnOK, Crm!NoTxn
    <2> QED BY <2>1 DEF CrmInv, CrmTypes, Crm!TypeOK
  <1> QED BY <1>1, <1>2, <1>3, CrmInductive, PTL DEF Crm!Spec

\* Where a transaction may be.
AgentPlaces == \A w \in Workers : agentTxn[w].pc \in {"idle", "stages"}

LEMMA AgentsTyped == Agents!Spec => []Agents!TypeOK
  <1>1. Agents!Init => AgentPlaces
    BY DEF Agents!Init, AgentPlaces, Agents!NoTxn
  <1>2. AgentInv /\ AgentPlaces /\ [Agents!Next]_(Agents!vars) => AgentPlaces'
    <2> SUFFICES ASSUME AgentInv, AgentPlaces, [Agents!Next]_(Agents!vars) PROVE AgentPlaces'
      OBVIOUS
    <2>1. CASE UNCHANGED Agents!vars
      BY <2>1 DEF AgentPlaces, Agents!vars
    <2>2. ASSUME NEW w \in Workers, NEW t, Agents!Step(w, t), t.pc \in {"idle", "stages"}
          PROVE  AgentPlaces'
      BY <2>2 DEF AgentPlaces, AgentInv, Agents!Step
    <2>3. ASSUME NEW w \in Workers, Agents!StartAgent(w)
          PROVE  AgentPlaces'
      BY <2>2, <2>3 DEF Agents!StartAgent
    <2>4. ASSUME NEW w \in Workers, Agents!StartPipeline(w)
          PROVE  AgentPlaces'
      BY <2>2, <2>4 DEF Agents!StartPipeline
    <2>5. ASSUME NEW w \in Workers, Agents!RunStage(w)
          PROVE  AgentPlaces'
      <3>1. PICK row : Agents!Step(w, Agents!Ran(agentTxn[w], row))
        BY <2>5 DEF Agents!RunStage
      <3>2. Agents!Ran(agentTxn[w], row).pc = "stages"
        BY DEF Agents!Ran
      <3> QED BY <2>2, <3>1, <3>2
    <2>6. ASSUME NEW w \in Workers, Agents!CommitRun(w) \/ Agents!Rollback(w)
          PROVE  AgentPlaces'
      BY <2>2, <2>6 DEF Agents!CommitRun, Agents!Rollback, Agents!NoTxn
    <2> QED BY <2>1, <2>3, <2>4, <2>5, <2>6 DEF Agents!Next
  <1>3. AgentInv /\ AgentPlaces => Agents!TypeOK
    BY DEF AgentInv, AgentPlaces, Agents!TypeOK
  <1> QED BY <1>1, <1>2, <1>3, AgentsHold, PTL DEF Agents!Spec

HealthTypes ==
    /\ anomalies \subseteq (DOMAIN writes) \X {"high_bounce", "high_complaint", "volume_drop"}
    /\ \A w \in Workers :
          /\ healthTxn[w].pc \in {"idle", "write"}
          /\ healthTxn[w].pc = "write" =>
                healthTxn[w].types \subseteq {"high_bounce", "high_complaint", "volume_drop"}

LEMMA HealthTyped == Health!Spec => []Health!TypeOK
  <1>1. Health!Init => HealthTypes
    BY DEF Health!Init, HealthTypes, Health!NoTxn
  <1>2. HealthInv /\ HealthTypes /\ [Health!Next]_(Health!vars) => HealthTypes'
    <2> SUFFICES ASSUME HealthInv, HealthTypes, [Health!Next]_(Health!vars) PROVE HealthTypes'
      OBVIOUS
    <2> DEFINE kinds == {"high_bounce", "high_complaint", "volume_drop"}
    <2>1. CASE UNCHANGED Health!vars
      BY <2>1 DEF HealthTypes, Health!vars
    <2>2. ASSUME NEW w \in Workers, NEW t, Health!Step(w, t), t.pc \in {"idle", "write"},
                 t.pc = "write" => t.types \subseteq kinds
          PROVE  \A v \in Workers :
                    /\ healthTxn'[v].pc \in {"idle", "write"}
                    /\ healthTxn'[v].pc = "write" => healthTxn'[v].types \subseteq kinds
      BY <2>2 DEF HealthTypes, HealthInv, Health!Step
    <2>3. ASSUME NEW w \in Workers, NEW types, types \subseteq kinds, NEW entry,
                 Health!Step(w, [pc |-> "write", types |-> types, write |-> entry]),
                 UNCHANGED <<writes, anomalies>>
          PROVE  HealthTypes'
      <3>1. PICK t : t = [pc |-> "write", types |-> types, write |-> entry]
        OBVIOUS
      <3>2. t.pc = "write" /\ t.types = types
        BY <3>1
      <3> QED BY <2>2, <2>3, <3>1, <3>2 DEF HealthTypes
    <2>4. ASSUME NEW w \in Workers, Health!BeginHealth(w)
          PROVE  HealthTypes'
      <3>1. \A m : Health!Anomalies(m) \subseteq kinds
        BY DEF Health!Anomalies
      <3> QED BY <2>3, <2>4, <3>1, Zenon DEF Health!BeginHealth
    <2>5. ASSUME NEW w \in Workers, Health!BeginSetStatus(w)
          PROVE  HealthTypes'
      <3>1. {} \subseteq kinds
        OBVIOUS
      <3> QED BY <2>3, <2>5, <3>1, Zenon DEF Health!BeginSetStatus
    <2>6. ASSUME NEW w \in Workers, Health!CommitWrite(w)
          PROVE  HealthTypes'
      <3>1. /\ writes' = Append(writes, healthTxn[w].write)
            /\ anomalies' = anomalies \cup ({Len(writes) + 1} \X healthTxn[w].types)
            /\ Health!Step(w, Health!NoTxn) /\ healthTxn[w].pc = "write"
        BY <2>6 DEF Health!CommitWrite
      <3>2. healthTxn[w].types \subseteq kinds
        BY <3>1 DEF HealthTypes
      <3>3. DOMAIN writes \subseteq DOMAIN writes' /\ Len(writes) + 1 \in DOMAIN writes'
        BY <3>1 DEF HealthInv
      <3>4. anomalies \subseteq (DOMAIN writes) \X kinds
        BY DEF HealthTypes
      <3>5. anomalies' \subseteq (DOMAIN writes') \X kinds
        BY <3>1, <3>2, <3>3, <3>4
      <3> QED BY <2>2, <3>1, <3>5 DEF HealthTypes, Health!NoTxn
    <2>7. ASSUME NEW w \in Workers, Health!Rollback(w)
          PROVE  HealthTypes'
      BY <2>2, <2>7 DEF HealthTypes, Health!Rollback, Health!NoTxn
    <2> QED BY <2>1, <2>4, <2>5, <2>6, <2>7 DEF Health!Next
  <1>3. HealthInv /\ HealthTypes => Health!TypeOK
    BY DEF HealthInv, HealthTypes, Health!TypeOK
  <1> QED BY <1>1, <1>2, <1>3, HealthHolds, PTL DEF Health!Spec

ClockBound == now \in 0..MaxTime

LEMMA ClientsTyped ==
    ASSUME Clients!AccessAssumption
    PROVE  Clients!Spec => []Clients!TypeOK
  <1>1. Clients!Init => ClockBound
    BY DEF ClockBound, Clients!Init, Clients!AccessAssumption
  <1>2. ClockBound /\ [Clients!Next]_(Clients!vars) => ClockBound'
    <2> SUFFICES ASSUME ClockBound, [Clients!Next]_(Clients!vars)
                 PROVE  now' \in 0..MaxTime
      BY DEF ClockBound
    <2> USE DEF ClockBound
    <2>1. CASE Clients!Tick
      BY <2>1 DEF Clients!Tick, Clients!AccessAssumption
    <2>2. CASE UNCHANGED Clients!vars
      BY <2>2 DEF Clients!vars
    <2>3. CASE Clients!Deactivate
      BY <2>3 DEF Clients!Deactivate
    <2>4. ASSUME NEW w \in Workers,
                 \/ Clients!Authenticate(w) \/ Clients!Present(w) \/ Clients!CheckClient(w)
                 \/ Clients!Persist(w) \/ Clients!Fail(w)
          PROVE  now' = now
      BY <2>4 DEF Clients!Authenticate, Clients!Present, Clients!CheckClient, Clients!Persist,
         Clients!Fail
    <2> QED BY <2>1, <2>2, <2>3, <2>4 DEF Clients!Next
  <1>3. AccessInv /\ ClockBound => Clients!TypeOK
    <2> SUFFICES ASSUME AccessInv, ClockBound PROVE Clients!TypeOK
      OBVIOUS
    <2>1. \A w \in Workers : accessTxn[w] \in Request \cup {Clients!NoTxn}
      BY DEF AccessInv, AccessTypes
    <2>2. \A w \in Workers : accessTxn[w].pc \in {"idle", "refresh", "persist"}
      BY <2>1 DEF Request, Clients!NoTxn
    <2>3. client \in Clients!Client /\ tokens \in Seq(Clients!Token)
      BY DEF AccessInv, AccessTypes
    <2> QED BY <2>2, <2>3, Zenon DEF ClockBound, Clients!TypeOK
  <1> QED BY <1>1, <1>2, <1>3, AccessHolds, PTL DEF Clients!Spec

LimiterBounds ==
    /\ clock \in 0..MaxClock /\ touched \in 0..MaxClock
    /\ bucket \subseteq 0..MaxClock

LEMMA LimiterTyped ==
    ASSUME Limiter!LimiterAssumption
    PROVE  Limiter!Spec => []Limiter!TypeOK
  <1>1. Limiter!Init => LimiterBounds
    BY DEF Limiter!Init, LimiterBounds, Limiter!LimiterAssumption
  <1>2. LimiterInv /\ LimiterBounds /\ [Limiter!Next]_(Limiter!vars) => LimiterBounds'
    <2> SUFFICES ASSUME LimiterInv, LimiterBounds, [Limiter!Next]_(Limiter!vars)
                 PROVE  LimiterBounds'
      OBVIOUS
    <2>1. CASE Limiter!Tick
      BY <2>1 DEF Limiter!Tick, LimiterBounds, Limiter!LimiterAssumption
    <2>2. CASE UNCHANGED Limiter!vars
      BY <2>2 DEF Limiter!vars, LimiterBounds
    <2>3. ASSUME NEW w \in Workers, Limiter!Begin(w) \/ Limiter!RunDown(w)
          PROVE  LimiterBounds'
      BY <2>3 DEF Limiter!Begin, Limiter!RunDown, LimiterBounds
    <2>4. ASSUME NEW w \in Workers, Limiter!Run(w)
          PROVE  LimiterBounds'
      <3>1. PICK t : t = limiterTxn[w]
        OBVIOUS
      <3>2. /\ t.pc = "run" /\ touched' = clock /\ clock' = clock
            /\ bucket' = Limiter!Kept(Limiter!Alive, t.at) \cup {t.at}
        BY <2>4, <3>1 DEF Limiter!Run
      <3>3. t.at \in Nat /\ t.at <= clock
        BY <3>1, <3>2 DEF LimiterInv, Limiter!NoTxn
      <3>4. t.at \in 0..MaxClock
        BY <3>3 DEF LimiterBounds, Limiter!LimiterAssumption
      <3>5. Limiter!Kept(Limiter!Alive, t.at) \subseteq bucket
        BY DEF Limiter!Kept, Limiter!Alive
      <3> QED BY <3>2, <3>4, <3>5 DEF LimiterBounds
    <2> QED BY <2>1, <2>2, <2>3, <2>4 DEF Limiter!Next
  <1>3. LimiterInv /\ LimiterBounds => Limiter!TypeOK
    <2> SUFFICES ASSUME LimiterInv, LimiterBounds PROVE Limiter!TypeOK
      OBVIOUS
    <2>1. \A w \in Workers : limiterTxn[w].pc \in {"idle", "run"}
      BY DEF LimiterInv, Limiter!NoTxn
    <2> QED BY <2>1 DEF LimiterInv, LimiterBounds, Limiter!TypeOK
  <1> QED BY <1>1, <1>2, <1>3, LimiterHolds, PTL DEF Limiter!Spec

-----------------------------------------------------------------------------
(* The types of the scorings: totals are sums over a finite set, and stay in *)
(* their range.                                                            *)

Picked(s) == CHOOSE x \in s : TRUE

\* g sums the values of F over the sets of D.
SumsUp(g, F, D) ==
    \A s \in D : g[s] = IF s = {} THEN 0 ELSE F[Picked(s)] + g[s \ {Picked(s)}]

\* A sum of integers over a finite set is an integer: by the size of the set.
LEMMA SumOfIntegers ==
    ASSUME NEW S, IsFiniteSet(S), NEW F \in [S -> Int]
    PROVE  Scoring!SumFunction(F) \in Int
  <1> DEFINE Small(n) == {s \in SUBSET S : Cardinality(s) <= n}
             Sums(n) == \E g \in [Small(n) -> Int] : SumsUp(g, F, Small(n))
  <1>1. \A s \in SUBSET S : IsFiniteSet(s) /\ Cardinality(s) \in Nat
                            /\ Cardinality(s) <= Cardinality(S)
    BY FS_Subset, FS_CardinalityType
  <1>2. ASSUME NEW s \in SUBSET S, s # {}
        PROVE  /\ Picked(s) \in s /\ Picked(s) \in S /\ s \ {Picked(s)} \in SUBSET S
               /\ Cardinality(s \ {Picked(s)}) = Cardinality(s) - 1
               /\ Cardinality(s) > 0
    <2>1. Picked(s) \in s
      BY <1>2 DEF Picked
    <2>2. Cardinality(s \ {Picked(s)}) = Cardinality(s) - 1
      BY <1>1, <2>1, FS_RemoveElement
    <2>3. Cardinality(s) # 0 /\ Cardinality(s) \in Nat
      BY <1>1, <1>2, FS_EmptySet
    <2> QED BY <2>1, <2>2, <2>3
  <1>3. Sums(0)
    <2>1. Small(0) = {{}}
      <3>1. \A s \in Small(0) : s = {}
        BY <1>1, FS_EmptySet
      <3>2. {} \in Small(0)
        BY FS_EmptySet
      <3> QED BY <3>1, <3>2
    <2>2. PICK g : g = [s \in Small(0) |-> 0]
      OBVIOUS
    <2>3. g \in [Small(0) -> Int]
      BY <2>2
    <2>4. SumsUp(g, F, Small(0))
      BY <2>1, <2>2 DEF SumsUp
    <2> QED BY <2>3, <2>4
  <1>4. ASSUME NEW n \in Nat, Sums(n)
        PROVE  Sums(n + 1)
    <2>1. PICK g \in [Small(n) -> Int] : SumsUp(g, F, Small(n))
      BY <1>4
    <2>2. PICK h : h = [s \in Small(n + 1) |->
                          IF s = {} THEN 0 ELSE F[Picked(s)] + g[s \ {Picked(s)}]]
      OBVIOUS
    <2>3. ASSUME NEW s \in Small(n + 1), s # {}
          PROVE  F[Picked(s)] \in Int /\ s \ {Picked(s)} \in Small(n)
      <3>1. s \in SUBSET S /\ Cardinality(s) \in Nat /\ Cardinality(s) <= n + 1
        BY <1>1
      <3>2. Cardinality(s \ {Picked(s)}) <= n
        BY <1>2, <2>3, <3>1
      <3>3. s \ {Picked(s)} \in SUBSET S /\ Picked(s) \in S
        BY <1>2, <2>3, <3>1
      <3> QED BY <3>2, <3>3
    <2>4. \A s \in Small(n + 1) \ {{}} : g[s \ {Picked(s)}] \in Int
      BY <2>1, <2>3
    <2>5. h \in [Small(n + 1) -> Int]
      <3>1. \A s \in Small(n + 1) :
               (IF s = {} THEN 0 ELSE F[Picked(s)] + g[s \ {Picked(s)}]) \in Int
        BY <2>3, <2>4
      <3> QED BY <2>2, <3>1
    <2>6. \A s \in Small(n) : s \in Small(n + 1)
      BY <1>1
    <2>7. \A s \in Small(n) : h[s] = g[s]
      BY <2>1, <2>2, <2>6 DEF SumsUp
    <2>8. SumsUp(h, F, Small(n + 1))
      BY <2>2, <2>3, <2>7 DEF SumsUp
    <2> QED BY <2>5, <2>8
  <1>5. Sums(Cardinality(S))
    <2> HIDE DEF Sums
    <2>1. Cardinality(S) \in Nat
      BY FS_CardinalityType
    <2> SUFFICES ASSUME ~Sums(Cardinality(S)) PROVE FALSE
      OBVIOUS
    <2>2. PICK T : T = {k \in Nat : ~Sums(k)}
      OBVIOUS
    <2>3. T \in SUBSET Nat /\ T # {}
      BY <2>1, <2>2
    <2>4. PICK m \in T : \A k \in T : m <= k
      BY <2>3, LeastExists
    <2>5. m \in Nat /\ m # 0 /\ ~Sums(m)
      BY <1>3, <2>2, <2>4
    <2>6. m - 1 \in Nat /\ ~(m <= m - 1) /\ (m - 1) + 1 = m
      BY <2>5
    <2>7. Sums(m - 1)
      BY <2>2, <2>4, <2>6
    <2> QED BY <1>4, <2>5, <2>6, <2>7
  <1>6. Small(Cardinality(S)) = SUBSET S
    BY <1>1
  <1>7. \E g : g = [s \in SUBSET S |->
                      IF s = {} THEN 0 ELSE F[Picked(s)] + g[s \ {Picked(s)}]]
    <2>1. PICK g \in [SUBSET S -> Int] : SumsUp(g, F, SUBSET S)
      BY <1>5, <1>6
    <2> QED BY <2>1 DEF SumsUp
  <1>8. ASSUME NEW g, g = [s \in SUBSET S |->
                             IF s = {} THEN 0 ELSE F[Picked(s)] + g[s \ {Picked(s)}]]
        PROVE  g[S] \in Int
    <2>1. PICK T : T = {k \in Nat : \E s \in SUBSET S : Cardinality(s) = k /\ g[s] \notin Int}
      OBVIOUS
    <2> SUFFICES ASSUME g[S] \notin Int PROVE FALSE
      OBVIOUS
    <2>2. T \in SUBSET Nat /\ T # {}
      BY <1>1, <2>1
    <2>3. PICK m \in T : \A k \in T : m <= k
      BY <2>2, LeastExists
    <2>4. PICK s \in SUBSET S : Cardinality(s) = m /\ g[s] \notin Int
      BY <2>1, <2>3
    <2>5. g[s] = IF s = {} THEN 0 ELSE F[Picked(s)] + g[s \ {Picked(s)}]
      BY <1>8
    <2>6. s # {}
      BY <2>4, <2>5
    <2>7. /\ Picked(s) \in S /\ s \ {Picked(s)} \in SUBSET S
          /\ Cardinality(s \ {Picked(s)}) = m - 1 /\ m > 0 /\ m \in Nat
      BY <1>1, <1>2, <2>4, <2>6
    <2>8. g[s \ {Picked(s)}] \in Int
      <3>1. m - 1 \in Nat /\ ~(m <= m - 1)
        BY <2>7
      <3>2. m - 1 \notin T
        BY <2>3, <3>1
      <3> QED BY <2>1, <2>7, <3>1, <3>2
    <2>9. F[Picked(s)] \in Int
      BY <2>7
    <2> QED BY <2>4, <2>5, <2>6, <2>8, <2>9
  <1>9. DOMAIN F = S
    OBVIOUS
  <1>10. Scoring!SumFunction(F) =
            (CHOOSE g : g = [s \in SUBSET S |->
                               IF s = {} THEN 0 ELSE F[Picked(s)] + g[s \ {Picked(s)}]])[S]
    BY <1>9, Zenon DEF Scoring!SumFunction, Scoring!SumFunctionOnSet, Scoring!FoldFunctionOnSet,
       Scoring!MapThenFoldSet, Picked
  <1> QED BY <1>7, <1>8, <1>10

Grades == 0..10000

\* What a signal adds to a score.
Worth(weights, R, r, s) ==
    IF weights[s] = Off THEN 0
    ELSE weights[s] * Raw[r][s] + 10000 * Scoring!Bonus(R, s, Raw[r][s])

\* The score those add up to, kept in its range.
Rounded(sum) ==
    IF sum <= 0 THEN 0 ELSE IF sum >= 100 * 10000 THEN 10000 ELSE (sum + 50) \div 100

LEMMA Clamped ==
    ASSUME NEW sum \in Int, NEW most \in Nat
    PROVE  (IF sum <= 0 THEN 0 ELSE IF sum >= 100 * most THEN most ELSE (sum + 50) \div 100)
           \in 0..most
  <1>1. sum > 0 /\ sum < 100 * most => (sum + 50) \div 100 \in 0..most
    BY Z3
  <1> QED BY <1>1

LEMMA RoundedInRange == ASSUME NEW sum \in Int PROVE Rounded(sum) \in Grades
  <1>1. PICK most \in Nat : most = 10000
    BY SMT
  <1>2. Rounded(sum) = IF sum <= 0 THEN 0 ELSE IF sum >= 100 * most THEN most
                       ELSE (sum + 50) \div 100
    BY <1>1, SMT DEF Rounded
  <1>3. Grades = 0..most
    BY <1>1, SMT DEF Grades
  <1> QED BY <1>2, <1>3, Clamped

\* The score of a restaurant, whatever the weights and the rules
\* (services/scoring_engine.py, evaluate_restaurant).
LEMMA TotalInRange ==
    ASSUME NEW weights \in Scoring!Weights, NEW R, R \subseteq RuleChoices, IsFiniteSet(R),
           NEW r \in Scored
    PROVE  Scoring!Total(weights, R, r) \in Grades
  <1>1. ASSUME NEW s, NEW raw
        PROVE  Scoring!Bonus(R, s, raw) \in Int
    <2>1. PICK Q : Q = {q \in R : q.signal = s /\ Scoring!Applies(q, raw)}
      OBVIOUS
    <2>2. IsFiniteSet(Q)
      BY <2>1, FS_Subset
    <2>3. \A q \in Q : q.points \in Int
      BY <2>1, BackOfficeAssumption DEF Scoring!ProfileAssumption
    <2>4. PICK F : F = [q \in Q |-> q.points]
      OBVIOUS
    <2>5. F \in [Q -> Int]
      BY <2>3, <2>4
    <2>6. Scoring!SumFunction(F) \in Int
      BY <2>2, <2>5, SumOfIntegers
    <2> QED BY <2>1, <2>4, <2>6 DEF Scoring!Bonus
  <1>2. PICK F : F = [s \in Signals |-> Worth(weights, R, r, s)]
    OBVIOUS
  <1>3. ASSUME NEW s \in Signals
        PROVE  Worth(weights, R, r, s) \in Int
    <2>1. weights[s] = Off \/ weights[s] \in Int
      BY DEF Scoring!Weights
    <2>2. Raw[r][s] \in Int
      <3>1. Raw \in [Scored -> [Signals -> 0..100]]
        BY BackOfficeAssumption DEF Scoring!ProfileAssumption
      <3>2. Raw[r] \in [Signals -> 0..100]
        BY <3>1
      <3> QED BY <3>2
    <2>3. PICK b \in Int : b = Scoring!Bonus(R, s, Raw[r][s])
      BY <1>1
    <2>4. PICK p : p = weights[s] * Raw[r][s]
      OBVIOUS
    <2>5. weights[s] # Off => p \in Int
      BY <2>1, <2>2, <2>4
    <2>6. Worth(weights, R, r, s) = IF weights[s] = Off THEN 0 ELSE p + 10000 * b
      BY <2>3, <2>4, SMT DEF Worth
    <2> QED BY <2>5, <2>6, SMT
  <1>4. F \in [Signals -> Int]
    BY <1>2, <1>3
  <1>5. IsFiniteSet(Signals)
    BY BackOfficeAssumption, ScoringCardinality DEF Scoring!ProfileAssumption
  <1>6. PICK sum \in Int : sum = Scoring!SumFunction(F)
    BY <1>4, <1>5, SumOfIntegers
  <1>7. Scoring!Total(weights, R, r) = Rounded(sum)
    BY <1>2, <1>6, SMT DEF Scoring!Total, Worth, Rounded
  <1>8. Rounded(sum) \in Grades
    BY RoundedInRange
  <1> QED BY <1>7, <1>8

\* What a scoring has evaluated.
Valued(done) == \A e \in done : e.restaurant \in Scored /\ e.total \in Grades /\ e.seen \in Nat

ScoreTxn(t) ==
    /\ t.pc \in {"idle", "update", "suggested", "score", "list", "recalculate"}
    /\ t.pc = "score" => Valued(t.done)
    /\ t.pc = "list" => t.weights \in Scoring!Weights
    /\ t.pc = "recalculate" => t.weights \in Scoring!Weights /\ Valued(t.done)

ScoreTypes ==
    /\ rules \subseteq RuleChoices /\ IsFiniteSet(rules)
    /\ explanations \in Seq(Scoring!Explanation)
    /\ begun \in 0..MaxJobs
    /\ \A w \in Workers : ScoreTxn(scoreTxn[w])

LEMMA Explained == Scoring!Explanation = [restaurant : Scored, total : Grades, seen : Nat]
  BY DEF Grades, Scoring!Explanation

LEMMA EvaluatedValued ==
    ASSUME JobInv, ScoreTypes, NEW r \in Scored, NEW weights \in Scoring!Weights
    PROVE  Valued({Scoring!Evaluated(weights, r)})
  <1>1. PICK total : total = Scoring!Total(weights, rules, r)
    OBVIOUS
  <1>2. total \in Grades
    BY <1>1, TotalInRange DEF ScoreTypes
  <1>3. PICK places : places = Scoring!Rows(r)
    OBVIOUS
  <1>4. PICK e : e = [row |-> places, restaurant |-> r, total |-> total, seen |-> Len(explanations)]
    OBVIOUS
  <1>5. e = Scoring!Evaluated(weights, r)
    BY <1>1, <1>3, <1>4, Zenon DEF Scoring!Evaluated
  <1>6. e.restaurant = r /\ e.total = total /\ e.seen = Len(explanations)
    BY <1>4
  <1>7. Len(explanations) \in Nat
    BY DEF ScoreTypes
  <1> QED BY <1>2, <1>5, <1>6, <1>7 DEF Valued

\* What the upsert stores.
LEMMA StoredTyped ==
    ASSUME explanations \in Seq(Scoring!Explanation), NEW done, IsFiniteSet(done), Valued(done)
    PROVE  Scoring!Stored(done) \in Seq(Scoring!Explanation)
  <1>1. PICK n : n = Len(explanations)
    OBVIOUS
  <1>2. /\ n \in Nat /\ DOMAIN explanations = 1..n
        /\ \A i \in 1..n : explanations[i] \in Scoring!Explanation
    BY <1>1
  <1>3. PICK old : old = Scoring!Updated(done)
    OBVIOUS
  <1>4. ASSUME NEW i \in 1..n
        PROVE  old[i] \in Scoring!Explanation
    <2>1. explanations[i] \in Scoring!Explanation
      BY <1>2
    <2>2. CASE ~\E e \in done : e.row = {i}
      BY <1>2, <1>3, <2>1, <2>2 DEF Scoring!Updated
    <2>3. CASE \E e \in done : e.row = {i}
      <3>1. PICK e : e = CHOOSE d \in done : d.row = {i}
        OBVIOUS
      <3>2. e \in done
        BY <2>3, <3>1
      <3>3. PICK total \in Grades : total = e.total
        BY <3>2 DEF Valued
      <3>4. old[i] = [restaurant |-> explanations[i].restaurant, total |-> total,
                      seen |-> explanations[i].seen]
        BY <1>2, <1>3, <2>3, <3>1, <3>3, Zenon DEF Scoring!Updated
      <3>5. explanations[i].restaurant \in Scored /\ explanations[i].seen \in Nat
        BY <2>1, Explained
      <3> QED BY <3>3, <3>4, <3>5, Explained
    <2> QED BY <2>2, <2>3
  <1>5. old \in Seq(Scoring!Explanation)
    <2>1. old = [i \in 1..n |-> old[i]]
      BY <1>2, <1>3 DEF Scoring!Updated
    <2>2. old \in [1..n -> Scoring!Explanation]
      BY <1>4, <2>1
    <2> QED BY <1>2, <2>2
  <1>6. PICK fresh : fresh = {d \in done : d.row = {}}
    OBVIOUS
  <1>7. PICK f : f = [e \in fresh |-> [restaurant |-> e.restaurant, total |-> e.total,
                                       seen |-> e.seen]]
    OBVIOUS
  <1>8. PICK adds : adds = Scoring!Inserted(done)
    OBVIOUS
  <1>9. adds = {f[e] : e \in fresh}
    BY <1>6, <1>7, <1>8 DEF Scoring!Inserted
  <1>10. IsFiniteSet(adds)
    <2>1. IsFiniteSet(fresh)
      BY <1>6, FS_Subset
    <2>2. f \in Surjection(fresh, adds)
      BY <1>7, <1>9 DEF Surjection
    <2> QED BY <2>1, <2>2, FS_Surjection
  <1>11. adds \subseteq Scoring!Explanation
    <2>1. ASSUME NEW e \in fresh
          PROVE  f[e] \in Scoring!Explanation
      BY <1>6, <1>7, Explained DEF Valued
    <2> QED BY <1>9, <2>1
  <1>12. PICK list : list = Scoring!SetToSeq(adds)
    OBVIOUS
  <1>13. list \in Seq(Scoring!Explanation)
    <2>1. list \in Seq(adds)
      BY <1>10, <1>12, Listed
    <2> QED BY <1>11, <2>1
  <1>14. old \o list \in Seq(Scoring!Explanation)
    BY <1>5, <1>13
  <1> QED BY <1>3, <1>8, <1>12, <1>14 DEF Scoring!Stored

\* A worker's transaction changes, and no rows.
LEMMA ScoreStep ==
    ASSUME JobInv, ScoreTypes, NEW w \in Workers, NEW t, Scoring!Step(w, t), ScoreTxn(t),
           rules' = rules, explanations' \in Seq(Scoring!Explanation), begun' \in 0..MaxJobs
    PROVE  ScoreTypes'
  <1>1. \A v \in Workers : scoreTxn'[v] = IF v = w THEN t ELSE scoreTxn[v]
    BY DEF JobInv, Scoring!Step
  <1>2. \A v \in Workers : ScoreTxn(scoreTxn'[v])
    BY <1>1 DEF ScoreTypes
  <1> QED BY <1>2 DEF ScoreTypes

LEMMA NoScoreTxn == ScoreTxn(Scoring!NoTxn)
  BY DEF ScoreTxn, Scoring!NoTxn

LEMMA ScoringTyped == Scoring!Spec => []Scoring!TypeOK
  <1>1. Scoring!Init => ScoreTypes
    <2> SUFFICES ASSUME Scoring!Init PROVE ScoreTypes
      OBVIOUS
    <2>1. rules = {} /\ explanations = <<>> /\ begun = 0 /\ MaxJobs \in Nat
          /\ \A w \in Workers : scoreTxn[w] = Scoring!NoTxn
      BY BackOfficeAssumption DEF Scoring!Init, Scoring!ProfileAssumption
    <2> QED BY <2>1, NoScoreTxn, FS_EmptySet DEF ScoreTypes
  <1>2. ProfileInv /\ JobInv /\ ScoreTypes /\ [Scoring!Next]_(Scoring!vars) => ScoreTypes'
    <2> SUFFICES ASSUME ProfileInv, JobInv, ScoreTypes, [Scoring!Next]_(Scoring!vars)
                 PROVE  ScoreTypes'
      OBVIOUS
    <2>1. CASE UNCHANGED Scoring!vars
      BY <2>1 DEF ScoreTypes, Scoring!vars, Scoring!db
    <2>2. ASSUME NEW w \in Workers, NEW t, Scoring!Step(w, t), ScoreTxn(t),
                 UNCHANGED <<rules, explanations, begun>>
          PROVE  ScoreTypes'
      BY <2>2, ScoreStep DEF ScoreTypes
    <2>3. ASSUME NEW w \in Workers, Scoring!BeginUpdate(w) \/ Scoring!BeginApply(w)
          PROVE  ScoreTypes'
      <3>1. PICK number, changed, weights, read, seen :
                Scoring!Step(w, [pc |-> "update", number |-> number, changed |-> changed,
                                 weights |-> weights, read |-> read, seen |-> seen])
        BY <2>3, Zenon DEF Scoring!BeginUpdate, Scoring!BeginApply
      <3>2. PICK t : t = [pc |-> "update", number |-> number, changed |-> changed,
                          weights |-> weights, read |-> read, seen |-> seen]
        OBVIOUS
      <3>3. ScoreTxn(t)
        BY <3>2 DEF ScoreTxn
      <3>4. UNCHANGED <<Scoring!db, begun>>
        BY <2>3, Zenon DEF Scoring!BeginUpdate, Scoring!BeginApply
      <3> QED BY <2>2, <3>1, <3>2, <3>3, <3>4 DEF Scoring!db
    <2>4. ASSUME NEW w \in Workers, Scoring!Suggest(w)
          PROVE  ScoreTypes'
      <3>1. PICK s, weight : Scoring!Step(w, [pc |-> "suggested", signal |-> s, weight |-> weight])
        BY <2>4, Zenon DEF Scoring!Suggest
      <3>2. PICK t : t = [pc |-> "suggested", signal |-> s, weight |-> weight]
        OBVIOUS
      <3>3. ScoreTxn(t)
        BY <3>2 DEF ScoreTxn
      <3>4. UNCHANGED <<Scoring!db, begun>>
        BY <2>4, Zenon DEF Scoring!Suggest
      <3> QED BY <2>2, <3>1, <3>2, <3>3, <3>4 DEF Scoring!db
    <2>5. ASSUME NEW w \in Workers, Scoring!CommitUpdate(w)
          PROVE  ScoreTypes'
      <3>1. Scoring!Step(w, Scoring!NoTxn) /\ UNCHANGED <<rules, explanations, jobs, present, begun>>
        BY <2>5, Zenon DEF Scoring!CommitUpdate
      <3> QED BY <2>2, <3>1, NoScoreTxn
    <2>6. ASSUME NEW w \in Workers, Scoring!AddRule(w)
          PROVE  ScoreTypes'
      <3>1. PICK rule \in RuleChoices : rules' = rules \cup {rule}
        BY <2>6 DEF Scoring!AddRule
      <3>2. rules' \subseteq RuleChoices /\ IsFiniteSet(rules')
        BY <3>1, FS_AddElement DEF ScoreTypes
      <3>3. UNCHANGED <<explanations, begun, scoreTxn>>
        BY <2>6 DEF Scoring!AddRule
      <3> QED BY <3>2, <3>3 DEF ScoreTypes
    <2>7. ASSUME NEW w \in Workers, Scoring!Delete(w)
          PROVE  ScoreTypes'
      <3>1. rules' = {} /\ UNCHANGED <<explanations, begun, scoreTxn>>
        BY <2>7 DEF Scoring!Delete
      <3> QED BY <3>1, FS_EmptySet DEF ScoreTypes
    <2>8. begun + 1 \in Nat /\ MaxJobs \in Nat /\ begun \in 0..MaxJobs
      BY BackOfficeAssumption DEF ScoreTypes, Scoring!ProfileAssumption
    <2>9. profile # Gone => profile.weights \in Scoring!Weights
      BY DEF ProfileInv
    <2>10. ASSUME NEW w \in Workers, Scoring!BeginScore(w)
           PROVE  ScoreTypes'
      <3>1. PICK r \in Scored :
                Scoring!Step(w, [pc |-> "score", done |-> {Scoring!Evaluated(profile.weights, r)}])
        <4>1. present \subseteq Scored
          BY DEF JobInv
        <4> QED BY <2>10, <4>1, Zenon DEF Scoring!BeginScore
      <3>2. profile # Gone /\ begun < MaxJobs /\ begun' = begun + 1 /\ UNCHANGED Scoring!db
        BY <2>10, Zenon DEF Scoring!BeginScore
      <3>3. Valued({Scoring!Evaluated(profile.weights, r)})
        BY <2>9, <3>2, EvaluatedValued
      <3>4. PICK done : done = {Scoring!Evaluated(profile.weights, r)}
        OBVIOUS
      <3>5. PICK t : t = [pc |-> "score", done |-> done]
        OBVIOUS
      <3>6. t.pc = "score" /\ t.done = done
        BY <3>5
      <3>7. ScoreTxn(t)
        BY <3>3, <3>4, <3>6 DEF ScoreTxn
      <3>8. Scoring!Step(w, t)
        BY <3>1, <3>4, <3>5, Zenon
      <3>9. begun' \in 0..MaxJobs
        BY <2>8, <3>2
      <3> QED BY <3>2, <3>7, <3>8, <3>9, ScoreStep DEF Scoring!db, ScoreTypes
    <2>11. ASSUME NEW w \in Workers, Scoring!CommitScore(w)
           PROVE  ScoreTypes'
      <3>1. PICK t : t = scoreTxn[w]
        OBVIOUS
      <3>2. /\ t.pc = "score" /\ explanations' = Scoring!Stored(t.done)
            /\ Scoring!Step(w, Scoring!NoTxn)
            /\ UNCHANGED <<profile, rules, versions, jobs, present, begun>>
        BY <2>11, <3>1, Zenon DEF Scoring!CommitScore
      <3>3. IsFiniteSet(t.done)
        BY <3>1, <3>2 DEF JobInv, Scores
      <3>4. Valued(t.done)
        BY <3>1, <3>2 DEF ScoreTypes, ScoreTxn
      <3>5. explanations' \in Seq(Scoring!Explanation)
        BY <3>2, <3>3, <3>4, StoredTyped DEF ScoreTypes
      <3> QED BY <2>8, <3>2, <3>5, NoScoreTxn, ScoreStep
    <2>12. ASSUME NEW w \in Workers, Scoring!BeginRecalculate(w)
           PROVE  ScoreTypes'
      <3>1. PICK weights : weights = profile.weights
        OBVIOUS
      <3>2. PICK t : t = [pc |-> "list", weights |-> weights,
                          total |-> Scoring!Cardinality(present)]
        OBVIOUS
      <3>3. profile # Gone /\ begun < MaxJobs /\ begun' = begun + 1 /\ UNCHANGED Scoring!db
            /\ Scoring!Step(w, t)
        BY <2>12, <3>1, <3>2, Zenon DEF Scoring!BeginRecalculate
      <3>4. t.pc = "list" /\ t.weights = weights
        BY <3>2
      <3>5. ScoreTxn(t)
        BY <2>9, <3>1, <3>3, <3>4 DEF ScoreTxn
      <3>6. begun' \in 0..MaxJobs
        BY <2>8, <3>3
      <3> QED BY <3>3, <3>5, <3>6, ScoreStep DEF Scoring!db, ScoreTypes
    <2>13. ASSUME NEW w \in Workers, Scoring!EvaluateNext(w)
           PROVE  ScoreTypes'
      <3>1. PICK t : t = scoreTxn[w]
        OBVIOUS
      <3>2. PICK r \in t.left :
                Scoring!Step(w, [t EXCEPT !.left = t.left \ {r},
                                          !.done = t.done \cup {Scoring!Evaluated(t.weights, r)}])
        BY <2>13, <3>1, Zenon DEF Scoring!EvaluateNext
      <3>3. t.pc = "recalculate" /\ UNCHANGED <<Scoring!db, begun>>
        BY <2>13, <3>1, Zenon DEF Scoring!EvaluateNext
      <3>4. r \in Scored /\ DOMAIN t = {"pc", "weights", "total", "listed", "left", "done"}
        BY <3>1, <3>3 DEF JobInv, Scores
      <3>5. t.weights \in Scoring!Weights /\ Valued(t.done)
        BY <3>1, <3>3 DEF ScoreTypes, ScoreTxn
      <3>6. PICK done : done = t.done \cup {Scoring!Evaluated(t.weights, r)}
        OBVIOUS
      <3>7. Valued(done)
        <4>1. Valued({Scoring!Evaluated(t.weights, r)})
          BY <3>4, <3>5, EvaluatedValued
        <4> QED BY <3>5, <3>6, <4>1, Zenon DEF Valued
      <3>8. PICK left : left = t.left \ {r}
        OBVIOUS
      <3>9. PICK u : u = [t EXCEPT !.left = left, !.done = done]
        OBVIOUS
      <3>10. u.pc = "recalculate" /\ u.weights = t.weights /\ u.done = done
        BY <3>3, <3>4, <3>9
      <3>11. ScoreTxn(u)
        BY <3>5, <3>7, <3>10 DEF ScoreTxn
      <3>12. Scoring!Step(w, u)
        BY <3>2, <3>6, <3>8, <3>9, Zenon
      <3> QED BY <2>2, <3>3, <3>11, <3>12 DEF Scoring!db
    <2>14. ASSUME NEW w \in Workers, Scoring!FinishRecalculate(w)
           PROVE  ScoreTypes'
      <3>1. PICK t : t = scoreTxn[w]
        OBVIOUS
      <3>2. /\ t.pc = "recalculate" /\ explanations' = Scoring!Stored(t.done)
            /\ Scoring!Step(w, Scoring!NoTxn)
            /\ UNCHANGED <<profile, rules, versions, present, begun>>
        BY <2>14, <3>1, Zenon DEF Scoring!FinishRecalculate
      <3>3. IsFiniteSet(t.done)
        BY <3>1, <3>2 DEF JobInv, Scores
      <3>4. Valued(t.done)
        BY <3>1, <3>2 DEF ScoreTypes, ScoreTxn
      <3>5. explanations' \in Seq(Scoring!Explanation)
        BY <3>2, <3>3, <3>4, StoredTyped DEF ScoreTypes
      <3> QED BY <2>8, <3>2, <3>5, NoScoreTxn, ScoreStep
    <2>15. ASSUME NEW w \in Workers, Scoring!Rollback(w)
           PROVE  ScoreTypes'
      <3>1. Scoring!Step(w, Scoring!NoTxn) /\ UNCHANGED <<Scoring!db, begun>>
        BY <2>15, Zenon DEF Scoring!Rollback
      <3> QED BY <2>2, <3>1, NoScoreTxn DEF Scoring!db
    <2>16. CASE Scoring!AddRestaurant
      <3>1. UNCHANGED <<rules, explanations, begun, scoreTxn>>
        BY <2>16 DEF Scoring!AddRestaurant
      <3> QED BY <3>1 DEF ScoreTypes
    <2>17. ASSUME NEW w \in Workers, Scoring!ListRestaurants(w)
           PROVE  ScoreTypes'
      <3>1. PICK weights : weights = scoreTxn[w].weights
        OBVIOUS
      <3>2. PICK total : total = scoreTxn[w].total
        OBVIOUS
      <3>3. PICK t : t = [pc |-> "recalculate", weights |-> weights, total |-> total,
                          listed |-> present, left |-> present, done |-> {}]
        OBVIOUS
      <3>4. scoreTxn[w].pc = "list" /\ Scoring!Step(w, t) /\ UNCHANGED <<Scoring!db, begun>>
        BY <2>17, <3>1, <3>2, <3>3, Zenon DEF Scoring!ListRestaurants
      <3>5. t.pc = "recalculate" /\ t.weights = weights /\ t.done = {}
        BY <3>3
      <3>6. weights \in Scoring!Weights
        BY <3>1, <3>4 DEF ScoreTypes, ScoreTxn
      <3>7. ScoreTxn(t)
        BY <3>5, <3>6 DEF ScoreTxn, Valued
      <3> QED BY <2>2, <3>4, <3>7 DEF Scoring!db
    <2> QED BY <2>1, <2>3, <2>4, <2>5, <2>6, <2>7, <2>10, <2>11, <2>12, <2>13, <2>14, <2>15,
               <2>16, <2>17
            DEF Scoring!Next
  <1>3. ProfileInv /\ JobInv /\ ScoreTypes => Scoring!TypeOK
    <2> SUFFICES ASSUME ProfileInv, JobInv, ScoreTypes PROVE Scoring!TypeOK
      OBVIOUS
    <2>1. /\ profile = Gone \/ profile \in [version : Nat, weights : Scoring!Weights]
          /\ versions \in Seq(Scoring!Version)
      BY DEF ProfileInv
    <2>2. jobs \in Seq(Scoring!Job) /\ present \subseteq Scored
      BY DEF JobInv
    <2>3. \A w \in Workers :
             scoreTxn[w].pc \in {"idle", "update", "suggested", "score", "list", "recalculate"}
      BY DEF ScoreTypes, ScoreTxn
    <2>4. rules \subseteq RuleChoices /\ explanations \in Seq(Scoring!Explanation)
          /\ begun \in 0..MaxJobs
      BY DEF ScoreTypes
    <2> QED BY <2>1, <2>2, <2>3, <2>4, Zenon DEF Scoring!TypeOK
  <1> QED BY <1>1, <1>2, <1>3, BackOfficeAssumption, ProfileHolds, JobsHold, PTL DEF Scoring!Spec

-----------------------------------------------------------------------------
(* The composition.  A step is one of a single service, so that every service *)
(* behaves as it does by itself.                                             *)

LEMMA StepsApart ==
    ASSUME Next
    PROVE  /\ Queue!Next \/ UNCHANGED queueVars
           /\ Prompts!Next \/ UNCHANGED promptVars
           /\ Tests!Next \/ UNCHANGED testVars
           /\ Config!Next \/ UNCHANGED configVars
           /\ Scoring!Next \/ UNCHANGED scoreVars
           /\ Outreach!Next \/ UNCHANGED campaignVars
           /\ Crm!Next \/ UNCHANGED crmVars
           /\ Agents!Next \/ UNCHANGED agentVars
           /\ Health!Next \/ UNCHANGED healthVars
           /\ Clients!Next \/ UNCHANGED accessVars
           /\ Limiter!Next \/ UNCHANGED limiterVars
  <1>1. Queue!Next \/ UNCHANGED queueVars
    BY DEF Next, QueueStep, PromptsStep, TestsStep, ConfigStep, ScoringStep, OutreachStep,
           CrmStep, AgentsStep, HealthStep, ClientsStep, LimiterStep
  <1>2. Prompts!Next \/ UNCHANGED promptVars
    BY DEF Next, QueueStep, PromptsStep, TestsStep, ConfigStep, ScoringStep, OutreachStep,
           CrmStep, AgentsStep, HealthStep, ClientsStep, LimiterStep
  <1>3. Tests!Next \/ UNCHANGED testVars
    BY DEF Next, QueueStep, PromptsStep, TestsStep, ConfigStep, ScoringStep, OutreachStep,
           CrmStep, AgentsStep, HealthStep, ClientsStep, LimiterStep
  <1>4. Config!Next \/ UNCHANGED configVars
    BY DEF Next, QueueStep, PromptsStep, TestsStep, ConfigStep, ScoringStep, OutreachStep,
           CrmStep, AgentsStep, HealthStep, ClientsStep, LimiterStep
  <1>5. Scoring!Next \/ UNCHANGED scoreVars
    BY DEF Next, QueueStep, PromptsStep, TestsStep, ConfigStep, ScoringStep, OutreachStep,
           CrmStep, AgentsStep, HealthStep, ClientsStep, LimiterStep
  <1>6. Outreach!Next \/ UNCHANGED campaignVars
    BY DEF Next, QueueStep, PromptsStep, TestsStep, ConfigStep, ScoringStep, OutreachStep,
           CrmStep, AgentsStep, HealthStep, ClientsStep, LimiterStep
  <1>7. Crm!Next \/ UNCHANGED crmVars
    BY DEF Next, QueueStep, PromptsStep, TestsStep, ConfigStep, ScoringStep, OutreachStep,
           CrmStep, AgentsStep, HealthStep, ClientsStep, LimiterStep
  <1>8. Agents!Next \/ UNCHANGED agentVars
    BY DEF Next, QueueStep, PromptsStep, TestsStep, ConfigStep, ScoringStep, OutreachStep,
           CrmStep, AgentsStep, HealthStep, ClientsStep, LimiterStep
  <1>9. Health!Next \/ UNCHANGED healthVars
    BY DEF Next, QueueStep, PromptsStep, TestsStep, ConfigStep, ScoringStep, OutreachStep,
           CrmStep, AgentsStep, HealthStep, ClientsStep, LimiterStep
  <1>10. Clients!Next \/ UNCHANGED accessVars
    BY DEF Next, QueueStep, PromptsStep, TestsStep, ConfigStep, ScoringStep, OutreachStep,
           CrmStep, AgentsStep, HealthStep, ClientsStep, LimiterStep
  <1>11. Limiter!Next \/ UNCHANGED limiterVars
    BY DEF Next, QueueStep, PromptsStep, TestsStep, ConfigStep, ScoringStep, OutreachStep,
           CrmStep, AgentsStep, HealthStep, ClientsStep, LimiterStep
  <1> QED BY <1>1, <1>2, <1>3, <1>4, <1>5, <1>6, <1>7, <1>8, <1>9, <1>10, <1>11

LEMMA QueueApart == Spec => Queue!Spec
  <1>1. Init => Queue!Init
    BY DEF Init
  <1>2. [Next]_vars => [Queue!Next]_(Queue!vars)
    <2>1. ASSUME UNCHANGED vars PROVE UNCHANGED queueVars
      BY <2>1 DEF vars
    <2>2. ASSUME UNCHANGED queueVars PROVE UNCHANGED Queue!vars
      BY <2>2 DEF queueVars, Queue!vars
    <2> QED BY <2>1, <2>2, StepsApart
  <1> QED BY <1>1, <1>2, PTL DEF Spec, Queue!Spec

LEMMA PromptsApart == Spec => Prompts!Spec
  <1>1. Init => Prompts!Init
    BY DEF Init
  <1>2. [Next]_vars => [Prompts!Next]_(Prompts!vars)
    <2>1. ASSUME UNCHANGED vars PROVE UNCHANGED promptVars
      BY <2>1 DEF vars
    <2>2. ASSUME UNCHANGED promptVars PROVE UNCHANGED Prompts!vars
      BY <2>2 DEF promptVars, Prompts!vars, Prompts!db
    <2> QED BY <2>1, <2>2, StepsApart
  <1> QED BY <1>1, <1>2, PTL DEF Spec, Prompts!Spec

LEMMA TestsApart == Spec => Tests!Spec
  <1>1. Init => Tests!Init
    BY DEF Init
  <1>2. [Next]_vars => [Tests!Next]_(Tests!vars)
    <2>1. ASSUME UNCHANGED vars PROVE UNCHANGED testVars
      BY <2>1 DEF vars
    <2>2. ASSUME UNCHANGED testVars PROVE UNCHANGED Tests!vars
      BY <2>2 DEF testVars, Tests!vars, Tests!db
    <2> QED BY <2>1, <2>2, StepsApart
  <1> QED BY <1>1, <1>2, PTL DEF Spec, Tests!Spec

LEMMA ConfigApart == Spec => Config!Spec
  <1>1. Init => Config!Init
    BY DEF Init
  <1>2. [Next]_vars => [Config!Next]_(Config!vars)
    <2>1. ASSUME UNCHANGED vars PROVE UNCHANGED configVars
      BY <2>1 DEF vars
    <2>2. ASSUME UNCHANGED configVars PROVE UNCHANGED Config!vars
      BY <2>2 DEF configVars, Config!vars
    <2> QED BY <2>1, <2>2, StepsApart
  <1> QED BY <1>1, <1>2, PTL DEF Spec, Config!Spec

LEMMA ScoringApart == Spec => Scoring!Spec
  <1>1. Init => Scoring!Init
    BY DEF Init
  <1>2. [Next]_vars => [Scoring!Next]_(Scoring!vars)
    <2>1. ASSUME UNCHANGED vars PROVE UNCHANGED scoreVars
      BY <2>1 DEF vars
    <2>2. ASSUME UNCHANGED scoreVars PROVE UNCHANGED Scoring!vars
      BY <2>2 DEF scoreVars, Scoring!vars, Scoring!db
    <2> QED BY <2>1, <2>2, StepsApart
  <1> QED BY <1>1, <1>2, PTL DEF Spec, Scoring!Spec

LEMMA OutreachApart == Spec => Outreach!Spec
  <1>1. Init => Outreach!Init
    BY DEF Init
  <1>2. [Next]_vars => [Outreach!Next]_(Outreach!vars)
    <2>1. ASSUME UNCHANGED vars PROVE UNCHANGED campaignVars
      BY <2>1 DEF vars
    <2>2. ASSUME UNCHANGED campaignVars PROVE UNCHANGED Outreach!vars
      BY <2>2 DEF campaignVars, Outreach!vars
    <2> QED BY <2>1, <2>2, StepsApart
  <1> QED BY <1>1, <1>2, PTL DEF Spec, Outreach!Spec

LEMMA CrmApart == Spec => Crm!Spec
  <1>1. Init => Crm!Init
    BY DEF Init
  <1>2. [Next]_vars => [Crm!Next]_(Crm!vars)
    <2>1. ASSUME UNCHANGED vars PROVE UNCHANGED crmVars
      BY <2>1 DEF vars
    <2>2. ASSUME UNCHANGED crmVars PROVE UNCHANGED Crm!vars
      BY <2>2 DEF crmVars, Crm!vars
    <2> QED BY <2>1, <2>2, StepsApart
  <1> QED BY <1>1, <1>2, PTL DEF Spec, Crm!Spec

LEMMA AgentsApart == Spec => Agents!Spec
  <1>1. Init => Agents!Init
    BY DEF Init
  <1>2. [Next]_vars => [Agents!Next]_(Agents!vars)
    <2>1. ASSUME UNCHANGED vars PROVE UNCHANGED agentVars
      BY <2>1 DEF vars
    <2>2. ASSUME UNCHANGED agentVars PROVE UNCHANGED Agents!vars
      BY <2>2 DEF agentVars, Agents!vars
    <2> QED BY <2>1, <2>2, StepsApart
  <1> QED BY <1>1, <1>2, PTL DEF Spec, Agents!Spec

LEMMA HealthApart == Spec => Health!Spec
  <1>1. Init => Health!Init
    BY DEF Init
  <1>2. [Next]_vars => [Health!Next]_(Health!vars)
    <2>1. ASSUME UNCHANGED vars PROVE UNCHANGED healthVars
      BY <2>1 DEF vars
    <2>2. ASSUME UNCHANGED healthVars PROVE UNCHANGED Health!vars
      BY <2>2 DEF healthVars, Health!vars
    <2> QED BY <2>1, <2>2, StepsApart
  <1> QED BY <1>1, <1>2, PTL DEF Spec, Health!Spec

LEMMA ClientsApart == Spec => Clients!Spec
  <1>1. Init => Clients!Init
    BY DEF Init
  <1>2. [Next]_vars => [Clients!Next]_(Clients!vars)
    <2>1. ASSUME UNCHANGED vars PROVE UNCHANGED accessVars
      BY <2>1 DEF vars
    <2>2. ASSUME UNCHANGED accessVars PROVE UNCHANGED Clients!vars
      BY <2>2 DEF accessVars, Clients!vars
    <2> QED BY <2>1, <2>2, StepsApart
  <1> QED BY <1>1, <1>2, PTL DEF Spec, Clients!Spec

LEMMA LimiterApart == Spec => Limiter!Spec
  <1>1. Init => Limiter!Init
    BY DEF Init
  <1>2. [Next]_vars => [Limiter!Next]_(Limiter!vars)
    <2>1. ASSUME UNCHANGED vars PROVE UNCHANGED limiterVars
      BY <2>1 DEF vars
    <2>2. ASSUME UNCHANGED limiterVars PROVE UNCHANGED Limiter!vars
      BY <2>2 DEF limiterVars, Limiter!vars
    <2> QED BY <2>1, <2>2, StepsApart
  <1> QED BY <1>1, <1>2, PTL DEF Spec, Limiter!Spec

\* Only populations that overlapped queue a restaurant twice
\* (services/rep_queue.py, populate_queue).
THEOREM QueueTold == Spec => []DuplicatesExplained
  <1>1. Spec => []Queue!DuplicatesExplained
    <2>1. Queue!Spec => []Queue!DuplicatesExplained
      BY BackOfficeAssumption, QueueDuplicates
    <2> QED BY <2>1, QueueApart, PTL
  <1>2. Queue!DuplicatesExplained => DuplicatesExplained
    BY DEF DuplicatesExplained
  <1> QED BY <1>1, <1>2, PTL

\* What keeps versions tells the present one, but for overlaps, and a prompt
\* refuses an update only after a rollback
\* (services/prompt_versioning.py, configuration.py, feedback_loop.py,
\* api/routers/crm.py, tasks/hubspot_tasks.py).
THEOREM HistoriesTold == Spec => []HistoriesTellState
  <1>1. Spec => [](Prompts!OneActive /\ Prompts!RefusalsExplained)
    <2>1. Prompts!Spec => [](Prompts!OneActive /\ Prompts!RefusalsExplained)
      BY BackOfficeAssumption, OneVersionActive
    <2> QED BY <2>1, PromptsApart, PTL
  <1>2. Spec => []Config!HistoryTellsValue
    <2>1. Config!Spec => []Config!HistoryTellsValue
      BY BackOfficeAssumption, HistoryTellsSetting
    <2> QED BY <2>1, ConfigApart, PTL
  <1>3. Spec => []Scoring!VersionsExplained
    <2>1. Scoring!Spec => []Scoring!VersionsExplained
      BY BackOfficeAssumption, SnapshotsTellProfile
    <2> QED BY <2>1, ScoringApart, PTL
  <1>4. Spec => []Crm!HistoryIsChain
    <2>1. Crm!Spec => []Crm!HistoryIsChain
      BY BackOfficeAssumption, HistoryChained
    <2> QED BY <2>1, CrmApart, PTL
  <1>5. /\ Prompts!OneActive /\ Prompts!RefusalsExplained
        /\ Config!HistoryTellsValue /\ Scoring!VersionsExplained /\ Crm!HistoryIsChain
        => HistoriesTellState
    BY DEF HistoriesTellState
  <1> QED BY <1>1, <1>2, <1>3, <1>4, <1>5, PTL

\* The figures and the status of campaigns and experiments come from what
\* happened, but for overlaps (services/outreach.py, anomaly_detection.py,
\* ab_testing.py).
THEOREM CampaignsTold == Spec => []CampaignsTellWork
  <1>1. Spec => []Outreach!AdvanceKept
    <2>1. Outreach!Spec => []Outreach!AdvanceKept
      BY BackOfficeAssumption, AnswersKept
    <2> QED BY <2>1, OutreachApart, PTL
  <1>2. Spec => []Outreach!FunnelNarrows
    <2>1. Outreach!Spec => []Outreach!FunnelNarrows
      BY BackOfficeAssumption, FunnelKept
    <2> QED BY <2>1, OutreachApart, PTL
  <1>3. Spec => []Health!PausesExplained
    <2>1. Health!Spec => []Health!PausesExplained
      BY BackOfficeAssumption, PausesTold
    <2> QED BY <2>1, HealthApart, PTL
  <1>4. Spec => []Tests!WinnerHasSample
    <2>1. Tests!Spec => []Tests!WinnerHasSample
      BY BackOfficeAssumption, WinnerSampled
    <2> QED BY <2>1, TestsApart, PTL
  <1>5. Outreach!AdvanceKept /\ Outreach!FunnelNarrows /\ Health!PausesExplained /\ Tests!WinnerHasSample => CampaignsTellWork
    BY DEF CampaignsTellWork
  <1> QED BY <1>1, <1>2, <1>3, <1>4, <1>5, PTL

\* A token ends with its client and with its time, a refusal with its window
\* (services/auth_service.py, utils/rate_limiter.py).
THEOREM AccessEnded == Spec => []AccessEnds
  <1>1. Spec => []Clients!DeactivationEnds
    <2>1. Clients!Spec => []Clients!DeactivationEnds
      BY BackOfficeAssumption, DeactivationEndsAccess
    <2> QED BY <2>1, ClientsApart, PTL
  <1>2. Spec => []Limiter!WindowTellsWho
    <2>1. Limiter!Spec => []Limiter!WindowTellsWho
      BY BackOfficeAssumption, WindowTells
    <2> QED BY <2>1, LimiterApart, PTL
  <1>3. Clients!DeactivationEnds /\ Limiter!WindowTellsWho => AccessEnds
    BY DEF AccessEnds
  <1> QED BY <1>1, <1>2, <1>3, PTL

\* Work that runs elsewhere is told by its record (agents/coordinator.py,
\* services/scoring_engine.py, tasks/hubspot_tasks.py).
THEOREM RecordsTold == Spec => []RecordsTellWork
  <1>1. Spec => []Agents!PipelineTellsStages
    <2>1. Agents!Spec => []Agents!PipelineTellsStages
      BY BackOfficeAssumption, PipelinesTell
    <2> QED BY <2>1, AgentsApart, PTL
  <1>2. Spec => []Scoring!JobsExplained
    <2>1. Scoring!Spec => []Scoring!JobsExplained
      BY BackOfficeAssumption, JobsTell
    <2> QED BY <2>1, ScoringApart, PTL
  <1>3. Spec => []Crm!LeadFollowsDeal
    <2>1. Crm!Spec => []Crm!LeadFollowsDeal
      BY BackOfficeAssumption, DealFollowed
    <2> QED BY <2>1, CrmApart, PTL
  <1>4. Agents!PipelineTellsStages /\ Scoring!JobsExplained /\ Crm!LeadFollowsDeal => RecordsTellWork
    BY DEF RecordsTellWork
  <1> QED BY <1>1, <1>2, <1>3, <1>4, PTL

\* The rows, the transactions and the scores of every service have their types,
\* for all numbers of workers, rows and commits: scores stay within their range
\* whatever the weights and the rules, figures of campaigns are numbers, and a
\* transaction is only where its handler has got to (the services above).
THEOREM ServicesTyped == Spec => []TypesOK
  <1>1. Spec => []Queue!TypeOK
    <2>1. Queue!Spec => []Queue!TypeOK
      BY BackOfficeAssumption, QueueTyped
    <2> QED BY <2>1, QueueApart, PTL
  <1>2. Spec => []Prompts!TypeOK
    <2>1. Prompts!Spec => []Prompts!TypeOK
      BY BackOfficeAssumption, PromptsTyped
    <2> QED BY <2>1, PromptsApart, PTL
  <1>3. Spec => []Tests!TypeOK
    <2>1. Tests!Spec => []Tests!TypeOK
      BY BackOfficeAssumption, TestsTyped
    <2> QED BY <2>1, TestsApart, PTL
  <1>4. Spec => []Config!TypeOK
    <2>1. Config!Spec => []Config!TypeOK
      BY BackOfficeAssumption, ConfigTyped
    <2> QED BY <2>1, ConfigApart, PTL
  <1>5. Spec => []Scoring!TypeOK
    <2>1. Scoring!Spec => []Scoring!TypeOK
      BY BackOfficeAssumption, ScoringTyped
    <2> QED BY <2>1, ScoringApart, PTL
  <1>6. Spec => []Outreach!TypeOK
    <2>1. Outreach!Spec => []Outreach!TypeOK
      BY BackOfficeAssumption, CampaignsTyped
    <2> QED BY <2>1, OutreachApart, PTL
  <1>7. Spec => []Crm!TypeOK
    <2>1. Crm!Spec => []Crm!TypeOK
      BY BackOfficeAssumption, CrmTyped
    <2> QED BY <2>1, CrmApart, PTL
  <1>8. Spec => []Agents!TypeOK
    <2>1. Agents!Spec => []Agents!TypeOK
      BY BackOfficeAssumption, AgentsTyped
    <2> QED BY <2>1, AgentsApart, PTL
  <1>9. Spec => []Health!TypeOK
    <2>1. Health!Spec => []Health!TypeOK
      BY BackOfficeAssumption, HealthTyped
    <2> QED BY <2>1, HealthApart, PTL
  <1>10. Spec => []Clients!TypeOK
    <2>1. Clients!Spec => []Clients!TypeOK
      BY BackOfficeAssumption, ClientsTyped
    <2> QED BY <2>1, ClientsApart, PTL
  <1>11. Spec => []Limiter!TypeOK
    <2>1. Limiter!Spec => []Limiter!TypeOK
      BY BackOfficeAssumption, LimiterTyped
    <2> QED BY <2>1, LimiterApart, PTL
  <1>12. /\ Queue!TypeOK /\ Prompts!TypeOK /\ Tests!TypeOK /\ Config!TypeOK
        /\ Scoring!TypeOK /\ Outreach!TypeOK /\ Crm!TypeOK /\ Agents!TypeOK
        /\ Health!TypeOK /\ Clients!TypeOK /\ Limiter!TypeOK
        => TypesOK
    BY DEF TypesOK
  <1> QED BY <1>1, <1>2, <1>3, <1>4, <1>5, <1>6, <1>7,
             <1>8, <1>9, <1>10, <1>11, <1>12, PTL

=============================================================================
