-------------------------- MODULE ClusterExpansion --------------------------
(***************************************************************************)
(* The cluster engine (src/src/services/cluster_engine.py, its API and the *)
(* dashboard's routes): groups of nearby restaurants are detected, anchors *)
(* chosen, expansion targets planned and handed to campaigns.  Requests    *)
(* are database transactions that read, compute and write; nothing locks   *)
(* what was read.  A row lock only makes a writer wait for another before  *)
(* it overwrites, so commits may come in any order here; only the unique   *)
(* key of cluster_members refuses a write.                                 *)
(***************************************************************************)
EXTENDS Naturals, Sequences, FiniteSets

CONSTANTS
    Workers,       \* processes that serve requests
    Restaurants,   \* rows of restaurants that have a position
    Zips,          \* sets of restaurants a detection may be asked for
    Near,          \* pairs within the radius of a cluster
    Around,        \* per group: restaurants in reach of its expansion
    Score,         \* ICP score of each restaurant
    MinSize,       \* min_size of a cluster
    ActiveSize,    \* members of an active cluster
    MatureSize,    \* members of a mature one
    MaxRequests    \* bound: requests begun

ASSUME ClusterAssumption ==
    /\ IsFiniteSet(Restaurants)
    /\ Zips \subseteq SUBSET Restaurants
    /\ Near \subseteq Restaurants \X Restaurants
    /\ Around \in [SUBSET Restaurants -> SUBSET Restaurants]
    /\ Score \in [Restaurants -> Nat]
    /\ MinSize \in Nat /\ ActiveSize \in Nat /\ MatureSize \in Nat
    /\ MaxRequests \in Nat

VARIABLES
    clusters,   \* rows of merchant_clusters, by number
    members,    \* rows of cluster_members
    plans,      \* rows of cluster_expansion_plans
    targets,    \* rows of outreach_targets made by launches
    txn,        \* the open transaction of each worker
    commits,    \* transactions committed so far
    requests    \* requests begun so far

db   == <<clusters, members, plans, targets>>
vars == <<db, txn, commits, requests>>

Statuses == {"detected", "active", "expanding", "mature"}
Roles    == {"anchor", "member", "prospect"}

ClusterRow == [group : SUBSET Restaurants, status : Statuses, count : Nat]
Member     == [cluster : Nat, restaurant : Restaurants, role : Roles]
Plan       == [cluster : Nat, restaurant : Restaurants, at : Nat,
               status : {"planned", "in_progress"}]
Target     == [cluster : Nat, restaurant : Restaurants, from : Nat, to : Nat]

NoTxn == [pc |-> "idle", cluster |-> 0, from |-> 0, status |-> "detected",
          had |-> 0, count |-> 0, pool |-> {}, left |-> {}, assigned |-> {}, groups |-> <<>>,
          roles |-> {}, found |-> {}, plans |-> {}]

Txn == [pc : {"idle", "scan", "anchors", "select", "insert", "expand", "launch", "recalculate"},
        cluster : Nat, from : Nat, status : Statuses, had : Nat, count : Nat,
        pool : SUBSET Restaurants, left : SUBSET Restaurants,
        assigned : SUBSET Restaurants, groups : Seq(SUBSET Restaurants),
        roles : SUBSET (Restaurants \X Roles), found : SUBSET Restaurants,
        plans : SUBSET Plan]

Init ==
    /\ clusters = <<>>
    /\ members = {}
    /\ plans = {}
    /\ targets = {}
    /\ txn = [w \in Workers |-> NoTxn]
    /\ commits = 0
    /\ requests = 0

Roster(c) == {m \in members : m.cluster = c}

Begin(w, t) ==
    /\ txn[w].pc = "idle"
    /\ requests < MaxRequests
    /\ requests' = requests + 1
    /\ txn' = [txn EXCEPT ![w] = t]
    /\ UNCHANGED <<db, commits>>

\* A request for cluster c, with what session.get reads of it.
OnCluster(pc, c) ==
    [NoTxn EXCEPT !.pc = pc, !.cluster = c, !.from = commits,
                  !.status = clusters[c].status, !.had = clusters[c].count]

Step(w, t) ==
    /\ txn' = [txn EXCEPT ![w] = t]
    /\ UNCHANGED <<db, commits, requests>>

End(w) ==
    /\ txn' = [txn EXCEPT ![w] = NoTxn]
    /\ commits' = commits + 1
    /\ UNCHANGED requests

-----------------------------------------------------------------------------
(* Detection: one pass over the restaurants, in the order of the result.   *)

BeginDetect(w) ==
    \E S \in Zips :
        /\ Cardinality(S) >= MinSize
        /\ Begin(w, [NoTxn EXCEPT !.pc = "scan", !.pool = S, !.left = S])

Free(t) == t.pool \ t.assigned

EveryNeighbor(t, a) ==       \* wrong on purpose: those of other groups too
    {b \in t.pool \ {a} : <<a, b>> \in Near}

Neighbors(t, a) == {b \in Free(t) \ {a} : <<a, b>> \in Near}

\* The next anchor takes its neighbors if there are enough of them.
Scan(w) ==
    LET t == txn[w]
    IN  /\ t.pc = "scan"
        /\ \E a \in t.left :
              LET group == {a} \cup Neighbors(t, a)
                  rest  == [t EXCEPT !.left = @ \ {a}]
              IN  Step(w, IF a \in t.assigned \/ Cardinality(group) < MinSize
                          THEN rest
                          ELSE [rest EXCEPT !.assigned = @ \cup group,
                                            !.groups = Append(@, group)])

NumberedFromZero(k) == Len(clusters) + k - 1      \* wrong on purpose

\* The number of the k-th group's row.
Number(k) == Len(clusters) + k

CommitDetect(w) ==
    LET t == txn[w]
    IN  /\ t.pc = "scan"
        /\ t.left = {}
        /\ clusters' = clusters \o
              [k \in 1..Len(t.groups) |-> [group  |-> t.groups[k], status |-> "detected",
                                           count  |-> Cardinality(t.groups[k])]]
        /\ members' = members \cup
              UNION {{[cluster |-> Number(k), restaurant |-> r, role |-> "member"] :
                          r \in t.groups[k]} : k \in 1..Len(t.groups)}
        /\ End(w)
        /\ UNCHANGED <<plans, targets>>

-----------------------------------------------------------------------------
(* Expansion: anchors (the API only), then targets.                        *)

BeginExpand(w) ==
    \E c \in DOMAIN clusters, pc \in {"anchors", "select"} : Begin(w, OnCluster(pc, c))

\* The best fifth of the members, at least one; all of them count, whatever
\* their role.
Tops(c) ==
    LET R == {m.restaurant : m \in Roster(c)}
        n == IF Cardinality(R) < 5 THEN 1 ELSE Cardinality(R) \div 5
    IN  {A \in SUBSET R : /\ Cardinality(A) = n
                          /\ \A a \in A, b \in R \ A : Score[a] >= Score[b]}

Anchors(w) ==
    LET t == txn[w]
    IN  /\ t.pc = "anchors"
        /\ \E A \in Tops(t.cluster) :
              LET risen  == {m \in Roster(t.cluster) : m.restaurant \in A /\ m.role # "anchor"}
                  fallen == {m \in Roster(t.cluster) : m.restaurant \notin A /\ m.role = "anchor"}
              IN  Step(w, [t EXCEPT !.pc = "select",
                                    !.roles = {<<m.restaurant, "anchor">> : m \in risen} \cup
                                              {<<m.restaurant, "member">> : m \in fallen}])

\* The restaurants in reach that have no row in cluster_members.
Select(w) ==
    LET t == txn[w]
    IN  /\ t.pc = "select"
        /\ Step(w, [t EXCEPT !.pc = "insert",
                             !.found = Around[clusters[t.cluster].group] \
                                           {m.restaurant : m \in Roster(t.cluster)}])

Inserting(w, c) == IF txn[w].pc = "expand" /\ txn[w].cluster = c THEN txn[w].found ELSE {}

InsertUnchecked(w) ==        \* wrong on purpose: no unique key
    /\ txn[w].pc = "insert"
    /\ Step(w, [txn[w] EXCEPT !.pc = "expand"])

\* The flush waits for a transaction that has inserted the same member, and
\* fails, with all of the transaction, on one that is committed.
Insert(w) ==
    LET t == txn[w]
    IN  /\ t.pc = "insert"
        /\ \A v \in Workers \ {w} : Inserting(v, t.cluster) \cap t.found = {}
        /\ Step(w, IF \E m \in Roster(t.cluster) : m.restaurant \in t.found
                   THEN NoTxn ELSE [t EXCEPT !.pc = "expand"])

\* The role a member has after the transaction's updates.
NewRole(m, t) ==
    IF m.cluster = t.cluster /\ \E u \in t.roles : u[1] = m.restaurant
    THEN CHOOSE q \in Roles : <<m.restaurant, q>> \in t.roles
    ELSE m.role

\* Prospects join the cluster as members of that role.  A column is written
\* only when it differs from what was read.
CommitExpand(w) ==
    LET t == txn[w]
    IN  /\ t.pc = "expand"
        /\ members' = {[m EXCEPT !.role = NewRole(m, t)] : m \in members} \cup
              {[cluster |-> t.cluster, restaurant |-> r, role |-> "prospect"] : r \in t.found}
        /\ plans' = plans \cup
              {[cluster |-> t.cluster, restaurant |-> r, at |-> commits, status |-> "planned"] :
                  r \in t.found}
        /\ clusters' = IF t.found = {} \/ t.status = "expanding" THEN clusters
                       ELSE [clusters EXCEPT ![t.cluster].status = "expanding"]
        /\ End(w)
        /\ UNCHANGED targets

-----------------------------------------------------------------------------
(* Campaigns and statistics.                                               *)

BeginLaunch(w) ==
    \E c \in DOMAIN clusters :
        LET planned == {p \in plans : p.cluster = c /\ p.status = "planned"}
        IN  /\ planned # {}
            /\ Begin(w, [OnCluster("launch", c) EXCEPT !.plans = planned])

StayPlanned(w) ==            \* wrong on purpose: the plans stay planned
    LET t == txn[w]
    IN  /\ t.pc = "launch"
        /\ targets' = targets \cup
              {[cluster |-> t.cluster, restaurant |-> p.restaurant,
                from |-> t.from, to |-> commits + 1] : p \in t.plans}
        /\ End(w)
        /\ UNCHANGED <<clusters, members, plans>>

\* One target per plan that was read, and none of them is planned any more.
CommitLaunch(w) ==
    LET t == txn[w]
    IN  /\ t.pc = "launch"
        /\ targets' = targets \cup
              {[cluster |-> t.cluster, restaurant |-> p.restaurant,
                from |-> t.from, to |-> commits + 1] : p \in t.plans}
        /\ plans' = {p \in plans : [p EXCEPT !.status = "planned"] \notin t.plans} \cup
                    {[p EXCEPT !.status = "in_progress"] : p \in t.plans}
        /\ End(w)
        /\ UNCHANGED <<clusters, members>>

BeginRecalculate(w) ==
    \E c \in DOMAIN clusters :
        Begin(w, [OnCluster("recalculate", c) EXCEPT
                     !.count = Cardinality({m \in Roster(c) : m.role # "prospect"})])

\* The flywheel score is strong enough for "mature" or not.
CommitRecalculate(w) ==
    LET t == txn[w]
    IN  /\ t.pc = "recalculate"
        /\ \E strong \in BOOLEAN :
              LET status == IF t.count >= MatureSize /\ strong THEN "mature"
                            ELSE IF t.count >= ActiveSize THEN "active" ELSE t.status
              IN  clusters' = [clusters EXCEPT
                                  ![t.cluster].count = IF t.count = t.had THEN @ ELSE t.count,
                                  ![t.cluster].status = IF status = t.status THEN @ ELSE status]
        /\ End(w)
        /\ UNCHANGED <<members, plans, targets>>

\* A lost connection, a deadlock's victim, a failing statement.
Rollback(w) ==
    /\ txn[w].pc # "idle"
    /\ Step(w, NoTxn)

-----------------------------------------------------------------------------
Next ==
    \E w \in Workers :
        \/ BeginDetect(w) \/ Scan(w) \/ CommitDetect(w)
        \/ BeginExpand(w) \/ Anchors(w) \/ Select(w) \/ Insert(w) \/ CommitExpand(w)
        \/ BeginLaunch(w) \/ CommitLaunch(w)
        \/ BeginRecalculate(w) \/ CommitRecalculate(w)
        \/ Rollback(w)

Spec == Init /\ [][Next]_vars

-----------------------------------------------------------------------------
TypeOK ==
    /\ clusters \in Seq(ClusterRow)
    /\ members \subseteq Member
    /\ \A m \in members : m.cluster \in DOMAIN clusters
    /\ plans \subseteq Plan
    /\ targets \subseteq Target
    /\ txn \in [Workers -> Txn]
    /\ commits \in Nat
    /\ requests \in Nat

\* However expansions of a cluster overlap, a restaurant is planned at most
\* once: the unique key of another table, cluster_members, is what stops the
\* second plan (services/cluster_engine.py, plan_expansion).
PlannedOnce ==
    \A p, q \in plans :
        p.cluster = q.cluster /\ p.restaurant = q.restaurant => p = q

\* A cluster's campaigns contact a restaurant twice only if the two launches
\* overlapped: whatever is detected, planned or recalculated in between, a
\* launch after another's commit leaves its targets alone (launch_campaign).
LaunchesApart ==
    \A s, t \in targets :
        s.cluster = t.cluster /\ s.restaurant = t.restaurant =>
            s.from < t.to /\ t.from < s.to

\* Whatever order the restaurants come in, the groups of one detection are
\* apart, each is in reach of one of its own, and what is left over holds no
\* restaurant with enough free neighbors for a group (detect_clusters).
DetectionComplete ==
    \A w \in Workers :
        LET t == txn[w]
            G == {t.groups[k] : k \in DOMAIN t.groups}
        IN  t.pc = "scan" /\ t.left = {} =>
              /\ \A i, j \in DOMAIN t.groups : i # j => t.groups[i] \cap t.groups[j] = {}
              /\ \A g \in G : \E a \in g : \A b \in g \ {a} : <<a, b>> \in Near
              /\ \A a \in t.pool \ UNION G :
                    Cardinality({b \in t.pool \ UNION G : <<a, b>> \in Near /\ b # a}) + 1 < MinSize

=============================================================================
