----------------------- MODULE ClusterExpansionProofs -----------------------
(***************************************************************************)
(* Proofs about ClusterExpansion for every set of workers, restaurants and *)
(* distances: its type invariant, that nobody is planned twice for one     *)
(* cluster, that launches which do not overlap have no target in common,   *)
(* and that a detection leaves no group out.                               *)
(***************************************************************************)
EXTENDS ClusterExpansion, SequenceTheorems, FiniteSetTheorems, FunctionTheorems, TLAPS

\* A request that is about a cluster names a row, and rows are not deleted.
Named ==
    \A w \in Workers : txn[w].pc \notin {"idle", "scan"} => txn[w].cluster \in DOMAIN clusters

TypeInv == TypeOK /\ Named

-----------------------------------------------------------------------------
(* Lemmas about the parts of a step.                                       *)

LEMMA SeqDomain ==
    ASSUME NEW S, NEW s \in Seq(S)
    PROVE  DOMAIN s = 1..Len(s) /\ Len(s) \in Nat
  BY LenProperties

\* The rows of a cluster can be counted.
LEMMA Countable ==
    ASSUME TypeOK, NEW c, NEW T \in SUBSET Roster(c)
    PROVE  Cardinality(T) \in Nat
  <1> DEFINE f == [m \in T |-> <<m.restaurant, m.role>>]
  <1>1. \A m \in T : m \in Member /\ m.cluster = c
    BY DEF TypeOK, Roster
  <1>2. f \in [T -> Restaurants \X Roles]
    BY <1>1 DEF Member
  <1>3. \A m, n \in T : f[m] = f[n] => m = n
    BY <1>1 DEF Member
  <1>4. f \in Injection(T, Restaurants \X Roles)
    BY <1>2, <1>3, Fun_IsInj
  <1>5. IsFiniteSet(Roles)
    <2>1. IsFiniteSet({"anchor"})
      BY FS_Singleton
    <2>2. IsFiniteSet({"anchor"} \cup {"member"})
      BY <2>1, FS_AddElement
    <2>3. IsFiniteSet(({"anchor"} \cup {"member"}) \cup {"prospect"})
      BY <2>2, FS_AddElement
    <2>4. Roles = ({"anchor"} \cup {"member"}) \cup {"prospect"}
      BY DEF Roles
    <2>5. QED
      BY <2>3, <2>4
  <1>6. IsFiniteSet(Restaurants \X Roles)
    BY <1>5, FS_Product, ClusterAssumption
  <1>7. IsFiniteSet(T)
    BY <1>4, <1>6, FS_Injection
  <1>8. QED
    BY <1>7, FS_CardinalityType

LEMMA GroupCountable ==
    ASSUME NEW g \in SUBSET Restaurants
    PROVE  Cardinality(g) \in Nat
  BY FS_Subset, FS_CardinalityType, ClusterAssumption

\* Only w's transaction changes, to t.
Moves(w, t) == txn' = [txn EXCEPT ![w] = t]

LEMMA Moved ==
    ASSUME TypeOK, NEW w \in Workers, NEW t \in Txn, Moves(w, t)
    PROVE  /\ txn' \in [Workers -> Txn]
           /\ txn'[w] = t
           /\ \A v \in Workers : v # w => txn'[v] = txn[v]
  BY DEF TypeOK, Moves

LEMMA NoTxnTyped == NoTxn \in Txn /\ NoTxn.pc = "idle"
  <1>1. <<>> \in Seq(SUBSET Restaurants)
    BY EmptySeq
  <1>2. QED
    BY <1>1 DEF NoTxn, Txn, Statuses

\* The rest of the type invariant follows from the rows.
Rows ==
    /\ clusters \in Seq(ClusterRow)
    /\ members \subseteq Member
    /\ \A m \in members : m.cluster \in DOMAIN clusters
    /\ plans \subseteq Plan
    /\ targets \subseteq Target
    /\ commits \in Nat
    /\ requests \in Nat

LEMMA TypeStep ==
    ASSUME TypeInv, NEW w \in Workers, NEW t \in Txn, Moves(w, t), Rows',
           t.pc \notin {"idle", "scan"} => t.cluster \in DOMAIN clusters',
           DOMAIN clusters \subseteq DOMAIN clusters'
    PROVE  TypeInv'
  <1>1. /\ txn' \in [Workers -> Txn]
        /\ txn'[w] = t
        /\ \A v \in Workers : v # w => txn'[v] = txn[v]
    BY Moved DEF TypeInv
  <1>2. TypeOK'
    BY <1>1 DEF TypeOK, Rows
  <1>3. ASSUME NEW v \in Workers, txn'[v].pc \notin {"idle", "scan"}
        PROVE  txn'[v].cluster \in DOMAIN clusters'
    <2>1. CASE v = w
      BY <2>1, <1>1, <1>3
    <2>2. CASE v # w
      BY <2>2, <1>1, <1>3 DEF TypeInv, Named
    <2>3. QED
      BY <2>1, <2>2
  <1>4. QED
    BY <1>2, <1>3 DEF TypeInv, Named

\* A step that writes no row.
LEMMA QuietStep ==
    ASSUME TypeInv, NEW w \in Workers, NEW t \in Txn, Moves(w, t),
           UNCHANGED <<db, commits>>, requests' \in Nat,
           t.pc \notin {"idle", "scan"} => t.cluster \in DOMAIN clusters
    PROVE  TypeInv'
  <1>1. Rows'
    BY DEF TypeInv, TypeOK, Rows, db
  <1>2. DOMAIN clusters \subseteq DOMAIN clusters' /\ DOMAIN clusters' = DOMAIN clusters
    BY DEF db
  <1>3. QED
    BY <1>1, <1>2, TypeStep

LEMMA StepStep ==
    ASSUME TypeInv, NEW w \in Workers, NEW t \in Txn, Step(w, t),
           t.pc \notin {"idle", "scan"} => t.cluster \in DOMAIN clusters
    PROVE  TypeInv'
  <1>1. Moves(w, t) /\ UNCHANGED <<db, commits>> /\ requests' \in Nat
    BY DEF Step, Moves, TypeInv, TypeOK
  <1>2. QED
    BY <1>1, QuietStep

LEMMA BeginStep ==
    ASSUME TypeInv, NEW w \in Workers, NEW t \in Txn, Begin(w, t),
           t.pc \notin {"idle", "scan"} => t.cluster \in DOMAIN clusters
    PROVE  TypeInv'
  <1>1. Moves(w, t) /\ UNCHANGED <<db, commits>> /\ requests' \in Nat
    BY DEF Begin, Moves, TypeInv, TypeOK
  <1>2. QED
    BY <1>1, QuietStep

LEMMA OnClusterTyped ==
    ASSUME TypeOK, NEW c \in DOMAIN clusters,
           NEW pc \in {"anchors", "select", "launch", "recalculate"}
    PROVE  /\ OnCluster(pc, c) \in Txn
           /\ OnCluster(pc, c).pc = pc
           /\ OnCluster(pc, c).cluster = c
           /\ OnCluster(pc, c).from = commits
  <1>1. c \in Nat /\ clusters[c] \in ClusterRow
    BY SeqDomain, ElementOfSeq DEF TypeOK
  <1>2. clusters[c].status \in Statuses /\ clusters[c].count \in Nat /\ commits \in Nat
    BY <1>1 DEF ClusterRow, TypeOK
  <1>3. QED
    BY <1>1, <1>2, NoTxnTyped DEF OnCluster, NoTxn, Txn

-----------------------------------------------------------------------------
(* The type invariant, action by action.                                   *)

LEMMA TypeInit == Init => TypeInv
  <1> SUFFICES ASSUME Init PROVE TypeInv
    OBVIOUS
  <1>1. <<>> \in Seq(ClusterRow)
    BY EmptySeq
  <1>2. QED
    BY <1>1, NoTxnTyped DEF Init, TypeInv, TypeOK, Named

LEMMA BusyTyped ==
    ASSUME TypeInv, NEW w \in Workers
    PROVE  /\ txn[w] \in Txn
           /\ txn[w].pc \notin {"idle", "scan"} =>
                 txn[w].cluster \in DOMAIN clusters /\ clusters[txn[w].cluster] \in ClusterRow
  <1>1. txn[w] \in Txn
    BY DEF TypeInv, TypeOK
  <1>2. \A c \in DOMAIN clusters : clusters[c] \in ClusterRow
    BY SeqDomain, ElementOfSeq DEF TypeInv, TypeOK
  <1>3. QED
    BY <1>1, <1>2 DEF TypeInv, Named

LEMMA DetectType ==
    ASSUME TypeInv, NEW w \in Workers, BeginDetect(w) \/ Scan(w)
    PROVE  TypeInv'
  <1>1. CASE BeginDetect(w)
    <2>1. PICK S \in Zips :
             Begin(w, [NoTxn EXCEPT !.pc = "scan", !.pool = S, !.left = S])
      BY <1>1 DEF BeginDetect
    <2> DEFINE t == [NoTxn EXCEPT !.pc = "scan", !.pool = S, !.left = S]
    <2>2. S \subseteq Restaurants
      BY ClusterAssumption
    <2>3. t \in Txn /\ t.pc = "scan"
      BY <2>2, NoTxnTyped DEF NoTxn, Txn
    <2> HIDE DEF t
    <2>4. QED
      BY <2>1, <2>3, BeginStep DEF t
  <1>2. CASE Scan(w)
    <2>1. PICK a \in txn[w].left :
            LET group == {a} \cup Neighbors(txn[w], a)
                rest  == [txn[w] EXCEPT !.left = @ \ {a}]
            IN  Step(w, IF a \in txn[w].assigned \/ Cardinality(group) < MinSize
                        THEN rest
                        ELSE [rest EXCEPT !.assigned = @ \cup group,
                                          !.groups = Append(@, group)])
      BY <1>2 DEF Scan
    <2> DEFINE group == {a} \cup Neighbors(txn[w], a)
               rest  == [txn[w] EXCEPT !.left = @ \ {a}]
               full  == [rest EXCEPT !.assigned = @ \cup group, !.groups = Append(@, group)]
    <2>2. txn[w] \in Txn /\ txn[w].pc = "scan"
      BY <1>2, BusyTyped DEF Scan
    <2>3. rest \in Txn /\ rest.pc = "scan"
      BY <2>2 DEF Txn
    <2>4. group \subseteq Restaurants
      BY <2>2 DEF Txn, Neighbors, Free
    <2>5. Append(rest.groups, group) \in Seq(SUBSET Restaurants)
      BY <2>3, <2>4 DEF Txn
    <2> HIDE DEF group, rest
    <2>6. full \in Txn /\ full.pc = "scan"
      BY <2>3, <2>4, <2>5 DEF Txn
    <2>7. Step(w, rest) \/ Step(w, full)
      BY <2>1 DEF group, rest
    <2> HIDE DEF full
    <2>8. QED
      BY <2>3, <2>6, <2>7, StepStep
  <1>3. QED
    BY <1>1, <1>2

\* The rows a detection adds.
Fresh(t) == [k \in 1..Len(t.groups) |-> [group  |-> t.groups[k], status |-> "detected",
                                          count  |-> Cardinality(t.groups[k])]]

LEMMA FreshTyped ==
    ASSUME NEW t \in Txn, TypeOK
    PROVE  /\ clusters \o Fresh(t) \in Seq(ClusterRow)
           /\ DOMAIN (clusters \o Fresh(t)) = 1..(Len(clusters) + Len(t.groups))
           /\ Len(clusters) \in Nat /\ Len(t.groups) \in Nat
           /\ \A c \in DOMAIN clusters : (clusters \o Fresh(t))[c] = clusters[c]
  <1>1. t.groups \in Seq(SUBSET Restaurants)
    BY DEF Txn
  <1>2. Len(t.groups) \in Nat /\ \A k \in 1..Len(t.groups) : t.groups[k] \in SUBSET Restaurants
    BY <1>1, LenProperties, ElementOfSeq
  <1>3. \A k \in 1..Len(t.groups) : Cardinality(t.groups[k]) \in Nat
    BY <1>2, GroupCountable
  <1>4. \A k \in 1..Len(t.groups) :
            [group |-> t.groups[k], status |-> "detected",
             count |-> Cardinality(t.groups[k])] \in ClusterRow
    BY <1>2, <1>3 DEF ClusterRow, Statuses
  <1>5. Fresh(t) \in Seq(ClusterRow) /\ Len(Fresh(t)) = Len(t.groups)
    BY <1>2, <1>4 DEF Fresh
  <1>6. clusters \in Seq(ClusterRow)
    BY DEF TypeOK
  <1> HIDE DEF Fresh
  <1>7. /\ clusters \o Fresh(t) \in Seq(ClusterRow)
        /\ Len(clusters \o Fresh(t)) = Len(clusters) + Len(t.groups)
        /\ \A c \in 1..Len(clusters) : (clusters \o Fresh(t))[c] = clusters[c]
    BY <1>2, <1>5, <1>6
  <1>8. QED
    BY <1>2, <1>6, <1>7, SeqDomain

LEMMA CommitDetectType ==
    ASSUME TypeInv, NEW w \in Workers, CommitDetect(w)
    PROVE  TypeInv'
  <1> DEFINE t == txn[w]
             n == Len(t.groups)
  <1>1. t \in Txn
    BY BusyTyped
  <1>2. /\ clusters' = clusters \o Fresh(t)
        /\ members' = members \cup
              UNION {{[cluster |-> Number(k), restaurant |-> r, role |-> "member"] :
                          r \in t.groups[k]} : k \in 1..n}
        /\ UNCHANGED <<plans, targets, requests>>
        /\ commits' = commits + 1
        /\ Moves(w, NoTxn)
    BY DEF CommitDetect, Fresh, End, Moves
  <1>3. /\ clusters' \in Seq(ClusterRow)
        /\ DOMAIN clusters' = 1..(Len(clusters) + n)
        /\ Len(clusters) \in Nat /\ n \in Nat
    BY <1>1, <1>2, FreshTyped DEF TypeInv
  <1>4. DOMAIN clusters = 1..Len(clusters)
    BY SeqDomain DEF TypeInv, TypeOK
  <1>5. t.groups \in Seq(SUBSET Restaurants)
    BY <1>1 DEF Txn
  <1>6. \A k \in 1..n : t.groups[k] \subseteq Restaurants
    BY <1>5, ElementOfSeq
  <1>7. \A k \in 1..n : Number(k) \in DOMAIN clusters' /\ Number(k) \in Nat
    BY <1>3 DEF Number
  <1> HIDE DEF t, n
  <1>8. ASSUME NEW m \in members' PROVE m \in Member /\ m.cluster \in DOMAIN clusters'
    <2>1. CASE m \in members
      BY <2>1, <1>3, <1>4 DEF TypeInv, TypeOK
    <2>2. CASE m \notin members
      <3>1. PICK k \in 1..n : \E r \in t.groups[k] :
               m = [cluster |-> Number(k), restaurant |-> r, role |-> "member"]
        BY <2>2, <1>2
      <3>2. QED
        BY <3>1, <1>6, <1>7 DEF Member, Roles
    <2>3. QED
      BY <2>1, <2>2
  <1>9. Rows'
    BY <1>2, <1>3, <1>8 DEF Rows, TypeInv, TypeOK
  <1>10. DOMAIN clusters \subseteq DOMAIN clusters'
    BY <1>3, <1>4
  <1>11. QED
    BY <1>2, <1>9, <1>10, NoTxnTyped, TypeStep

LEMMA ExpandType ==
    ASSUME TypeInv, NEW w \in Workers,
           BeginExpand(w) \/ Anchors(w) \/ Select(w) \/ Insert(w)
    PROVE  TypeInv'
  <1> DEFINE t == txn[w]
  <1>1. t \in Txn /\ (t.pc \notin {"idle", "scan"} => t.cluster \in DOMAIN clusters)
    BY BusyTyped
  <1>2. CASE BeginExpand(w)
    <2>1. PICK c \in DOMAIN clusters, pc \in {"anchors", "select"} : Begin(w, OnCluster(pc, c))
      BY <1>2 DEF BeginExpand
    <2>2. OnCluster(pc, c) \in Txn /\ OnCluster(pc, c).cluster = c
      BY OnClusterTyped DEF TypeInv
    <2>3. QED
      BY <2>1, <2>2, BeginStep
  <1>3. CASE Anchors(w)
    <2> DEFINE now(A) ==
            {<<m.restaurant, "anchor">> : m \in {x \in Roster(t.cluster) : x.restaurant \in A /\ x.role # "anchor"}} \cup
            {<<m.restaurant, "member">> : m \in {x \in Roster(t.cluster) : x.restaurant \notin A /\ x.role = "anchor"}}
    <2>1. PICK A \in Tops(t.cluster) : Step(w, [t EXCEPT !.pc = "select", !.roles = now(A)])
      BY <1>3 DEF Anchors
    <2>2. now(A) \subseteq Restaurants \X Roles
      BY DEF TypeInv, TypeOK, Roster, Member, Roles
    <2> HIDE DEF now
    <2>3. [t EXCEPT !.pc = "select", !.roles = now(A)] \in Txn
      BY <1>1, <2>2 DEF Txn
    <2>4. t.cluster \in DOMAIN clusters
      BY <1>1, <1>3 DEF Anchors
    <2>5. QED
      BY <1>1, <2>1, <2>3, <2>4, StepStep DEF Txn
  <1>4. CASE Select(w)
    <2> DEFINE found == Around[clusters[t.cluster].group] \
                            {m.restaurant : m \in Roster(t.cluster)}
    <2>1. Step(w, [t EXCEPT !.pc = "insert", !.found = found]) /\ t.cluster \in DOMAIN clusters
      BY <1>1, <1>4 DEF Select
    <2>2. clusters[t.cluster].group \in SUBSET Restaurants
      BY <1>4, BusyTyped DEF ClusterRow, Select
    <2>3. found \subseteq Restaurants
      BY <2>2, ClusterAssumption
    <2> HIDE DEF found
    <2>4. [t EXCEPT !.pc = "insert", !.found = found] \in Txn
      BY <1>1, <2>3 DEF Txn
    <2>5. QED
      BY <1>1, <2>1, <2>4, StepStep DEF Txn
  <1>5. CASE Insert(w)
    <2>1. /\ Step(w, NoTxn) \/ Step(w, [t EXCEPT !.pc = "expand"])
          /\ t.cluster \in DOMAIN clusters
      BY <1>1, <1>5 DEF Insert
    <2>2. [t EXCEPT !.pc = "expand"] \in Txn
      BY <1>1 DEF Txn
    <2>3. QED
      BY <1>1, <2>1, <2>2, NoTxnTyped, StepStep DEF Txn
  <1>6. QED
    BY <1>2, <1>3, <1>4, <1>5

\* A role change leaves a member's cluster and restaurant alone.
LEMMA RoleTyped ==
    ASSUME NEW m \in Member, NEW t \in Txn
    PROVE  /\ [m EXCEPT !.role = NewRole(m, t)] \in Member
           /\ [m EXCEPT !.role = NewRole(m, t)].cluster = m.cluster
           /\ [m EXCEPT !.role = NewRole(m, t)].restaurant = m.restaurant
  <1>1. NewRole(m, t) \in Roles
    <2>1. CASE \E u \in t.roles : u[1] = m.restaurant
      <3>1. PICK u \in t.roles : u[1] = m.restaurant
        BY <2>1
      <3>2. u \in Restaurants \X Roles
        BY <3>1 DEF Txn
      <3>3. u[2] \in Roles /\ <<m.restaurant, u[2]>> \in t.roles
        BY <3>1, <3>2
      <3>4. (CHOOSE q \in Roles : <<m.restaurant, q>> \in t.roles) \in Roles
        BY <3>3
      <3>5. QED
        BY <3>4 DEF NewRole, Member
    <2>2. CASE ~ \E u \in t.roles : u[1] = m.restaurant
      BY <2>2 DEF NewRole, Member
    <2>3. QED
      BY <2>1, <2>2
  <1>2. QED
    BY <1>1 DEF Member

\* What an expansion writes.
LEMMA ExpandWrites ==
    ASSUME TypeInv, NEW w \in Workers, CommitExpand(w)
    PROVE  /\ txn[w] \in Txn /\ txn[w].pc = "expand"
           /\ txn[w].cluster \in DOMAIN clusters /\ txn[w].found \subseteq Restaurants
           /\ clusters' \in Seq(ClusterRow) /\ DOMAIN clusters' = DOMAIN clusters
           /\ members' = {[m EXCEPT !.role = NewRole(m, txn[w])] : m \in members} \cup
                {[cluster |-> txn[w].cluster, restaurant |-> r, role |-> "prospect"] :
                    r \in txn[w].found}
           /\ plans' = plans \cup
                {[cluster |-> txn[w].cluster, restaurant |-> r, at |-> commits,
                  status |-> "planned"] : r \in txn[w].found}
           /\ UNCHANGED <<targets, requests>>
           /\ commits' = commits + 1
           /\ Moves(w, NoTxn)
  <1> DEFINE t == txn[w]
             c == t.cluster
  <1>1. /\ t \in Txn /\ t.pc = "expand" /\ c \in DOMAIN clusters
        /\ clusters[c] \in ClusterRow
    BY BusyTyped DEF CommitExpand
  <1>2. t.found \subseteq Restaurants
    BY <1>1 DEF Txn
  <1>3. clusters \in Seq(ClusterRow) /\ c \in 1..Len(clusters)
    BY <1>1, SeqDomain DEF TypeInv, TypeOK
  <1>4. [clusters[c] EXCEPT !.status = "expanding"] \in ClusterRow
    BY <1>1 DEF ClusterRow, Statuses
  <1> DEFINE grown == [clusters EXCEPT ![c] = [clusters[c] EXCEPT !.status = "expanding"]]
  <1>5. grown \in Seq(ClusterRow) /\ Len(grown) = Len(clusters)
    BY <1>3, <1>4, ExceptSeq
  <1>6. clusters' = clusters \/ clusters' = grown
    BY DEF CommitExpand
  <1> HIDE DEF grown
  <1>7. clusters' \in Seq(ClusterRow) /\ DOMAIN clusters' = DOMAIN clusters
    BY <1>3, <1>5, <1>6, SeqDomain
  <1>8. QED
    BY <1>1, <1>2, <1>7 DEF CommitExpand, End, Moves

LEMMA CommitExpandType ==
    ASSUME TypeInv, NEW w \in Workers, CommitExpand(w)
    PROVE  TypeInv'
  <1> DEFINE t == txn[w]
  <1>1. /\ t \in Txn /\ t.cluster \in DOMAIN clusters /\ t.found \subseteq Restaurants
        /\ clusters' \in Seq(ClusterRow) /\ DOMAIN clusters' = DOMAIN clusters
        /\ UNCHANGED <<targets, requests>> /\ commits' = commits + 1 /\ Moves(w, NoTxn)
    BY ExpandWrites
  <1>2. t.cluster \in Nat /\ commits \in Nat
    BY <1>1 DEF Txn, TypeInv, TypeOK
  <1>3. ASSUME NEW m \in members' PROVE m \in Member /\ m.cluster \in DOMAIN clusters'
    <2>1. CASE \E x \in members : m = [x EXCEPT !.role = NewRole(x, t)]
      <3>1. PICK x \in members : m = [x EXCEPT !.role = NewRole(x, t)]
        BY <2>1
      <3>2. x \in Member /\ x.cluster \in DOMAIN clusters
        BY DEF TypeInv, TypeOK
      <3>3. m \in Member /\ m.cluster = x.cluster
        BY <1>1, <3>1, <3>2, RoleTyped
      <3>4. QED
        BY <1>1, <3>2, <3>3
    <2>2. CASE \E r \in t.found :
                  m = [cluster |-> t.cluster, restaurant |-> r, role |-> "prospect"]
      BY <1>1, <1>2, <2>2 DEF Member, Roles
    <2>3. QED
      BY <2>1, <2>2, ExpandWrites
  <1>4. plans' = plans \cup {[cluster |-> t.cluster, restaurant |-> r, at |-> commits,
                              status |-> "planned"] : r \in t.found}
    BY ExpandWrites
  <1>5. plans' \subseteq Plan
    BY <1>1, <1>2, <1>4 DEF Plan, TypeInv, TypeOK
  <1>6. Rows'
    BY <1>1, <1>3, <1>5 DEF Rows, TypeInv, TypeOK
  <1>7. QED
    BY <1>1, <1>6, NoTxnTyped, TypeStep


LEMMA LaunchType ==
    ASSUME TypeInv, NEW w \in Workers, BeginLaunch(w) \/ CommitLaunch(w)
    PROVE  TypeInv'
  <1>1. CASE BeginLaunch(w)
    <2> DEFINE planned(c) == {p \in plans : p.cluster = c /\ p.status = "planned"}
    <2>1. PICK c \in DOMAIN clusters :
             Begin(w, [OnCluster("launch", c) EXCEPT !.plans = planned(c)])
      BY <1>1 DEF BeginLaunch
    <2>2. planned(c) \subseteq Plan
      BY DEF TypeInv, TypeOK
    <2> HIDE DEF planned
    <2> DEFINE t == [OnCluster("launch", c) EXCEPT !.plans = planned(c)]
    <2>2a. OnCluster("launch", c) \in Txn /\ OnCluster("launch", c).cluster = c
      BY OnClusterTyped DEF TypeInv
    <2>3. t \in Txn /\ t.cluster = c
      BY <2>2, <2>2a DEF Txn
    <2>4. Begin(w, t)
      BY <2>1
    <2> HIDE DEF t
    <2>5. QED
      BY <2>3, <2>4, BeginStep
  <1>2. CASE CommitLaunch(w)
    <2> DEFINE t == txn[w]
    <2>1. t \in Txn /\ Moves(w, NoTxn) /\ UNCHANGED <<clusters, members, requests>>
      BY <1>2, BusyTyped DEF CommitLaunch, End, Moves
    <2>2. /\ t.plans \subseteq Plan /\ t.cluster \in Nat /\ t.from \in Nat
          /\ commits \in Nat /\ commits' = commits + 1
      BY <1>2, <2>1 DEF Txn, TypeInv, TypeOK, CommitLaunch, End
    <2>3. targets' = targets \cup
              {[cluster |-> t.cluster, restaurant |-> p.restaurant,
                from |-> t.from, to |-> commits + 1] : p \in t.plans}
      BY <1>2 DEF CommitLaunch
    <2>4. targets' \subseteq Target
      BY <2>2, <2>3 DEF Target, Plan, TypeInv, TypeOK
    <2>5. plans' \subseteq Plan
      <3>1. \A p \in t.plans : [p EXCEPT !.status = "in_progress"] \in Plan
        BY <2>2 DEF Plan
      <3>2. plans \subseteq Plan
        BY DEF TypeInv, TypeOK
      <3>3. QED
        BY <1>2, <3>1, <3>2 DEF CommitLaunch
    <2>6. Rows'
      BY <2>1, <2>2, <2>4, <2>5 DEF Rows, TypeInv, TypeOK
    <2>7. QED
      BY <2>1, <2>6, NoTxnTyped, TypeStep
  <1>3. QED
    BY <1>1, <1>2

LEMMA RecalculateType ==
    ASSUME TypeInv, NEW w \in Workers, BeginRecalculate(w) \/ CommitRecalculate(w)
    PROVE  TypeInv' /\ DOMAIN clusters' = DOMAIN clusters
  <1>1. CASE BeginRecalculate(w)
    <2> DEFINE counted(c) == Cardinality({m \in Roster(c) : m.role # "prospect"})
    <2>1. PICK c \in DOMAIN clusters :
             Begin(w, [OnCluster("recalculate", c) EXCEPT !.count = counted(c)])
      BY <1>1 DEF BeginRecalculate
    <2>2. counted(c) \in Nat
      BY Countable DEF TypeInv
    <2> HIDE DEF counted
    <2> DEFINE t == [OnCluster("recalculate", c) EXCEPT !.count = counted(c)]
    <2>2a. OnCluster("recalculate", c) \in Txn /\ OnCluster("recalculate", c).cluster = c
      BY OnClusterTyped DEF TypeInv
    <2>3. t \in Txn /\ t.cluster = c
      BY <2>2, <2>2a DEF Txn
    <2>4. Begin(w, t)
      BY <2>1
    <2> HIDE DEF t
    <2>5. TypeInv'
      BY <2>3, <2>4, BeginStep
    <2>6. QED
      BY <2>4, <2>5 DEF Begin, db
  <1>2. CASE CommitRecalculate(w)
    <2> DEFINE t == txn[w]
               c == t.cluster
    <2>1. t \in Txn /\ c \in DOMAIN clusters /\ clusters[c] \in ClusterRow
      BY <1>2, BusyTyped DEF CommitRecalculate
    <2>2. PICK strong \in BOOLEAN :
             LET status == IF t.count >= MatureSize /\ strong THEN "mature"
                           ELSE IF t.count >= ActiveSize THEN "active" ELSE t.status
             IN  clusters' = [clusters EXCEPT
                                 ![c].count = IF t.count = t.had THEN @ ELSE t.count,
                                 ![c].status = IF status = t.status THEN @ ELSE status]
      BY <1>2 DEF CommitRecalculate
    <2>3. \E status \in Statuses, count \in Nat :
             clusters' = [clusters EXCEPT ![c] = [clusters[c] EXCEPT !.count = count,
                                                                     !.status = status]]
      <3> DEFINE reached == IF t.count >= MatureSize /\ strong THEN "mature"
                            ELSE IF t.count >= ActiveSize THEN "active" ELSE t.status
                 status == IF reached = t.status THEN clusters[c].status ELSE reached
                 count  == IF t.count = t.had THEN clusters[c].count ELSE t.count
      <3>1. status \in Statuses /\ count \in Nat
        BY <2>1 DEF Txn, ClusterRow, Statuses
      <3>2. clusters' = [clusters EXCEPT ![c] = [clusters[c] EXCEPT !.count = count,
                                                                     !.status = status]]
        BY <2>1, <2>2 DEF ClusterRow
      <3>3. QED
        BY <3>1, <3>2
    <2>3a. PICK status \in Statuses, count \in Nat :
             clusters' = [clusters EXCEPT ![c] = [clusters[c] EXCEPT !.count = count,
                                                                     !.status = status]]
      BY <2>3
    <2> DEFINE row == [clusters[c] EXCEPT !.count = count, !.status = status]
    <2>4. row \in ClusterRow
      BY <2>1 DEF ClusterRow
    <2>5. clusters \in Seq(ClusterRow) /\ c \in 1..Len(clusters)
      BY <2>1, SeqDomain DEF TypeInv, TypeOK
    <2>6. clusters' = [clusters EXCEPT ![c] = row]
      BY <2>3a
    <2> HIDE DEF row
    <2>7. clusters' \in Seq(ClusterRow) /\ DOMAIN clusters' = DOMAIN clusters
      BY <2>4, <2>5, <2>6, ExceptSeq, SeqDomain
    <2>8. Moves(w, NoTxn) /\ UNCHANGED <<members, plans, targets, requests>> /\ commits' \in Nat
      BY <1>2 DEF CommitRecalculate, End, Moves, TypeInv, TypeOK
    <2>9. Rows'
      BY <2>7, <2>8 DEF Rows, TypeInv, TypeOK
    <2>10. QED
      BY <2>7, <2>8, <2>9, NoTxnTyped, TypeStep
  <1>3. QED
    BY <1>1, <1>2

LEMMA RollbackType ==
    ASSUME TypeInv, NEW w \in Workers, Rollback(w)
    PROVE  TypeInv'
  BY NoTxnTyped, StepStep DEF Rollback

LEMMA TypeNext == TypeInv /\ [Next]_vars => TypeInv'
  <1> SUFFICES ASSUME TypeInv, [Next]_vars PROVE TypeInv'
    OBVIOUS
  <1>1. CASE UNCHANGED vars
    BY <1>1 DEF TypeInv, TypeOK, Named, vars, db
  <1>2. CASE Next
    BY <1>2, DetectType, CommitDetectType, ExpandType, CommitExpandType, LaunchType,
       RecalculateType, RollbackType DEF Next
  <1>3. QED
    BY <1>1, <1>2

\* Every value has its type, for any number of restaurants and workers, and a
\* request that is about a cluster names one that exists
\* (services/cluster_engine.py).
THEOREM TypeCorrect == Spec => []TypeOK
  <1>1. TypeInv => TypeOK
    BY DEF TypeInv
  <1>2. QED
    BY TypeInit, TypeNext, <1>1, PTL DEF Spec


-----------------------------------------------------------------------------
(* Nobody is planned twice.                                                *)

Same(x, y) == x.cluster = y.cluster /\ x.restaurant = y.restaurant

\* Behind every plan there is a row of the table that has the unique key.
PlansAreMembers == \A p \in plans : \E m \in members : Same(m, p)

\* A transaction that has passed the key plans restaurants that have no row,
\* and that no other transaction plans for the cluster.
KeysAreFree ==
    \A w \in Workers : txn[w].pc = "expand" =>
        \A m \in members : m.cluster = txn[w].cluster => m.restaurant \notin txn[w].found

KeysAreHeld ==
    \A v, w \in Workers :
        v # w /\ txn[v].pc = "expand" /\ txn[w].pc = "expand"
              /\ txn[v].cluster = txn[w].cluster
        => txn[v].found \cap txn[w].found = {}

\* What a launch has read is planned, or was when it read it.
LaunchesReadPlans ==
    \A w \in Workers : txn[w].pc = "launch" =>
        \A p \in txn[w].plans :
            /\ p.status = "planned" /\ p.cluster = txn[w].cluster
            /\ \E q \in plans : Same(q, p) /\ q.at = p.at

PlanInv ==
    /\ TypeInv /\ PlannedOnce /\ PlansAreMembers
    /\ KeysAreFree /\ KeysAreHeld /\ LaunchesReadPlans

LEMMA PlanInit == Init => PlanInv
  BY TypeInit DEF Init, PlanInv, PlannedOnce, PlansAreMembers, KeysAreFree, KeysAreHeld,
                  LaunchesReadPlans, NoTxn

\* A transaction that ends holds no key and has no plans.
LEMMA EndedInv ==
    ASSUME PlanInv, NEW w \in Workers, Moves(w, NoTxn), members' = members, plans' = plans, TypeInv'
    PROVE  PlanInv'
  <1>1. /\ txn'[w].pc = "idle"
        /\ \A v \in Workers : v # w => txn'[v] = txn[v]
    BY Moved, NoTxnTyped DEF PlanInv, TypeInv
  <1>2. PlannedOnce' /\ PlansAreMembers'
    BY DEF PlanInv, PlannedOnce, PlansAreMembers
  <1>3. KeysAreFree' /\ KeysAreHeld' /\ LaunchesReadPlans'
    BY <1>1 DEF PlanInv, KeysAreFree, KeysAreHeld, LaunchesReadPlans
  <1>4. QED
    BY <1>2, <1>3 DEF PlanInv

\* A step that neither passes the key nor starts a launch.
LEMMA QuietInv ==
    ASSUME PlanInv, NEW w \in Workers, UNCHANGED db, TypeInv',
           txn'[w].pc \notin {"expand", "launch"},
           \A v \in Workers : v # w => txn'[v] = txn[v]
    PROVE  PlanInv'
  <1>2. members' = members /\ plans' = plans
    BY DEF db
  <1>3. PlannedOnce' /\ PlansAreMembers'
    BY <1>2 DEF PlanInv, PlannedOnce, PlansAreMembers
  <1>4. KeysAreFree' /\ KeysAreHeld' /\ LaunchesReadPlans'
    BY <1>2 DEF PlanInv, KeysAreFree, KeysAreHeld, LaunchesReadPlans
  <1>5. QED
    BY <1>3, <1>4 DEF PlanInv


\* Detection, anchors, selection and statistics before their commits.
LEMMA ReadingMoves ==
    ASSUME TypeInv, NEW w \in Workers,
           \/ BeginDetect(w) \/ Scan(w) \/ BeginExpand(w) \/ Anchors(w) \/ Select(w)
           \/ BeginRecalculate(w) \/ Rollback(w)
    PROVE  /\ txn'[w].pc \notin {"expand", "launch"}
           /\ \A v \in Workers : v # w => txn'[v] = txn[v]
           /\ UNCHANGED <<db, commits>>
  <1>1. txn[w] \in Txn
    BY BusyTyped
  <1>2. txn \in [Workers -> Txn]
    BY DEF TypeInv, TypeOK
  <1>3. /\ txn'[w].pc \notin {"expand", "launch"}
        /\ \A v \in Workers : v # w => txn'[v] = txn[v]
    <2>1. CASE BeginDetect(w)
      BY <1>2, <2>1 DEF BeginDetect, Begin, NoTxn
    <2>2. CASE Scan(w)
      <3>1. PICK a \in txn[w].left :
              LET group == {a} \cup Neighbors(txn[w], a)
                  rest  == [txn[w] EXCEPT !.left = @ \ {a}]
              IN  Step(w, IF a \in txn[w].assigned \/ Cardinality(group) < MinSize
                          THEN rest
                          ELSE [rest EXCEPT !.assigned = @ \cup group,
                                            !.groups = Append(@, group)])
        BY <2>2 DEF Scan
      <3> DEFINE group == {a} \cup Neighbors(txn[w], a)
                 rest  == [txn[w] EXCEPT !.left = @ \ {a}]
                 full  == [rest EXCEPT !.assigned = @ \cup group, !.groups = Append(@, group)]
      <3>2. rest.pc = "scan" /\ full.pc = "scan"
        BY <1>1, <2>2 DEF Txn, Scan
      <3>3. txn' = [txn EXCEPT ![w] = rest] \/ txn' = [txn EXCEPT ![w] = full]
        BY <3>1 DEF Step
      <3> HIDE DEF rest, full
      <3>4. QED
        BY <1>2, <3>2, <3>3
    <2>3. CASE BeginExpand(w)
      BY <1>2, <2>3 DEF BeginExpand, Begin, OnCluster, NoTxn
    <2>4. CASE Anchors(w)
      BY <1>1, <1>2, <2>4 DEF Anchors, Step, Txn
    <2>5. CASE Select(w)
      BY <1>1, <1>2, <2>5 DEF Select, Step, Txn
    <2>6. CASE BeginRecalculate(w)
      BY <1>2, <2>6 DEF BeginRecalculate, Begin, OnCluster, NoTxn
    <2>7. CASE Rollback(w)
      BY <1>2, <2>7 DEF Rollback, Step, NoTxn
    <2>8. QED
      BY <2>1, <2>2, <2>3, <2>4, <2>5, <2>6, <2>7
  <1>4. UNCHANGED <<db, commits>>
    BY DEF BeginDetect, Scan, BeginExpand, Anchors, Select, BeginRecalculate, Rollback,
           Begin, Step
  <1>5. QED
    BY <1>3, <1>4

LEMMA ReadingInv ==
    ASSUME PlanInv, TypeInv', NEW w \in Workers,
           \/ BeginDetect(w) \/ Scan(w) \/ BeginExpand(w) \/ Anchors(w) \/ Select(w)
           \/ BeginRecalculate(w) \/ Rollback(w)
    PROVE  PlanInv'
  BY ReadingMoves, QuietInv DEF PlanInv

LEMMA InsertInv ==
    ASSUME PlanInv, TypeInv', NEW w \in Workers, Insert(w)
    PROVE  PlanInv'
  <1> DEFINE t == txn[w]
  <1>1. /\ t \in Txn /\ t.pc = "insert"
        /\ \A v \in Workers \ {w} : Inserting(v, t.cluster) \cap t.found = {}
        /\ UNCHANGED db
    BY BusyTyped DEF PlanInv, Insert, Step
  <1>2. CASE \E m \in Roster(t.cluster) : m.restaurant \in t.found
    <2>1. Moves(w, NoTxn)
      BY <1>2 DEF Insert, Step, Moves
    <2>2. txn'[w].pc = "idle" /\ \A v \in Workers : v # w => txn'[v] = txn[v]
      BY <2>1, NoTxnTyped, Moved DEF PlanInv, TypeInv
    <2>3. QED
      BY <1>1, <2>2, QuietInv
  <1>3. CASE ~ \E m \in Roster(t.cluster) : m.restaurant \in t.found
    <2> DEFINE u == [t EXCEPT !.pc = "expand"]
    <2>1. Moves(w, u)
      BY <1>3 DEF Insert, Step, Moves
    <2>2. u.pc = "expand" /\ u.cluster = t.cluster /\ u.found = t.found
      BY <1>1 DEF Txn
    <2> HIDE DEF u
    <2>3. txn'[w] = u /\ \A v \in Workers : v # w => txn'[v] = txn[v]
      BY <2>1 DEF Moves, PlanInv, TypeInv, TypeOK
    <2>4. members' = members /\ plans' = plans
      BY <1>1 DEF db
    <2>5. KeysAreFree'
      BY <1>3, <2>2, <2>3, <2>4 DEF KeysAreFree, PlanInv, Roster
    <2>6. \A v \in Workers : v # w /\ txn[v].pc = "expand" /\ txn[v].cluster = u.cluster
                                => txn[v].found \cap u.found = {}
      BY <1>1, <2>2 DEF Inserting
    <2>7. KeysAreHeld'
      BY <2>3, <2>6 DEF KeysAreHeld, PlanInv
    <2>8. LaunchesReadPlans'
      BY <2>2, <2>3, <2>4 DEF LaunchesReadPlans, PlanInv
    <2>9. PlannedOnce' /\ PlansAreMembers'
      BY <2>4 DEF PlanInv, PlannedOnce, PlansAreMembers
    <2>10. QED
      BY <2>5, <2>7, <2>8, <2>9 DEF PlanInv
  <1>4. QED
    BY <1>2, <1>3

LEMMA BeginLaunchInv ==
    ASSUME PlanInv, TypeInv', NEW w \in Workers, BeginLaunch(w)
    PROVE  PlanInv'
  <1>1. PICK c \in DOMAIN clusters :
           Begin(w, [OnCluster("launch", c) EXCEPT
                        !.plans = {p \in plans : p.cluster = c /\ p.status = "planned"}])
    BY DEF BeginLaunch
  <1> DEFINE u == [OnCluster("launch", c) EXCEPT
                        !.plans = {p \in plans : p.cluster = c /\ p.status = "planned"}]
  <1>2. /\ u.pc = "launch" /\ u.cluster = c
        /\ u.plans = {p \in plans : p.cluster = c /\ p.status = "planned"}
    BY DEF OnCluster, NoTxn
  <1>3. Moves(w, u) /\ members' = members /\ plans' = plans
    BY <1>1 DEF Begin, Moves, db
  <1> HIDE DEF u
  <1>4. txn'[w] = u /\ \A v \in Workers : v # w => txn'[v] = txn[v]
    BY <1>3 DEF Moves, PlanInv, TypeInv, TypeOK
  <1>5. PlannedOnce' /\ PlansAreMembers'
    BY <1>3 DEF PlanInv, PlannedOnce, PlansAreMembers
  <1>6. KeysAreFree' /\ KeysAreHeld'
    BY <1>2, <1>3, <1>4 DEF PlanInv, KeysAreFree, KeysAreHeld
  <1>7. LaunchesReadPlans'
    BY <1>2, <1>3, <1>4 DEF PlanInv, LaunchesReadPlans, Same
  <1>8. QED
    BY <1>5, <1>6, <1>7 DEF PlanInv


\* The rows of a new cluster are nobody else's.
LEMMA CommitDetectInv ==
    ASSUME PlanInv, TypeInv', NEW w \in Workers, CommitDetect(w)
    PROVE  PlanInv'
  <1> DEFINE t == txn[w]
             n == Len(t.groups)
  <1>1. /\ members' = members \cup
              UNION {{[cluster |-> Number(k), restaurant |-> r, role |-> "member"] :
                          r \in t.groups[k]} : k \in 1..n}
        /\ plans' = plans /\ Moves(w, NoTxn)
    BY DEF CommitDetect, End, Moves
  <1>2. DOMAIN clusters = 1..Len(clusters) /\ Len(clusters) \in Nat
    BY SeqDomain DEF PlanInv, TypeInv, TypeOK
  <1> HIDE DEF t, n
  <1>3. \A m \in members' \ members : m.cluster \notin DOMAIN clusters
    <2>1. SUFFICES ASSUME NEW m \in members' \ members PROVE m.cluster \notin DOMAIN clusters
      OBVIOUS
    <2>2. PICK k \in 1..n : \E r \in t.groups[k] :
             m = [cluster |-> Number(k), restaurant |-> r, role |-> "member"]
      BY <1>1, <2>1
    <2>3. QED
      BY <1>2, <2>2 DEF Number
  <1>4. txn'[w].pc = "idle" /\ \A v \in Workers : v # w => txn'[v] = txn[v]
    BY <1>1, NoTxnTyped, Moved DEF PlanInv, TypeInv
  <1>5. PlannedOnce' /\ PlansAreMembers'
    BY <1>1 DEF PlanInv, PlannedOnce, PlansAreMembers
  <1>6. KeysAreFree'
    <2>1. SUFFICES ASSUME NEW v \in Workers, txn'[v].pc = "expand", NEW m \in members',
                          m.cluster = txn'[v].cluster
                   PROVE  m.restaurant \notin txn'[v].found
      BY DEF KeysAreFree
    <2>2. v # w /\ txn'[v] = txn[v]
      BY <1>4, <2>1
    <2>3. txn[v].cluster \in DOMAIN clusters
      BY <2>1, <2>2, BusyTyped DEF PlanInv
    <2>4. m \in members
      BY <1>3, <2>1, <2>2, <2>3
    <2>5. QED
      BY <2>1, <2>2, <2>4 DEF PlanInv, KeysAreFree
  <1>7. KeysAreHeld' /\ LaunchesReadPlans'
    BY <1>1, <1>4 DEF PlanInv, KeysAreHeld, LaunchesReadPlans
  <1>8. QED
    BY <1>5, <1>6, <1>7 DEF PlanInv

\* What an expansion plans had no row, hence no plan.
LEMMA CommitExpandInv ==
    ASSUME PlanInv, TypeInv', NEW w \in Workers, CommitExpand(w)
    PROVE  PlanInv'
  <1> DEFINE t == txn[w]
             new(r) == [cluster |-> t.cluster, restaurant |-> r, role |-> "prospect"]
             plan(r) == [cluster |-> t.cluster, restaurant |-> r, at |-> commits,
                         status |-> "planned"]
  <1>1. /\ t \in Txn /\ t.pc = "expand"
        /\ members' = {[m EXCEPT !.role = NewRole(m, t)] : m \in members} \cup
                      {new(r) : r \in t.found}
        /\ plans' = plans \cup {plan(r) : r \in t.found}
        /\ Moves(w, NoTxn)
    BY ExpandWrites DEF PlanInv
  <1>2. txn'[w].pc = "idle" /\ \A v \in Workers : v # w => txn'[v] = txn[v]
    BY <1>1, NoTxnTyped, Moved DEF PlanInv, TypeInv
  <1>3. \A m \in members : Same([m EXCEPT !.role = NewRole(m, t)], m)
    BY <1>1, RoleTyped DEF Same, PlanInv, TypeInv, TypeOK
  <1>4. \A m \in members : m.cluster = t.cluster => m.restaurant \notin t.found
    BY <1>1 DEF PlanInv, KeysAreFree
  <1>5. \A r \in t.found, p \in plans : ~ Same(plan(r), p)
    BY <1>4 DEF PlanInv, PlansAreMembers, Same
  <1>6. PlannedOnce'
    <2>1. SUFFICES ASSUME NEW p \in plans', NEW q \in plans', Same(p, q) PROVE p = q
      BY DEF PlannedOnce, Same
    <2>2. CASE p \in plans /\ q \in plans
      BY <2>1, <2>2 DEF PlanInv, PlannedOnce, Same
    <2>3. CASE p \notin plans \/ q \notin plans
      BY <1>1, <1>5, <2>1, <2>3 DEF Same
    <2>4. QED
      BY <2>2, <2>3
  <1>7. PlansAreMembers'
    <2>1. SUFFICES ASSUME NEW p \in plans' PROVE \E m \in members' : Same(m, p)
      BY DEF PlansAreMembers
    <2>2. CASE p \in plans
      <3>1. PICK m \in members : Same(m, p)
        BY <2>2 DEF PlanInv, PlansAreMembers
      <3>2. Same([m EXCEPT !.role = NewRole(m, t)], p)
        BY <1>3, <3>1 DEF Same
      <3>3. QED
        BY <1>1, <3>2
    <2>3. CASE p \notin plans
      <3>1. PICK r \in t.found : p = plan(r)
        BY <1>1, <2>1, <2>3
      <3>2. new(r) \in members' /\ Same(new(r), p)
        BY <1>1, <3>1 DEF Same
      <3>3. QED
        BY <3>2
    <2>4. QED
      BY <2>2, <2>3
  <1>8. KeysAreFree'
    <2>1. SUFFICES ASSUME NEW v \in Workers, txn'[v].pc = "expand", NEW m \in members',
                          m.cluster = txn'[v].cluster
                   PROVE  m.restaurant \notin txn'[v].found
      BY DEF KeysAreFree
    <2>2. v # w /\ txn'[v] = txn[v]
      BY <1>2, <2>1
    <2>3. CASE \E x \in members : m = [x EXCEPT !.role = NewRole(x, t)]
      <3>1. PICK x \in members : Same(m, x)
        BY <1>3, <2>3
      <3>2. QED
        BY <2>1, <2>2, <3>1 DEF PlanInv, KeysAreFree, Same
    <2>4. CASE \E r \in t.found : m = new(r)
      BY <1>1, <2>1, <2>2, <2>4 DEF PlanInv, KeysAreHeld
    <2>5. QED
      BY <1>1, <2>3, <2>4
  <1>9. KeysAreHeld' /\ LaunchesReadPlans'
    BY <1>1, <1>2 DEF PlanInv, KeysAreHeld, LaunchesReadPlans
  <1>10. QED
    BY <1>6, <1>7, <1>8, <1>9 DEF PlanInv

\* A launch changes the status of plans, and nothing else about them.
LEMMA LaunchKeepsPlans ==
    ASSUME PlanInv, NEW w \in Workers, CommitLaunch(w)
    PROVE  /\ \A p \in plans' : \E q \in plans : Same(p, q) /\ p.at = q.at
           /\ \A q \in plans : \E p \in plans' : Same(p, q) /\ p.at = q.at
           /\ \A x \in txn[w].plans : [x EXCEPT !.status = "in_progress"] \in plans'
           /\ \A q \in plans : q.status = "in_progress" => q \in plans'
  <1> DEFINE t == txn[w]
  <1>1. /\ plans' = {p \in plans : [p EXCEPT !.status = "planned"] \notin t.plans} \cup
                    {[p EXCEPT !.status = "in_progress"] : p \in t.plans}
        /\ plans \subseteq Plan /\ t.plans \subseteq Plan
        /\ \A x \in t.plans : \E q \in plans : Same(q, x) /\ q.at = x.at
    BY BusyTyped DEF CommitLaunch, PlanInv, TypeInv, TypeOK, Txn, LaunchesReadPlans
  <1>2. \A x \in Plan : Same([x EXCEPT !.status = "in_progress"], x)
                        /\ [x EXCEPT !.status = "in_progress"].at = x.at
    BY DEF Plan, Same
  <1>3. \A q \in Plan : Same([[q EXCEPT !.status = "planned"] EXCEPT !.status = "in_progress"], q)
                        /\ [[q EXCEPT !.status = "planned"] EXCEPT !.status = "in_progress"].at = q.at
    BY DEF Plan, Same
  <1>4. \A q \in Plan : q.status = "in_progress" =>
            [[q EXCEPT !.status = "planned"] EXCEPT !.status = "in_progress"] = q
    BY DEF Plan
  <1> HIDE DEF t
  <1>5. \A p \in plans' : \E q \in plans : Same(p, q) /\ p.at = q.at
    <2>1. SUFFICES ASSUME NEW p \in plans', p \notin plans
                   PROVE  \E q \in plans : Same(p, q) /\ p.at = q.at
      BY DEF Same
    <2>2. PICK x \in t.plans : p = [x EXCEPT !.status = "in_progress"]
      BY <1>1, <2>1
    <2>3. PICK q \in plans : Same(q, x) /\ q.at = x.at
      BY <1>1
    <2>4. Same(p, x) /\ p.at = x.at
      BY <1>1, <1>2, <2>2
    <2>5. QED
      BY <2>3, <2>4 DEF Same
  <1>6. \A q \in plans : \/ q \in plans'
                         \/ [[q EXCEPT !.status = "planned"] EXCEPT !.status = "in_progress"] \in plans'
    BY <1>1
  <1>7. \A q \in plans : \E p \in plans' : Same(p, q) /\ p.at = q.at
    <2>1. SUFFICES ASSUME NEW q \in plans PROVE \E p \in plans' : Same(p, q) /\ p.at = q.at
      OBVIOUS
    <2>2. q \in Plan
      BY <1>1
    <2>3. CASE q \in plans'
      BY <2>3 DEF Same
    <2>4. CASE q \notin plans'
      BY <1>3, <1>6, <2>2, <2>4
    <2>5. QED
      BY <2>3, <2>4
  <1>8. \A q \in plans : q.status = "in_progress" => q \in plans'
    BY <1>1, <1>4, <1>6
  <1>9. QED
    BY <1>1, <1>5, <1>7, <1>8 DEF t


LEMMA CommitLaunchInv ==
    ASSUME PlanInv, TypeInv', NEW w \in Workers, CommitLaunch(w)
    PROVE  PlanInv'
  <1> DEFINE t == txn[w]
  <1>1. /\ plans' = {p \in plans : [p EXCEPT !.status = "planned"] \notin t.plans} \cup
                    {[p EXCEPT !.status = "in_progress"] : p \in t.plans}
        /\ plans \subseteq Plan /\ t.plans \subseteq Plan
        /\ \A x \in t.plans : x.status = "planned" /\ \E q \in plans : Same(q, x) /\ q.at = x.at
    BY BusyTyped DEF CommitLaunch, PlanInv, TypeInv, TypeOK, Txn, LaunchesReadPlans
  <1>2. /\ members' = members
        /\ txn'[w].pc = "idle" /\ \A v \in Workers : v # w => txn'[v] = txn[v]
    BY NoTxnTyped, Moved DEF CommitLaunch, End, Moves, PlanInv, TypeInv
  <1>3. /\ \A p \in plans' : \E q \in plans : Same(p, q) /\ p.at = q.at
        /\ \A q \in plans : \E p \in plans' : Same(p, q) /\ p.at = q.at
    BY LaunchKeepsPlans
  <1> HIDE DEF t
  \* A row that stays as it is and one that is rewritten are about different restaurants.
  <1>4. ASSUME NEW p \in plans, [p EXCEPT !.status = "planned"] \notin t.plans,
               NEW x \in t.plans
        PROVE  ~ Same(p, x)
    <2>1. SUFFICES ASSUME Same(p, x) PROVE FALSE
      OBVIOUS
    <2>2. PICK q \in plans : Same(q, x) /\ q.at = x.at
      BY <1>1
    <2>3. p = q
      BY <2>1, <2>2 DEF PlanInv, PlannedOnce, Same
    <2>4. [p EXCEPT !.status = "planned"] = x
      BY <1>1, <2>2, <2>3 DEF Plan, Same
    <2>5. QED
      BY <1>4, <2>4
  <1>5. ASSUME NEW x \in t.plans, NEW y \in t.plans, Same(x, y) PROVE x = y
    <2>1. PICK q \in plans : Same(q, x) /\ q.at = x.at
      BY <1>1
    <2>2. PICK r \in plans : Same(r, y) /\ r.at = y.at
      BY <1>1
    <2>3. q = r
      BY <1>5, <2>1, <2>2 DEF PlanInv, PlannedOnce, Same
    <2>4. QED
      BY <1>1, <1>5, <2>1, <2>2, <2>3 DEF Plan, Same
  <1>6. \A x \in t.plans : Same([x EXCEPT !.status = "in_progress"], x)
    BY <1>1 DEF Plan, Same
  <1>7. PlannedOnce'
    <2> DEFINE Stays(p) == p \in plans /\ [p EXCEPT !.status = "planned"] \notin t.plans
               Turns(p) == \E x \in t.plans : p = [x EXCEPT !.status = "in_progress"]
    <2>1. SUFFICES ASSUME NEW p \in plans', NEW q \in plans', Same(p, q) PROVE p = q
      BY DEF PlannedOnce, Same
    <2>2. CASE Stays(p) /\ Stays(q)
      BY <2>1, <2>2 DEF PlanInv, PlannedOnce, Same
    <2>3. CASE Stays(p) /\ Turns(q)
      <3>1. PICK x \in t.plans : q = [x EXCEPT !.status = "in_progress"]
        BY <2>3
      <3>2. Same(p, x)
        BY <1>6, <2>1, <3>1 DEF Same
      <3>3. QED
        BY <1>4, <2>3, <3>2
    <2>4. CASE Turns(p) /\ Stays(q)
      <3>1. PICK x \in t.plans : p = [x EXCEPT !.status = "in_progress"]
        BY <2>4
      <3>2. Same(q, x)
        BY <1>6, <2>1, <3>1 DEF Same
      <3>3. QED
        BY <1>4, <2>4, <3>2
    <2>5. CASE Turns(p) /\ Turns(q)
      <3>1. PICK x \in t.plans : p = [x EXCEPT !.status = "in_progress"]
        BY <2>5
      <3>2. PICK y \in t.plans : q = [y EXCEPT !.status = "in_progress"]
        BY <2>5
      <3>3. Same(x, y)
        BY <1>6, <2>1, <3>1, <3>2 DEF Same
      <3>4. QED
        BY <1>5, <3>1, <3>2, <3>3
    <2>6. QED
      BY <1>1, <2>1, <2>2, <2>3, <2>4, <2>5
  <1>8. PlansAreMembers'
    <2>1. SUFFICES ASSUME NEW p \in plans' PROVE \E m \in members' : Same(m, p)
      BY DEF PlansAreMembers
    <2>2. PICK q \in plans : Same(p, q)
      BY <1>3
    <2>3. PICK m \in members : Same(m, q)
      BY DEF PlanInv, PlansAreMembers
    <2>4. QED
      BY <1>2, <2>2, <2>3 DEF Same
  <1>9. KeysAreFree' /\ KeysAreHeld'
    BY <1>2 DEF PlanInv, KeysAreFree, KeysAreHeld
  <1>10. LaunchesReadPlans'
    <2>1. SUFFICES ASSUME NEW v \in Workers, txn'[v].pc = "launch", NEW x \in txn'[v].plans
                   PROVE  /\ x.status = "planned" /\ x.cluster = txn'[v].cluster
                          /\ \E p \in plans' : Same(p, x) /\ p.at = x.at
      BY DEF LaunchesReadPlans
    <2>2. txn'[v] = txn[v]
      BY <1>2, <2>1
    <2>3. /\ x.status = "planned" /\ x.cluster = txn[v].cluster
          /\ \E q \in plans : Same(q, x) /\ q.at = x.at
      BY <2>1, <2>2 DEF PlanInv, LaunchesReadPlans
    <2>4. PICK q \in plans : Same(q, x) /\ q.at = x.at
      BY <2>3
    <2>5. PICK p \in plans' : Same(p, q) /\ p.at = q.at
      BY <1>3
    <2>6. QED
      BY <2>2, <2>3, <2>4, <2>5 DEF Same
  <1>11. QED
    BY <1>7, <1>8, <1>9, <1>10 DEF PlanInv

LEMMA PlanNext == PlanInv /\ [Next]_vars => PlanInv'
  <1> SUFFICES ASSUME PlanInv, [Next]_vars PROVE PlanInv'
    OBVIOUS
  <1>1. TypeInv'
    BY TypeNext DEF PlanInv
  <1>2. CASE UNCHANGED vars
    BY <1>1, <1>2 DEF PlanInv, PlannedOnce, PlansAreMembers, KeysAreFree, KeysAreHeld,
                      LaunchesReadPlans, vars, db
  <1>3. CASE Next
    <2>1. PICK w \in Workers :
             \/ BeginDetect(w) \/ Scan(w) \/ CommitDetect(w)
             \/ BeginExpand(w) \/ Anchors(w) \/ Select(w) \/ Insert(w) \/ CommitExpand(w)
             \/ BeginLaunch(w) \/ CommitLaunch(w)
             \/ BeginRecalculate(w) \/ CommitRecalculate(w)
             \/ Rollback(w)
      BY <1>3 DEF Next
    <2>2. CASE CommitRecalculate(w)
      <3>1. Moves(w, NoTxn) /\ members' = members /\ plans' = plans
        BY <2>2 DEF CommitRecalculate, End, Moves
      <3>2. QED
        BY <1>1, <3>1, EndedInv
    <2>3. QED
      BY <1>1, <2>1, <2>2, ReadingInv, InsertInv, BeginLaunchInv, CommitDetectInv,
         CommitExpandInv, CommitLaunchInv
  <1>4. QED
    BY <1>2, <1>3

\* A restaurant is planned at most once for a cluster, however many expansions
\* overlap: only the unique key of cluster_members sees to it
\* (services/cluster_engine.py, plan_expansion).
THEOREM NeverPlannedTwice == Spec => []PlannedOnce
  <1>1. PlanInv => PlannedOnce
    BY DEF PlanInv
  <1>2. QED
    BY PlanInit, PlanNext, <1>1, PTL DEF Spec


-----------------------------------------------------------------------------
(* Launches that do not overlap have no target in common.                  *)

\* The plan of a restaurant that is contacted is not planned any more.
ContactedIsLaunched ==
    \A s \in targets :
        /\ s.from < s.to /\ s.to <= commits
        /\ \E p \in plans : Same(p, s) /\ p.status = "in_progress"

\* What a launch has read was not yet contacted when it began.
LaunchesReadUncontacted ==
    \A w \in Workers : txn[w].pc = "launch" =>
        /\ txn[w].from <= commits
        /\ \A x \in txn[w].plans, s \in targets : Same(x, s) => txn[w].from < s.to

TargetInv == PlanInv /\ ContactedIsLaunched /\ LaunchesReadUncontacted /\ LaunchesApart

LEMMA TargetInit == Init => TargetInv
  BY PlanInit DEF Init, TargetInv, ContactedIsLaunched, LaunchesReadUncontacted,
                  LaunchesApart, NoTxn

LEMMA Numbers ==
    ASSUME TypeInv
    PROVE  /\ commits \in Nat
           /\ \A s \in targets : s.from \in Nat /\ s.to \in Nat
           /\ \A w \in Workers : txn[w].from \in Nat
  BY DEF TypeInv, TypeOK, Target, Txn

\* A step that launches nothing.
LEMMA UnlaunchedInv ==
    ASSUME TargetInv, PlanInv', targets' = targets, plans \subseteq plans',
           commits' \in {commits, commits + 1},
           \A w \in Workers : txn'[w].pc = "launch" => txn'[w] = txn[w]
    PROVE  TargetInv'
  <1>1. ContactedIsLaunched'
    BY Numbers DEF TargetInv, PlanInv, ContactedIsLaunched, Same
  <1>2. LaunchesReadUncontacted'
    BY Numbers DEF TargetInv, PlanInv, LaunchesReadUncontacted
  <1>3. LaunchesApart'
    BY DEF TargetInv, LaunchesApart
  <1>4. QED
    BY <1>1, <1>2, <1>3 DEF TargetInv

LEMMA OtherSteps ==
    ASSUME TypeInv, NEW w \in Workers,
           \/ BeginDetect(w) \/ Scan(w) \/ CommitDetect(w)
           \/ BeginExpand(w) \/ Anchors(w) \/ Select(w) \/ Insert(w) \/ CommitExpand(w)
           \/ BeginRecalculate(w) \/ CommitRecalculate(w) \/ Rollback(w)
    PROVE  /\ targets' = targets /\ plans \subseteq plans'
           /\ commits' \in {commits, commits + 1}
           /\ \A v \in Workers : txn'[v].pc = "launch" => txn'[v] = txn[v]
  <1>1. CASE \/ BeginDetect(w) \/ Scan(w) \/ BeginExpand(w) \/ Anchors(w) \/ Select(w)
             \/ BeginRecalculate(w) \/ Rollback(w)
    BY <1>1, ReadingMoves DEF db
  <1>2. CASE CommitDetect(w) \/ CommitExpand(w) \/ CommitRecalculate(w)
    <2>1. Moves(w, NoTxn) /\ targets' = targets /\ plans \subseteq plans' /\ commits' = commits + 1
      BY <1>2 DEF CommitDetect, CommitExpand, CommitRecalculate, End, Moves
    <2>2. QED
      BY <2>1, NoTxnTyped, Moved DEF TypeInv
  <1>3. CASE Insert(w)
    <2>1. txn[w] \in Txn /\ txn \in [Workers -> Txn]
      BY DEF TypeInv, TypeOK
    <2>2. Moves(w, NoTxn) \/ Moves(w, [txn[w] EXCEPT !.pc = "expand"])
      BY <1>3 DEF Insert, Step, Moves
    <2>3. NoTxn.pc # "launch" /\ [txn[w] EXCEPT !.pc = "expand"].pc # "launch"
      BY <2>1 DEF NoTxn, Txn
    <2>4. \A v \in Workers : txn'[v].pc = "launch" => txn'[v] = txn[v]
      BY <2>1, <2>2, <2>3 DEF Moves
    <2>5. UNCHANGED <<db, commits>>
      BY <1>3 DEF Insert, Step
    <2>6. QED
      BY <2>4, <2>5 DEF db
  <1>4. QED
    BY <1>1, <1>2, <1>3

LEMMA BeginLaunchApart ==
    ASSUME TargetInv, PlanInv', NEW w \in Workers, BeginLaunch(w)
    PROVE  TargetInv'
  <1>1. PICK c \in DOMAIN clusters :
           Begin(w, [OnCluster("launch", c) EXCEPT
                        !.plans = {p \in plans : p.cluster = c /\ p.status = "planned"}])
    BY DEF BeginLaunch
  <1> DEFINE u == [OnCluster("launch", c) EXCEPT
                        !.plans = {p \in plans : p.cluster = c /\ p.status = "planned"}]
  <1>2. /\ u.from = commits
        /\ u.plans = {p \in plans : p.cluster = c /\ p.status = "planned"}
    BY DEF OnCluster, NoTxn
  <1>3. Moves(w, u) /\ UNCHANGED <<targets, plans, commits>>
    BY <1>1 DEF Begin, Moves, db
  <1> HIDE DEF u
  <1>4. txn'[w] = u /\ \A v \in Workers : v # w => txn'[v] = txn[v]
    BY <1>3 DEF Moves, TargetInv, PlanInv, TypeInv, TypeOK
  <1>5. \A x \in u.plans, s \in targets : ~ Same(x, s)
    <2>1. SUFFICES ASSUME NEW x \in u.plans, NEW s \in targets, Same(x, s) PROVE FALSE
      OBVIOUS
    <2>2. PICK p \in plans : Same(p, s) /\ p.status = "in_progress"
      BY DEF TargetInv, ContactedIsLaunched
    <2>3. x \in plans /\ x.status = "planned"
      BY <1>2, <2>1
    <2>4. x = p
      BY <2>1, <2>2, <2>3 DEF TargetInv, PlanInv, PlannedOnce, Same
    <2>5. QED
      BY <2>2, <2>3, <2>4
  <1>6. LaunchesReadUncontacted'
    BY <1>2, <1>3, <1>4, <1>5, Numbers DEF TargetInv, PlanInv, LaunchesReadUncontacted
  <1>7. ContactedIsLaunched' /\ LaunchesApart'
    BY <1>3 DEF TargetInv, ContactedIsLaunched, LaunchesApart
  <1>8. QED
    BY <1>6, <1>7 DEF TargetInv

LEMMA CommitLaunchApart ==
    ASSUME TargetInv, PlanInv', NEW w \in Workers, CommitLaunch(w)
    PROVE  TargetInv'
  <1> DEFINE t == txn[w]
             made(p) == [cluster |-> t.cluster, restaurant |-> p.restaurant,
                         from |-> t.from, to |-> commits + 1]
  <1>1. /\ targets' = targets \cup {made(p) : p \in t.plans}
        /\ commits' = commits + 1
        /\ t.pc = "launch"
    BY DEF CommitLaunch, End
  <1>2. txn'[w].pc = "idle" /\ \A v \in Workers : v # w => txn'[v] = txn[v]
    BY NoTxnTyped, Moved DEF CommitLaunch, End, Moves, TargetInv, PlanInv, TypeInv
  <1>3. /\ commits \in Nat /\ t.from \in Nat
        /\ \A s \in targets : s.from \in Nat /\ s.to \in Nat
        /\ \A v \in Workers : txn[v].from \in Nat
    BY Numbers DEF TargetInv, PlanInv
  <1>4. t.from <= commits /\ \A p \in t.plans, s \in targets : Same(p, s) => t.from < s.to
    BY <1>1 DEF TargetInv, LaunchesReadUncontacted
  <1>5. \A p \in t.plans : Same(made(p), p)
    BY <1>1 DEF Same, TargetInv, PlanInv, LaunchesReadPlans
  <1>6. /\ \A x \in t.plans : [x EXCEPT !.status = "in_progress"] \in plans'
        /\ \A q \in plans : q.status = "in_progress" => q \in plans'
    BY LaunchKeepsPlans DEF TargetInv
  <1>7. t.plans \subseteq Plan
    BY BusyTyped DEF Txn, TargetInv, PlanInv
  <1>8. \A s \in targets : s.from < s.to /\ s.to <= commits
    BY DEF TargetInv, ContactedIsLaunched
  <1>9. ContactedIsLaunched'
    <2>1. SUFFICES ASSUME NEW s \in targets'
                   PROVE  /\ s.from < s.to /\ s.to <= commits'
                          /\ \E p \in plans' : Same(p, s) /\ p.status = "in_progress"
      BY DEF ContactedIsLaunched
    <2>2. CASE s \in targets
      BY <1>1, <1>3, <1>6, <1>8, <2>2 DEF TargetInv, ContactedIsLaunched
    <2>3. CASE s \notin targets
      <3>1. PICK x \in t.plans : s = made(x)
        BY <1>1, <2>1, <2>3
      <3>2. /\ [x EXCEPT !.status = "in_progress"] \in plans'
            /\ Same([x EXCEPT !.status = "in_progress"], s)
            /\ [x EXCEPT !.status = "in_progress"].status = "in_progress"
        BY <1>5, <1>6, <1>7, <3>1 DEF Same, Plan
      <3>3. s.from < s.to /\ s.to <= commits'
        BY <1>1, <1>3, <1>4, <3>1
      <3>4. QED
        BY <3>2, <3>3
    <2>4. QED
      BY <2>2, <2>3
  <1>10. LaunchesReadUncontacted'
    <2>1. SUFFICES ASSUME NEW v \in Workers, txn'[v].pc = "launch"
                   PROVE  /\ txn'[v].from <= commits'
                          /\ \A x \in txn'[v].plans, s \in targets' :
                                Same(x, s) => txn'[v].from < s.to
      BY DEF LaunchesReadUncontacted
    <2>2. /\ txn'[v] = txn[v] /\ txn[v].from <= commits
          /\ \A x \in txn[v].plans, s \in targets : Same(x, s) => txn[v].from < s.to
      BY <1>2, <2>1 DEF TargetInv, LaunchesReadUncontacted
    <2>3. \A p \in t.plans : made(p).to = commits + 1
      OBVIOUS
    <2>4. QED
      BY <1>1, <1>3, <2>2, <2>3
  <1>11. LaunchesApart'
    <2>1. SUFFICES ASSUME NEW s \in targets', NEW u \in targets', Same(s, u)
                   PROVE  s.from < u.to /\ u.from < s.to
      BY DEF LaunchesApart, Same
    <2>2. CASE s \in targets /\ u \in targets
      BY <2>1, <2>2 DEF TargetInv, LaunchesApart, Same
    <2>3. CASE s \in targets /\ u \notin targets
      <3>1. PICK p \in t.plans : u = made(p)
        BY <1>1, <2>3
      <3>2. Same(p, s)
        BY <1>5, <2>1, <3>1 DEF Same
      <3>3. QED
        BY <1>3, <1>4, <1>8, <2>3, <3>1, <3>2
    <2>4. CASE s \notin targets /\ u \in targets
      <3>1. PICK p \in t.plans : s = made(p)
        BY <1>1, <2>4
      <3>2. Same(p, u)
        BY <1>5, <2>1, <3>1 DEF Same
      <3>3. QED
        BY <1>3, <1>4, <1>8, <2>4, <3>1, <3>2
    <2>5. CASE s \notin targets /\ u \notin targets
      <3>1. PICK p \in t.plans : s = made(p)
        BY <1>1, <2>5
      <3>2. PICK q \in t.plans : u = made(q)
        BY <1>1, <2>5
      <3>3. QED
        BY <1>3, <1>4, <3>1, <3>2
    <2>6. QED
      BY <2>2, <2>3, <2>4, <2>5
  <1>12. QED
    BY <1>9, <1>10, <1>11 DEF TargetInv

LEMMA TargetNext == TargetInv /\ [Next]_vars => TargetInv'
  <1> SUFFICES ASSUME TargetInv, [Next]_vars PROVE TargetInv'
    OBVIOUS
  <1>1. PlanInv'
    BY PlanNext DEF TargetInv
  <1>2. CASE UNCHANGED vars
    BY <1>1, <1>2, UnlaunchedInv DEF vars, db
  <1>3. CASE Next
    <2>1. PICK w \in Workers :
             \/ BeginLaunch(w) \/ CommitLaunch(w)
             \/ BeginDetect(w) \/ Scan(w) \/ CommitDetect(w)
             \/ BeginExpand(w) \/ Anchors(w) \/ Select(w) \/ Insert(w) \/ CommitExpand(w)
             \/ BeginRecalculate(w) \/ CommitRecalculate(w) \/ Rollback(w)
      BY <1>3 DEF Next
    <2>2. CASE BeginLaunch(w)
      BY <1>1, <2>2, BeginLaunchApart
    <2>3. CASE CommitLaunch(w)
      BY <1>1, <2>3, CommitLaunchApart
    <2>4. CASE ~ (BeginLaunch(w) \/ CommitLaunch(w))
      BY <1>1, <2>1, <2>4, OtherSteps, UnlaunchedInv DEF TargetInv, PlanInv
    <2>5. QED
      BY <2>2, <2>3, <2>4
  <1>4. QED
    BY <1>2, <1>3

\* Two launches for a cluster have a target in common only if they overlap: the
\* plans that one has read are not planned any more when it has committed
\* (services/cluster_engine.py, launch_campaign).
THEOREM LaunchesDisjoint == Spec => []LaunchesApart
  <1>1. TargetInv => LaunchesApart
    BY DEF TargetInv
  <1>2. QED
    BY TargetInit, TargetNext, <1>1, PTL DEF Spec



-----------------------------------------------------------------------------
(* A detection has looked at everybody.                                    *)

GroupsOf(t) == {t.groups[k] : k \in DOMAIN t.groups}

\* What a detection has done with the restaurants it has looked at: whoever is
\* free had too few free neighbors then, and has no more of them now.
Scanned(t) ==
    /\ t.left \subseteq t.pool /\ t.assigned = UNION GroupsOf(t)
    /\ \A i, j \in DOMAIN t.groups : i # j => t.groups[i] \cap t.groups[j] = {}
    /\ \A g \in GroupsOf(t) : \E a \in g : \A b \in g \ {a} : <<a, b>> \in Near
    /\ \A a \in Free(t) \ t.left : Cardinality({a} \cup Neighbors(t, a)) < MinSize

ScanInv == TypeInv /\ \A w \in Workers : txn[w].pc = "scan" => Scanned(txn[w])

LEMMA ScanMoved ==
    ASSUME ScanInv, TypeInv', NEW w \in Workers,
           \A v \in Workers : v # w => txn'[v] = txn[v],
           txn'[w].pc = "scan" => Scanned(txn'[w])
    PROVE  ScanInv'
  <1>1. ASSUME NEW v \in Workers, txn'[v].pc = "scan"
        PROVE  Scanned(txn'[v])
    BY <1>1 DEF ScanInv
  <1>2. \A v \in Workers : Scanned(txn[v])' <=> Scanned(txn'[v])
    BY DEF Scanned, GroupsOf, Free, Neighbors
  <1>3. QED
    BY <1>1, <1>2 DEF ScanInv

LEMMA BeginDetectScan ==
    ASSUME ScanInv, TypeInv', NEW w \in Workers, BeginDetect(w)
    PROVE  ScanInv'
  <1>1. PICK S \in Zips : Begin(w, [NoTxn EXCEPT !.pc = "scan", !.pool = S, !.left = S])
    BY DEF BeginDetect
  <1>2. /\ \A v \in Workers : v # w => txn'[v] = txn[v]
        /\ txn'[w].pool = S /\ txn'[w].left = S
        /\ txn'[w].assigned = {} /\ txn'[w].groups = <<>>
    BY <1>1 DEF Begin, NoTxn, ScanInv, TypeInv, TypeOK
  <1>3. GroupsOf(txn'[w]) = {} /\ DOMAIN txn'[w].groups = {}
    BY <1>2 DEF GroupsOf
  <1>4. Scanned(txn'[w])
    BY <1>2, <1>3 DEF Scanned, Free
  <1>5. QED
    BY <1>2, <1>4, ScanMoved

\* A restaurant that is taken has no more free neighbors to offer.
LEMMA FewerNeighbors ==
    ASSUME NEW t \in Txn, NEW u \in Txn, u.pool = t.pool, t.assigned \subseteq u.assigned,
           NEW a \in Free(u), Cardinality({a} \cup Neighbors(t, a)) < MinSize
    PROVE  Cardinality({a} \cup Neighbors(u, a)) < MinSize
  <1> DEFINE A == {a} \cup Neighbors(t, a)
             B == {a} \cup Neighbors(u, a)
  <1>1. B \subseteq A /\ A \in SUBSET Restaurants /\ B \in SUBSET Restaurants
    BY DEF Free, Neighbors, Txn
  <1>2. IsFiniteSet(A)
    BY <1>1, FS_Subset, ClusterAssumption
  <1>3. Cardinality(B) <= Cardinality(A)
    BY <1>1, <1>2, FS_Subset
  <1>4. Cardinality(A) \in Nat /\ Cardinality(B) \in Nat
    BY <1>1, GroupCountable
  <1>5. QED
    BY <1>3, <1>4, ClusterAssumption

LEMMA ScanStep ==
    ASSUME ScanInv, TypeInv', NEW w \in Workers, Scan(w)
    PROVE  ScanInv'
  <1> DEFINE t == txn[w]
  <1>1. PICK a \in t.left :
          LET group == {a} \cup Neighbors(t, a)
              rest  == [t EXCEPT !.left = @ \ {a}]
          IN  Step(w, IF a \in t.assigned \/ Cardinality(group) < MinSize
                      THEN rest
                      ELSE [rest EXCEPT !.assigned = @ \cup group,
                                        !.groups = Append(@, group)])
    BY DEF Scan
  <1> DEFINE group == {a} \cup Neighbors(t, a)
             rest  == [t EXCEPT !.left = @ \ {a}]
             full  == [rest EXCEPT !.assigned = @ \cup group, !.groups = Append(@, group)]
             u     == txn'[w]
  <1>2. t \in Txn /\ t.pc = "scan" /\ u \in Txn
    BY BusyTyped DEF ScanInv, Scan, TypeInv, TypeOK
  <1>3. Scanned(t)
    BY <1>2 DEF ScanInv
  <1>4. \A v \in Workers : v # w => txn'[v] = txn[v]
    BY <1>1 DEF Step, ScanInv, TypeInv, TypeOK
  <1>5. CASE a \in t.assigned \/ Cardinality(group) < MinSize
    <2>1. u = rest
      BY <1>1, <1>5 DEF Step, ScanInv, TypeInv, TypeOK
    <2>2. /\ u.left = t.left \ {a} /\ u.assigned = t.assigned /\ u.groups = t.groups
          /\ u.pool = t.pool
      BY <1>2, <2>1 DEF Txn
    <2> HIDE DEF u, rest, full
    <2>3. GroupsOf(u) = GroupsOf(t) /\ Free(u) = Free(t) /\ Neighbors(u, a) = Neighbors(t, a)
          /\ \A b : Neighbors(u, b) = Neighbors(t, b)
      BY <2>2 DEF GroupsOf, Free, Neighbors
    <2>4. \A b \in Free(u) \ u.left : Cardinality({b} \cup Neighbors(u, b)) < MinSize
      BY <1>3, <1>5, <2>2, <2>3 DEF Scanned, Free
    <2>5. Scanned(u)
      BY <1>3, <2>2, <2>3, <2>4 DEF Scanned
    <2>6. QED
      BY <1>4, <2>5, ScanMoved DEF u
  <1>6. CASE ~(a \in t.assigned \/ Cardinality(group) < MinSize)
    <2>1. u = full
      BY <1>1, <1>6 DEF Step, ScanInv, TypeInv, TypeOK
    <2>2. /\ u.left = t.left \ {a} /\ u.assigned = t.assigned \cup group
          /\ u.groups = Append(t.groups, group) /\ u.pool = t.pool
      BY <1>2, <2>1 DEF Txn
    <2>3. t.groups \in Seq(SUBSET Restaurants) /\ group \in SUBSET Restaurants
          /\ a \in t.pool
      BY <1>2, <1>3 DEF Txn, Neighbors, Free, Scanned
    <2>4. group \cap t.assigned = {} /\ a \in group /\ \A b \in group \ {a} : <<a, b>> \in Near
      BY <1>6 DEF Neighbors, Free
    <2> HIDE DEF u, rest, full, group
    <2>5. /\ Len(t.groups) \in Nat /\ DOMAIN t.groups = 1..Len(t.groups)
          /\ DOMAIN u.groups = 1..(Len(t.groups) + 1)
          /\ u.groups[Len(t.groups) + 1] = group
          /\ \A k \in 1..Len(t.groups) : u.groups[k] = t.groups[k]
      BY <2>2, <2>3, AppendProperties, SeqDomain
    <2>6. GroupsOf(u) = GroupsOf(t) \cup {group}
      BY <2>5 DEF GroupsOf
    <2>7. u.assigned = UNION GroupsOf(u)
      BY <1>3, <2>2, <2>6 DEF Scanned
    <2>8. \A k \in 1..Len(t.groups) : t.groups[k] \cap group = {}
      BY <1>3, <2>4, <2>5 DEF Scanned, GroupsOf
    <2>9. ASSUME NEW i \in DOMAIN u.groups, NEW j \in DOMAIN u.groups, i # j
          PROVE  u.groups[i] \cap u.groups[j] = {}
      <3>1. \A k, m \in 1..Len(t.groups) : k # m => t.groups[k] \cap t.groups[m] = {}
        BY <1>3, <2>5 DEF Scanned
      <3>2. /\ i \in 1..Len(t.groups) \/ i = Len(t.groups) + 1
            /\ j \in 1..Len(t.groups) \/ j = Len(t.groups) + 1
        BY <2>5, <2>9
      <3>3. CASE i \in 1..Len(t.groups) /\ j \in 1..Len(t.groups)
        BY <2>5, <2>9, <3>1, <3>3
      <3>4. CASE i = Len(t.groups) + 1 /\ j \in 1..Len(t.groups)
        BY <2>5, <2>8, <3>4
      <3>5. CASE i \in 1..Len(t.groups) /\ j = Len(t.groups) + 1
        BY <2>5, <2>8, <3>5
      <3>6. QED
        BY <2>9, <3>2, <3>3, <3>4, <3>5
    <2>10. \A g \in GroupsOf(u) : \E c \in g : \A b \in g \ {c} : <<c, b>> \in Near
      BY <1>3, <2>4, <2>6 DEF Scanned
    <2>11. ASSUME NEW b \in Free(u) \ u.left
           PROVE  Cardinality({b} \cup Neighbors(u, b)) < MinSize
      <3>1. b \in Free(t) \ t.left
        BY <2>2, <2>4 DEF Free
      <3>2. Cardinality({b} \cup Neighbors(t, b)) < MinSize
        BY <1>3, <3>1 DEF Scanned
      <3>3. t.assigned \subseteq u.assigned
        BY <2>2
      <3>4. QED
        BY <1>2, <2>2, <3>2, <3>3, FewerNeighbors
    <2>12. Scanned(u)
      BY <1>3, <2>2, <2>7, <2>9, <2>10, <2>11 DEF Scanned
    <2>13. QED
      BY <1>4, <2>12, ScanMoved DEF u
  <1>7. QED
    BY <1>5, <1>6

\* The other requests are no detections.
LEMMA OthersScan ==
    ASSUME ScanInv, TypeInv', NEW w \in Workers,
           \/ CommitDetect(w) \/ BeginExpand(w) \/ Anchors(w) \/ Select(w) \/ Insert(w)
           \/ CommitExpand(w) \/ BeginLaunch(w) \/ CommitLaunch(w)
           \/ BeginRecalculate(w) \/ CommitRecalculate(w) \/ Rollback(w)
    PROVE  ScanInv'
  <1>1. txn[w] \in Txn /\ txn \in [Workers -> Txn]
    BY DEF ScanInv, TypeInv, TypeOK
  <1>2. txn'[w].pc # "scan" /\ \A v \in Workers : v # w => txn'[v] = txn[v]
    <2>1. CASE \/ CommitDetect(w) \/ CommitExpand(w) \/ CommitLaunch(w)
               \/ CommitRecalculate(w) \/ Rollback(w)
      <3>1. txn' = [txn EXCEPT ![w] = NoTxn]
        BY <2>1 DEF CommitDetect, CommitExpand, CommitLaunch, CommitRecalculate, Rollback, End, Step
      <3>2. QED
        BY <1>1, <3>1, NoTxnTyped
    <2>2. CASE BeginExpand(w)
      BY <1>1, <2>2 DEF BeginExpand, Begin, OnCluster, NoTxn
    <2>3. CASE BeginLaunch(w)
      BY <1>1, <2>3 DEF BeginLaunch, Begin, OnCluster, NoTxn
    <2>4. CASE BeginRecalculate(w)
      BY <1>1, <2>4 DEF BeginRecalculate, Begin, OnCluster, NoTxn
    <2>5. CASE Anchors(w)
      BY <1>1, <2>5 DEF Anchors, Step, Txn
    <2>6. CASE Select(w)
      BY <1>1, <2>6 DEF Select, Step, Txn
    <2>7. CASE Insert(w)
      BY <1>1, <2>7, NoTxnTyped DEF Insert, Step, Txn
    <2>8. QED
      BY <2>1, <2>2, <2>3, <2>4, <2>5, <2>6, <2>7
  <1>3. QED
    BY <1>2, ScanMoved

LEMMA ScanNext == ScanInv /\ [Next]_vars => ScanInv'
  <1> SUFFICES ASSUME ScanInv, [Next]_vars
               PROVE  ScanInv'
    OBVIOUS
  <1>1. TypeInv'
    BY TypeNext DEF ScanInv
  <1>2. CASE UNCHANGED vars
    <2>1. txn' = txn
      BY <1>2 DEF vars
    <2>2. \A w \in Workers : Scanned(txn[w])' <=> Scanned(txn'[w])
      BY DEF Scanned, GroupsOf, Free, Neighbors
    <2>3. QED
      BY <1>1, <2>1, <2>2 DEF ScanInv
  <1>3. CASE Next
    BY <1>1, <1>3, BeginDetectScan, ScanStep, OthersScan DEF Next
  <1>4. QED
    BY <1>2, <1>3

\* detect_clusters leaves no group unfound: whatever order the restaurants come
\* in, its groups are apart, each has a middle, and nobody who is left over has
\* enough free neighbors for another one.
THEOREM DetectionsFindAll == Spec => []DetectionComplete
  <1>1. ASSUME ScanInv, NEW w \in Workers, txn[w].pc = "scan", txn[w].left = {}
        PROVE  /\ \A i, j \in DOMAIN txn[w].groups :
                     i # j => txn[w].groups[i] \cap txn[w].groups[j] = {}
               /\ \A g \in GroupsOf(txn[w]) : \E a \in g : \A b \in g \ {a} : <<a, b>> \in Near
               /\ \A a \in txn[w].pool \ UNION GroupsOf(txn[w]) :
                     Cardinality({b \in txn[w].pool \ UNION GroupsOf(txn[w]) :
                                     <<a, b>> \in Near /\ b # a}) + 1 < MinSize
    <2> DEFINE t == txn[w]
    <2>1. Scanned(t) /\ t \in Txn
      BY <1>1 DEF ScanInv, TypeInv, TypeOK
    <2>2. Free(t) = t.pool \ UNION GroupsOf(t)
      BY <2>1 DEF Scanned, Free
    <2>3. ASSUME NEW a \in Free(t)
          PROVE  Cardinality({b \in Free(t) : <<a, b>> \in Near /\ b # a}) + 1 < MinSize
      <3> DEFINE N == {b \in Free(t) : <<a, b>> \in Near /\ b # a}
      <3>1. N = Neighbors(t, a) /\ a \notin N /\ N \in SUBSET Restaurants
        BY <2>1 DEF Neighbors, Free, Txn
      <3>2. Cardinality({a} \cup Neighbors(t, a)) < MinSize
        BY <1>1, <2>1, <2>3 DEF Scanned
      <3>3. IsFiniteSet(N)
        BY <3>1, FS_Subset, ClusterAssumption
      <3>4. Cardinality(N \cup {a}) = Cardinality(N) + 1
        BY <3>1, <3>3, FS_AddElement
      <3>5. N \cup {a} = {a} \cup Neighbors(t, a)
        BY <3>1
      <3>6. QED
        BY <3>2, <3>4, <3>5
    <2>4. QED
      BY <2>1, <2>2, <2>3 DEF Scanned
  <1>2. ScanInv => DetectionComplete
    BY <1>1 DEF DetectionComplete, GroupsOf
  <1>3. Init => ScanInv
    BY TypeInit DEF Init, ScanInv, NoTxn
  <1>4. QED
    BY <1>2, <1>3, ScanNext, PTL DEF Spec
============================================================================
