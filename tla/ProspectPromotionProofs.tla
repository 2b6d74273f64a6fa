----------------------- MODULE ProspectPromotionProofs -----------------------
(***************************************************************************)
(* Proofs about ProspectPromotion for every number of requests, workers    *)
(* and restaurants, for batches of every length and with repeated ids.     *)
(***************************************************************************)
EXTENDS ProspectPromotion, TLAPS

PCs     == {"check", "insert", "attach", "qualify", "commit", "done", "aborted"}
Txs     == [leads : SUBSET LeadIds, advanced : SUBSET LeadIds, targets : SUBSET Rows]
Results == [promoted : SUBSET Nat, skipped : SUBSET Nat, failed : SUBSET Nat]
Stages  == {"new", "qualified", "converted"}
Works   == [pc : {"idle", "evaluate", "commit"}, task : Tasks \cup {None},
            verdict : Verdicts \cup {"none"}, stage : Stages \cup {"none"}]

Types == TypeOK /\ pos \in [Requests -> Nat] /\ work \in [Workers -> Works]

\* The leads that have, or had, a qualification task.
Dispatched ==
    {t.lead : t \in tasks} \cup ended
        \cup {work[w].task.lead : w \in {v \in Workers : work[v].pc # "idle"}}

Open(q) == pc[q] \in {"check", "insert", "attach", "qualify", "commit"}

\* The positions of its batch that a request has dealt with.
Reached(q) == {i \in DOMAIN Batch[q] :
                  i < pos[q] \/ (i = pos[q] /\ pc[q] \notin {"check", "insert"})}

\* The leads its result tells of.
Made(q) == {<<q, i>> : i \in result[q].promoted \ result[q].failed}

\* What a request has written agrees with what it will answer.
Book(q) ==
    /\ result[q].promoted \subseteq Reached(q) /\ result[q].failed \subseteq Reached(q)
    /\ IF Open(q) THEN tx[q].leads = Made(q) ELSE tx[q] = EmptyTx
    /\ {l \in leads : l[1] = q} = IF pc[q] = "done" THEN Made(q) ELSE {}
    /\ pc[q] = "insert" => ~Own(q, Here(q))
    /\ pc[q] \in {"attach", "qualify"} => Lead(q) \in tx[q].leads
    /\ pc[q] = "attach" => Campaign[q] # None
    /\ pc[q] \in {"commit", "done"} => pos[q] = Len(Batch[q])

\* A restaurant it has dealt with is failed, somebody's lead, or its own lead
\* by this or an earlier position, which a later rollback does not undo.
Served(q, i) ==
    \/ i \in result[q].failed
    \/ Committed(Batch[q][i])
    \/ \E k \in 1..i : <<q, k>> \in tx[q].leads /\ Batch[q][k] = Batch[q][i]

AllServed(q) == pc[q] # "aborted" => \A i \in Reached(q) : Served(q, i)

\* The task of a lead is handed out when nothing can undo the lead but the
\* loss of the whole request.
Handed(q) ==
    /\ \A l \in Dispatched : l[1] = q => /\ Open(q) => l \in tx[q].leads
                                         /\ pc[q] = "done" => l \in leads
    /\ pc[q] \in {"attach", "qualify"} => Lead(q) \notin Dispatched

AllLeads   == leads \cup UNION {tx[q].leads : q \in Requests}
AllTargets == targets \cup UNION {tx[q].targets : q \in Requests}

OneLead == \A l, k \in AllLeads : RestaurantOf(l) = RestaurantOf(k) => l = k

TargetRows ==
    /\ \A t \in targets : t.lead # None => t.lead \in leads /\ RestaurantOf(t.lead) = t.restaurant
    /\ \A q \in Requests : \A t \in tx[q].targets :
          /\ t.lead \in tx[q].leads
          /\ RestaurantOf(t.lead) = t.restaurant
          /\ t.campaign = Campaign[q]
    /\ \A t, u \in AllTargets : t.campaign = u.campaign /\ t.restaurant = u.restaurant => t = u

Account(q) == Book(q) /\ AllServed(q) /\ Handed(q)

IInv == Types /\ (\A q \in Requests : Account(q)) /\ OneLead /\ TargetRows

-----------------------------------------------------------------------------
(* Ids and types.                                                          *)

LEMMA BatchType ==
    ASSUME NEW q \in Requests
    PROVE  /\ Batch[q] \in Seq(Restaurants) /\ Len(Batch[q]) \in Nat \ {0}
           /\ DOMAIN Batch[q] = 1..Len(Batch[q])
           /\ \A i \in DOMAIN Batch[q] : Batch[q][i] \in Restaurants
  <1>1. Batch[q] \in Seq(Restaurants) /\ Batch[q] # <<>>
    BY PromotionAssumption
  <1>2. QED
    BY <1>1

LEMMA LeadIdsType ==
    /\ \A q \in Requests : \A i \in DOMAIN Batch[q] : <<q, i>> \in LeadIds
    /\ \A l \in LeadIds : /\ l[1] \in Requests /\ l[2] \in DOMAIN Batch[l[1]]
                          /\ l = <<l[1], l[2]>> /\ RestaurantOf(l) \in Restaurants
  <1>1. ASSUME NEW l \in LeadIds
        PROVE  \E q \in Requests : \E i \in DOMAIN Batch[q] : l = <<q, i>>
    BY DEF LeadIds
  <1>2. \A l \in LeadIds : /\ l[1] \in Requests /\ l[2] \in DOMAIN Batch[l[1]]
                           /\ l = <<l[1], l[2]>> /\ RestaurantOf(l) \in Restaurants
    BY <1>1, BatchType DEF RestaurantOf
  <1>3. \A q \in Requests : \A i \in DOMAIN Batch[q] : <<q, i>> \in LeadIds
    BY DEF LeadIds
  <1>4. QED
    BY <1>2, <1>3

\* Where a request is.
LEMMA HereType ==
    ASSUME Types, NEW q \in Requests
    PROVE  /\ pos[q] \in Nat /\ pos[q] \in 1..Len(Batch[q])
           /\ Here(q) \in Restaurants
           /\ Lead(q) \in LeadIds /\ Lead(q) = <<q, pos[q]>>
           /\ RestaurantOf(Lead(q)) = Here(q)
  BY BatchType, LeadIdsType DEF Types, TypeOK, Here, Lead, RestaurantOf

LEMMA NextRestaurantType ==
    ASSUME IInv, NEW q \in Requests, NextRestaurant(q),
           pc[q] \in {"check", "insert", "attach", "qualify"}
    PROVE  /\ pc' \in [Requests -> PCs] /\ pos' \in [Requests -> Nat]
           /\ \A p \in Requests : pos'[p] \in DOMAIN Batch[p]
           /\ \A p \in Requests \ {q} : pc'[p] = pc[p] /\ pos'[p] = pos[p]
           /\ pc'[q] \in {"check", "commit"}
           /\ pc'[q] = "commit" => pos'[q] = Len(Batch[q])
           /\ Reached(q)' = 1..pos[q]
           /\ Reached(q) \subseteq 1..pos[q]
  <1>1. /\ pos[q] \in 1..Len(Batch[q]) /\ Len(Batch[q]) \in Nat
        /\ DOMAIN Batch[q] = 1..Len(Batch[q])
    BY HereType, BatchType DEF IInv
  <1>2. /\ pc \in [Requests -> PCs] /\ pos \in [Requests -> Nat]
        /\ \A p \in Requests : pos[p] \in DOMAIN Batch[p]
    BY DEF IInv, Types, TypeOK, PCs
  <1>3. Reached(q) \subseteq 1..pos[q]
    BY <1>1 DEF Reached
  <1>4. CASE pos[q] < Len(Batch[q])
    <2>1. pos' = [pos EXCEPT ![q] = @ + 1] /\ pc' = [pc EXCEPT ![q] = "check"]
      BY <1>4 DEF NextRestaurant
    <2>2. pos'[q] = pos[q] + 1 /\ pc'[q] = "check"
      BY <1>2, <2>1
    <2>3. Reached(q)' = 1..pos[q]
      BY <1>1, <1>4, <2>2 DEF Reached
    <2>4. QED
      BY <1>1, <1>2, <1>3, <1>4, <2>1, <2>2, <2>3 DEF PCs
  <1>5. CASE ~(pos[q] < Len(Batch[q]))
    <2>1. pos' = pos /\ pc' = [pc EXCEPT ![q] = "commit"]
      BY <1>5 DEF NextRestaurant
    <2>2. pos'[q] = pos[q] /\ pc'[q] = "commit" /\ pos[q] = Len(Batch[q])
      BY <1>1, <1>2, <1>5, <2>1
    <2>3. Reached(q)' = 1..pos[q]
      BY <1>1, <2>2 DEF Reached
    <2>4. QED
      BY <1>1, <1>2, <1>3, <2>1, <2>2, <2>3 DEF PCs
  <1>6. QED
    BY <1>4, <1>5

LEMMA CountType ==
    ASSUME Types, NEW q \in Requests, NEW kind \in {"promoted", "skipped", "failed"},
           Count(q, kind)
    PROVE  /\ result' \in [Requests -> Results]
           /\ \A p \in Requests \ {q} : result'[p] = result[p]
           /\ result'[q].promoted = IF kind = "promoted" THEN result[q].promoted \cup {pos[q]}
                                                        ELSE result[q].promoted
           /\ result'[q].failed = IF kind = "failed" THEN result[q].failed \cup {pos[q]}
                                                    ELSE result[q].failed
  <1>1. result \in [Requests -> Results] /\ pos[q] \in Nat
    BY DEF Types, TypeOK, Results
  <1>2. CASE kind = "promoted"
    BY <1>1, <1>2 DEF Count, Results
  <1>3. CASE kind = "skipped"
    BY <1>1, <1>3 DEF Count, Results
  <1>4. CASE kind = "failed"
    BY <1>1, <1>4 DEF Count, Results
  <1>5. QED
    BY <1>2, <1>3, <1>4

-----------------------------------------------------------------------------
(* Frames: what a step of one request leaves alone.                        *)

\* The other requests' accounts, when only this one writes.
LEMMA OtherAccounts ==
    ASSUME IInv, NEW q \in Requests,
           \A p \in Requests \ {q} : /\ pc'[p] = pc[p] /\ pos'[p] = pos[p]
                                     /\ tx'[p] = tx[p] /\ result'[p] = result[p],
           leads \subseteq leads', \A l \in leads' \ leads : l[1] = q,
           \A l \in Dispatched' \ Dispatched : l[1] = q
    PROVE  \A p \in Requests \ {q} : Account(p)'
  <1> SUFFICES ASSUME NEW p \in Requests, p # q
               PROVE  Account(p)'
    OBVIOUS
  <1>1. Account(p)
    BY DEF IInv
  <1>2. /\ Reached(p)' = Reached(p) /\ Made(p)' = Made(p) /\ Open(p)' = Open(p)
        /\ Here(p)' = Here(p) /\ Lead(p)' = Lead(p)
        /\ \A r : Own(p, r)' <=> Own(p, r)
        /\ \A r : Committed(r) => Committed(r)'
    BY DEF Reached, Made, Open, Here, Lead, Own, Committed
  <1>3. {l \in leads' : l[1] = p} = {l \in leads : l[1] = p}
    OBVIOUS
  <1>4. Book(p)'
    BY <1>1, <1>2, <1>3 DEF Account, Book
  <1>5. \A i : Served(p, i) => Served(p, i)'
    BY <1>2 DEF Served
  <1>6. AllServed(p)'
    BY <1>1, <1>2, <1>5 DEF Account, AllServed
  <1>7. Handed(p)'
    <2>1. Lead(p)[1] = p
      BY DEF Lead
    <2>2. \A l \in Dispatched' : l[1] = p => l \in Dispatched
      OBVIOUS
    <2>3. QED
      BY <1>1, <1>2, <2>1, <2>2 DEF Account, Handed
  <1>8. QED
    BY <1>4, <1>6, <1>7 DEF Account

\* Fewer leads and targets break no uniqueness, as long as targets keep theirs.
LEMMA RowsShrink ==
    ASSUME IInv, NEW q \in Requests, UNCHANGED <<leads, targets>>,
           \A p \in Requests \ {q} : tx'[p] = tx[p],
           tx'[q].leads \subseteq tx[q].leads,
           tx'[q].targets \subseteq {t \in tx[q].targets : t.lead \in tx'[q].leads}
    PROVE  OneLead' /\ TargetRows'
  <1>1. AllLeads' \subseteq AllLeads /\ AllTargets' \subseteq AllTargets
    BY DEF AllLeads, AllTargets
  <1>2. OneLead'
    BY <1>1 DEF IInv, OneLead
  <1>3. \A t, u \in AllTargets' : t.campaign = u.campaign /\ t.restaurant = u.restaurant => t = u
    BY <1>1 DEF IInv, TargetRows
  <1>4. \A p \in Requests : \A t \in tx'[p].targets :
           t.lead \in tx'[p].leads /\ RestaurantOf(t.lead) = t.restaurant /\ t.campaign = Campaign[p]
    BY DEF IInv, TargetRows
  <1>5. TargetRows'
    BY <1>3, <1>4 DEF IInv, TargetRows
  <1>6. QED
    BY <1>2, <1>5

\* The account of a request that goes on to the next restaurant or to commit.
LEMMA MovedOn ==
    ASSUME IInv, NEW q \in Requests, NextRestaurant(q),
           pc[q] \in {"check", "insert", "attach", "qualify"}, leads' = leads,
           result'[q].promoted \subseteq 1..pos[q], result'[q].failed \subseteq 1..pos[q],
           tx'[q].leads = Made(q)',
           \A i \in 1..pos[q] : Served(q, i)',
           \A l \in Dispatched' : l[1] = q => l \in tx'[q].leads
    PROVE  Account(q)'
  <1>1. /\ pc'[q] \in {"check", "commit"} /\ Reached(q)' = 1..pos[q]
        /\ pc'[q] = "commit" => pos'[q] = Len(Batch[q])
    BY NextRestaurantType
  <1>2. {l \in leads : l[1] = q} = {}
    BY DEF IInv, Account, Book
  <1>3. Book(q)'
    BY <1>1, <1>2 DEF Book, Open
  <1>4. AllServed(q)' /\ Handed(q)'
    BY <1>1 DEF AllServed, Handed, Open
  <1>5. QED
    BY <1>3, <1>4 DEF Account

-----------------------------------------------------------------------------
(* The request.                                                            *)

\* A failed restaurant takes its own lead and target with it and no others.
LEMMA FailHere ==
    ASSUME IInv, NEW q \in Requests, pc[q] \in {"check", "insert", "attach", "qualify"},
           Count(q, "failed"), NextRestaurant(q),
           ToSavepoint(q) \/ (pc[q] = "check" /\ tx' = tx),
           UNCHANGED <<db, celery>>, faults' \in 0..MaxFaults, UNCHANGED moves
    PROVE  IInv'
  <1> DEFINE i0 == pos[q]
  <1>1. /\ i0 \in Nat /\ i0 \in 1..Len(Batch[q]) /\ Lead(q) = <<q, i0>>
        /\ DOMAIN Batch[q] = 1..Len(Batch[q])
    BY HereType, BatchType DEF IInv
  <1>2. Account(q) /\ Open(q)
    BY DEF IInv, Open
  <1>3. /\ result' \in [Requests -> Results]
        /\ \A p \in Requests \ {q} : result'[p] = result[p]
        /\ result'[q].promoted = result[q].promoted
        /\ result'[q].failed = result[q].failed \cup {i0}
    BY CountType DEF IInv
  <1>4. /\ tx' \in [Requests -> Txs] /\ \A p \in Requests \ {q} : tx'[p] = tx[p]
        /\ tx'[q].leads = tx[q].leads \ {Lead(q)}
        /\ tx'[q].targets \subseteq {t \in tx[q].targets : t.lead \in tx'[q].leads}
    <2>1. tx \in [Requests -> Txs]
      BY DEF IInv, Types, TypeOK, Txs
    <2>2. \A t \in tx[q].targets : t.lead \in tx[q].leads
      BY DEF IInv, TargetRows
    <2>3. CASE ToSavepoint(q)
      BY <2>1, <2>2, <2>3 DEF ToSavepoint, Txs
    <2>4. CASE pc[q] = "check" /\ tx' = tx
      <3>1. Lead(q) \notin Made(q)
        BY <1>1, <1>2, <2>4 DEF Account, Book, Reached, Made
      <3>2. Lead(q) \notin tx[q].leads
        BY <1>2, <3>1 DEF Account, Book
      <3>3. QED
        BY <2>1, <2>2, <2>4, <3>2
    <2>5. QED
      BY <2>3, <2>4
  <1>5. Types'
    BY <1>3, <1>4, NextRestaurantType DEF IInv, Types, TypeOK, PCs, Txs, Results, db, celery
  <1>6. tx'[q].leads = Made(q)'
    BY <1>1, <1>2, <1>3, <1>4 DEF Account, Book, Made
  <1>7. ASSUME NEW i \in 1..i0
        PROVE  Served(q, i)'
    <2>1. CASE i = i0
      BY <1>3, <2>1 DEF Served
    <2>2. CASE i # i0
      <3>1. Served(q, i)
        BY <1>1, <1>2, <2>2 DEF Account, AllServed, Reached, Open
      <3>2. \A k \in 1..i : <<q, k>> # Lead(q)
        BY <1>1, <2>2
      <3>3. QED
        BY <1>3, <1>4, <3>1, <3>2 DEF Served, Committed, db
    <2>3. QED
      BY <2>1, <2>2
  <1>8. Dispatched' = Dispatched
    BY DEF Dispatched, celery
  <1>9. \A l \in Dispatched : l[1] = q => l \in tx'[q].leads
    <2>1. pc[q] \in {"check", "insert"} => Lead(q) \notin tx[q].leads
      BY <1>1, <1>2 DEF Account, Book, Reached, Made
    <2>2. \A l \in Dispatched : l[1] = q => l \in tx[q].leads /\ l # Lead(q)
      BY <1>2, <2>1 DEF Account, Handed
    <2>3. QED
      BY <1>4, <2>2
  <1>10. Account(q)'
    <2>1. result'[q].promoted \subseteq 1..i0 /\ result'[q].failed \subseteq 1..i0
      BY <1>1, <1>2, <1>3, NextRestaurantType DEF Account, Book
    <2>2. QED
      BY <1>6, <1>7, <1>8, <1>9, <2>1, MovedOn DEF db
  <1>11. \A p \in Requests \ {q} : Account(p)'
    BY <1>3, <1>4, <1>8, NextRestaurantType, OtherAccounts DEF db
  <1>12. OneLead' /\ TargetRows'
    BY <1>4, RowsShrink DEF db
  <1>13. QED
    BY <1>5, <1>10, <1>11, <1>12 DEF IInv

\* A skipped restaurant has a lead already, committed or the request's own.
LEMMA SkipHere ==
    ASSUME IInv, NEW q \in Requests, pc[q] \in {"check", "insert"},
           Committed(Here(q)) \/ Own(q, Here(q)),
           Count(q, "skipped"), NextRestaurant(q),
           UNCHANGED <<db, tx, celery, bounds>>
    PROVE  IInv'
  <1>1. /\ pos[q] \in Nat /\ pos[q] \in 1..Len(Batch[q])
        /\ DOMAIN Batch[q] = 1..Len(Batch[q]) /\ Here(q) = Batch[q][pos[q]]
    BY HereType, BatchType DEF IInv, Here
  <1>2. Account(q) /\ Open(q)
    BY DEF IInv, Open
  <1>3. /\ result' \in [Requests -> Results]
        /\ \A p \in Requests \ {q} : result'[p] = result[p]
        /\ result'[q].promoted = result[q].promoted
        /\ result'[q].failed = result[q].failed
    BY CountType DEF IInv
  <1>4. Types'
    BY <1>3, NextRestaurantType
       DEF IInv, Types, TypeOK, PCs, Results, db, celery, bounds
  <1>5. tx'[q].leads = Made(q)'
    BY <1>2, <1>3 DEF Account, Book, Made
  <1>6. ASSUME NEW i \in 1..pos[q]
        PROVE  Served(q, i)'
    <2>1. CASE i = pos[q]
      <3>1. CASE Committed(Here(q))
        BY <1>1, <2>1, <3>1 DEF Served, Committed, db
      <3>2. CASE Own(q, Here(q))
        <4>1. PICK l \in tx[q].leads : RestaurantOf(l) = Here(q)
          BY <3>2 DEF Own
        <4>2. PICK k \in Reached(q) : l = <<q, k>>
          BY <1>2, <4>1 DEF Account, Book, Made
        <4>3. k \in 1..i /\ Batch[q][k] = Batch[q][i]
          BY <1>1, <2>1, <4>1, <4>2 DEF Reached, RestaurantOf
        <4>4. QED
          BY <4>1, <4>2, <4>3 DEF Served
      <3>3. QED
        BY <3>1, <3>2
    <2>2. CASE i # pos[q]
      <3>1. Served(q, i)
        BY <1>1, <1>2, <2>2 DEF Account, AllServed, Reached, Open
      <3>2. QED
        BY <1>3, <3>1 DEF Served, Committed, db
    <2>3. QED
      BY <2>1, <2>2
  <1>7. Dispatched' = Dispatched
    BY DEF Dispatched, celery
  <1>8. Account(q)'
    <2>1. result'[q].promoted \subseteq 1..pos[q] /\ result'[q].failed \subseteq 1..pos[q]
      BY <1>2, <1>3, NextRestaurantType DEF Account, Book
    <2>2. \A l \in Dispatched : l[1] = q => l \in tx[q].leads
      BY <1>2 DEF Account, Handed
    <2>3. QED
      BY <1>5, <1>6, <1>7, <2>1, <2>2, MovedOn DEF db
  <1>9. \A p \in Requests \ {q} : Account(p)'
    BY <1>3, <1>7, NextRestaurantType, OtherAccounts DEF db
  <1>10. OneLead' /\ TargetRows'
    BY DEF IInv, OneLead, TargetRows, AllLeads, AllTargets, db
  <1>11. QED
    BY <1>4, <1>8, <1>9, <1>10 DEF IInv

\* A step that stays at its restaurant and counts nothing.
LEMMA StayHere ==
    ASSUME IInv, NEW q \in Requests, NEW from \in {"check", "attach"},
           NEW next \in {"insert", "qualify"}, pc[q] = from,
           from = "check" <=> next = "insert", next = "insert" => ~Own(q, Here(q)),
           pc' = [pc EXCEPT ![q] = next], UNCHANGED <<db, pos, result, celery>>,
           tx' \in [Requests -> Txs], tx'[q].leads = tx[q].leads,
           \A p \in Requests \ {q} : tx'[p] = tx[p]
    PROVE  \A p \in Requests : Account(p)'
  <1>1. pc'[q] = next /\ \A p \in Requests \ {q} : pc'[p] = pc[p]
    BY DEF IInv, Types, TypeOK
  <1>2. Dispatched' = Dispatched
    BY DEF Dispatched, celery
  <1>3. \A p \in Requests \ {q} : Account(p)'
    BY <1>1, <1>2, OtherAccounts DEF db
  <1>4. Account(q)
    BY DEF IInv
  <1>5. /\ Reached(q)' = Reached(q) /\ Made(q)' = Made(q) /\ Open(q)' /\ Open(q)
        /\ Here(q)' = Here(q) /\ Lead(q)' = Lead(q)
        /\ \A r : Own(q, r)' <=> Own(q, r)
        /\ \A r : Committed(r)' <=> Committed(r)
    BY <1>1 DEF Reached, Made, Open, Here, Lead, Own, Committed, db
  <1>6. Book(q)'
    BY <1>1, <1>4, <1>5 DEF Account, Book, db
  <1>7. AllServed(q)'
    BY <1>1, <1>4, <1>5 DEF Account, AllServed, Served
  <1>8. Handed(q)'
    BY <1>1, <1>2, <1>4, <1>5 DEF Account, Handed
  <1>9. QED
    BY <1>3, <1>6, <1>7, <1>8 DEF Account

LEMMA CheckLeadInv ==
    ASSUME IInv, NEW q \in Requests, CheckLead(q)
    PROVE  IInv'
  <1>1. pc[q] = "check" /\ UNCHANGED <<db, tx, celery, bounds>>
    BY DEF CheckLead
  <1>2. CASE /\ Committed(Here(q)) \/ Own(q, Here(q))
             /\ Count(q, "skipped")
             /\ NextRestaurant(q)
    BY <1>1, <1>2, SkipHere
  <1>3. CASE Count(q, "failed") /\ NextRestaurant(q)
    <2>1. faults' \in 0..MaxFaults /\ UNCHANGED moves
      BY <1>1 DEF IInv, Types, TypeOK, bounds
    <2>2. QED
      BY <1>1, <1>3, <2>1, FailHere
  <1>4. CASE /\ ~Own(q, Here(q)) /\ pc' = [pc EXCEPT ![q] = "insert"]
             /\ UNCHANGED <<pos, result>>
    <2>1. tx' \in [Requests -> Txs]
      BY <1>1 DEF IInv, Types, TypeOK, Txs
    <2>2. \A p \in Requests : Account(p)'
      BY <1>1, <1>4, <2>1, StayHere
    <2>3. Types'
      BY <1>1, <1>4 DEF IInv, Types, TypeOK, db, celery, bounds
    <2>4. OneLead' /\ TargetRows'
      BY <1>1 DEF IInv, OneLead, TargetRows, AllLeads, AllTargets, db
    <2>5. QED
      BY <2>2, <2>3, <2>4 DEF IInv
  <1>5. QED
    BY <1>2, <1>3, <1>4 DEF CheckLead

\* The new lead is the only one of its restaurant: none is committed, none is
\* written by another open request, and the check saw none of its own.
LEMMA InsertLeadInv ==
    ASSUME IInv, NEW q \in Requests, InsertLead(q)
    PROVE  IInv'
  <1>1. pc[q] = "insert" /\ ~Pending(q, Here(q)) /\ UNCHANGED <<db, celery, bounds>>
    BY DEF InsertLead
  <1>2. CASE Committed(Here(q))
    <2>1. Count(q, "skipped") /\ NextRestaurant(q) /\ UNCHANGED tx
      BY <1>2 DEF InsertLead
    <2>2. QED
      BY <1>1, <1>2, <2>1, SkipHere
  <1>3. CASE ~Committed(Here(q))
    <2> DEFINE next == IF Campaign[q] = None THEN "qualify" ELSE "attach"
    <2>1. /\ Count(q, "promoted") /\ tx' = [tx EXCEPT ![q].leads = @ \cup {Lead(q)}]
          /\ pc' = [pc EXCEPT ![q] = next] /\ pos' = pos
      BY <1>3 DEF InsertLead
    <2>2. /\ pos[q] \in Nat /\ pos[q] \in 1..Len(Batch[q]) /\ Lead(q) = <<q, pos[q]>>
          /\ DOMAIN Batch[q] = 1..Len(Batch[q]) /\ Here(q) = Batch[q][pos[q]]
          /\ Lead(q) \in LeadIds /\ RestaurantOf(Lead(q)) = Here(q)
      BY HereType, BatchType DEF IInv, Here
    <2>3. Account(q) /\ Open(q)
      BY <1>1 DEF IInv, Open
    <2>4. /\ result' \in [Requests -> Results]
          /\ \A p \in Requests \ {q} : result'[p] = result[p]
          /\ result'[q].promoted = result[q].promoted \cup {pos[q]}
          /\ result'[q].failed = result[q].failed
      BY <2>1, CountType DEF IInv
    <2>5. /\ tx' \in [Requests -> Txs] /\ \A p \in Requests \ {q} : tx'[p] = tx[p]
          /\ tx'[q].leads = tx[q].leads \cup {Lead(q)} /\ tx'[q].targets = tx[q].targets
      <3>1. tx \in [Requests -> Txs]
        BY DEF IInv, Types, TypeOK, Txs
      <3>2. QED
        BY <2>1, <2>2, <3>1 DEF Txs
    <2>6. /\ pc' \in [Requests -> PCs] /\ pc'[q] = next
          /\ \A p \in Requests \ {q} : pc'[p] = pc[p]
      BY <2>1 DEF IInv, Types, TypeOK, PCs
    <2>7. Types'
      BY <1>1, <2>1, <2>4, <2>5, <2>6
         DEF IInv, Types, TypeOK, PCs, Txs, Results, db, celery, bounds
    <2>8. Dispatched' = Dispatched
      BY <1>1 DEF Dispatched, celery
    <2>9. /\ Reached(q)' = Reached(q) \cup {pos[q]} /\ pos[q] \notin Reached(q)
          /\ Open(q)' /\ Here(q)' = Here(q) /\ Lead(q)' = Lead(q)
          /\ \A r : Committed(r)' <=> Committed(r)
      BY <1>1, <2>1, <2>2, <2>6 DEF Reached, Open, Here, Lead, Committed, db
    <2>10. Book(q)'
      <3>1. pos[q] \notin result[q].failed
        BY <2>3, <2>9 DEF Account, Book
      <3>2. Made(q)' = Made(q) \cup {Lead(q)}
        BY <2>2, <2>4, <3>1 DEF Made
      <3>3. QED
        BY <1>1, <2>3, <2>4, <2>5, <2>6, <2>9, <3>2 DEF Account, Book, db
    <2>11. AllServed(q)'
      <3>1. ASSUME NEW i \in Reached(q)
            PROVE  Served(q, i)'
        <4>1. Served(q, i)
          BY <1>1, <2>3 DEF Account, AllServed
        <4>2. QED
          BY <2>4, <2>5, <2>9, <4>1 DEF Served
      <3>2. ASSUME NEW i, i = pos[q]
            PROVE  Served(q, i)'
        <4>1. <<q, i>> \in tx'[q].leads /\ i \in 1..i
          BY <2>2, <2>5, <3>2
        <4>2. QED
          BY <4>1 DEF Served
      <3>3. QED
        BY <2>9, <3>1, <3>2 DEF AllServed
    <2>12. Handed(q)'
      <3>1. Lead(q) \notin tx[q].leads
        BY <2>2, <2>3, <2>9 DEF Account, Book, Made
      <3>2. Lead(q)[1] = q
        BY DEF Lead
      <3>3. QED
        BY <1>1, <2>3, <2>5, <2>6, <2>8, <2>9, <3>1, <3>2 DEF Account, Handed, Open
    <2>13. \A p \in Requests \ {q} : Account(p)'
      BY <1>1, <2>1, <2>4, <2>5, <2>6, <2>8, OtherAccounts DEF db
    <2>14. OneLead'
      <3>1. \A l \in AllLeads : RestaurantOf(l) # Here(q)
        BY <1>1, <1>3, <2>3 DEF AllLeads, Committed, Pending, Own, Account, Book
      <3>2. AllLeads' = AllLeads \cup {Lead(q)}
        BY <1>1, <2>5 DEF AllLeads, db
      <3>3. QED
        BY <2>2, <3>1, <3>2 DEF IInv, OneLead
    <2>15. TargetRows'
      <3>1. AllTargets' = AllTargets /\ leads' = leads /\ targets' = targets
        BY <1>1, <2>5 DEF AllTargets, db
      <3>2. \A p \in Requests : tx'[p].targets = tx[p].targets /\ tx[p].leads \subseteq tx'[p].leads
        BY <2>5
      <3>3. QED
        BY <3>1, <3>2 DEF IInv, TargetRows
    <2>16. QED
      BY <2>7, <2>10, <2>11, <2>12, <2>13, <2>14, <2>15 DEF IInv, Account
  <1>4. QED
    BY <1>2, <1>3

\* No target of the pair is committed, and another open request with one would
\* have written a second lead of the restaurant.
LEMMA AttachTargetInv ==
    ASSUME IInv, NEW q \in Requests, AttachTarget(q)
    PROVE  IInv'
  <1> DEFINE new == [campaign |-> Campaign[q], restaurant |-> Here(q), lead |-> Lead(q)]
  <1>1. /\ pc[q] = "attach" /\ pc' = [pc EXCEPT ![q] = "qualify"]
        /\ UNCHANGED <<db, pos, result, celery, bounds>>
    BY DEF AttachTarget
  <1>2. Account(q) /\ Lead(q) \in tx[q].leads
    BY <1>1 DEF IInv, Account, Book
  <1>3. new \in Rows /\ RestaurantOf(Lead(q)) = Here(q)
    BY <1>1, <1>2, HereType DEF IInv, Account, Book, Rows, Campaigns
  <1>4. tx \in [Requests -> Txs]
    BY DEF IInv, Types, TypeOK, Txs
  <1>5. CASE tx' = tx
    <2>1. \A p \in Requests : Account(p)'
      BY <1>1, <1>4, <1>5, StayHere
    <2>2. Types'
      BY <1>1, <1>5 DEF IInv, Types, TypeOK, db, celery, bounds
    <2>3. OneLead' /\ TargetRows'
      BY <1>1, <1>5 DEF IInv, OneLead, TargetRows, AllLeads, AllTargets, db
    <2>4. QED
      BY <2>1, <2>2, <2>3 DEF IInv
  <1>6. CASE /\ ~\E t \in targets : t.campaign = Campaign[q] /\ t.restaurant = Here(q)
             /\ tx' = [tx EXCEPT ![q].targets = @ \cup {new}]
    <2>1. /\ tx' \in [Requests -> Txs] /\ \A p \in Requests \ {q} : tx'[p] = tx[p]
          /\ tx'[q].leads = tx[q].leads /\ tx'[q].targets = tx[q].targets \cup {new}
      BY <1>3, <1>4, <1>6 DEF Txs
    <2>2. \A p \in Requests : Account(p)'
      BY <1>1, <2>1, StayHere
    <2>3. Types'
      BY <1>1, <2>1 DEF IInv, Types, TypeOK, Txs, db, celery, bounds
    <2>4. AllLeads' = AllLeads /\ AllTargets' = AllTargets \cup {new}
      BY <1>1, <2>1 DEF AllLeads, AllTargets, db
    <2>5. OneLead'
      BY <2>4 DEF IInv, OneLead
    <2>6. \A p \in Requests : \A t \in tx'[p].targets :
             t.lead \in tx'[p].leads /\ RestaurantOf(t.lead) = t.restaurant /\ t.campaign = Campaign[p]
      BY <1>2, <1>3, <2>1 DEF IInv, TargetRows
    <2>7. ASSUME NEW p \in Requests, NEW t \in tx[p].targets,
                 t.campaign = Campaign[q], t.restaurant = Here(q)
          PROVE  t = new
      <3>1. t.lead \in AllLeads /\ RestaurantOf(t.lead) = Here(q) /\ Lead(q) \in AllLeads
        BY <1>2, <2>7 DEF IInv, TargetRows, AllLeads
      <3>2. t.lead = Lead(q)
        BY <1>3, <3>1 DEF IInv, OneLead
      <3>3. t \in Rows
        BY <1>4 DEF Txs
      <3>4. QED
        BY <2>7, <3>2, <3>3 DEF Rows
    <2>8. \A t \in AllTargets : t.campaign = Campaign[q] /\ t.restaurant = Here(q) => t = new
      BY <1>6, <2>7 DEF AllTargets
    <2>9. \A t, u \in AllTargets' : t.campaign = u.campaign /\ t.restaurant = u.restaurant => t = u
      BY <2>4, <2>8 DEF IInv, TargetRows
    <2>10. TargetRows'
      BY <1>1, <2>6, <2>9 DEF IInv, TargetRows, db
    <2>11. QED
      BY <2>2, <2>3, <2>5, <2>10 DEF IInv
  <1>7. QED
    BY <1>5, <1>6 DEF AttachTarget

\* The task goes out when the lead and its target are written.
LEMMA QualifyInv ==
    ASSUME IInv, NEW q \in Requests, Qualify(q)
    PROVE  IInv'
  <1> DEFINE new == [lead |-> Lead(q), tries |-> 0]
  <1>1. /\ pc[q] = "qualify" /\ NextRestaurant(q)
        /\ UNCHANGED <<db, result, work, ended, bounds>>
    BY DEF Qualify
  <1>2. /\ Account(q) /\ Open(q) /\ Lead(q) \in tx[q].leads /\ tx[q].leads = Made(q)
        /\ Lead(q) \in LeadIds /\ Lead(q)[1] = q
    BY <1>1, HereType DEF IInv, Open, Account, Book, Lead
  <1>3. tx \in [Requests -> Txs] /\ tasks \subseteq Tasks /\ 0 \in 0..MaxRetries
    BY PromotionAssumption DEF IInv, Types, TypeOK, Txs
  <1>4. /\ tx' \in [Requests -> Txs] /\ \A p \in Requests \ {q} : tx'[p] = tx[p]
        /\ tx'[q].leads = tx[q].leads /\ tx'[q].targets = tx[q].targets
        /\ tasks' \subseteq tasks \cup {new} /\ tasks \subseteq tasks'
    <2>1. CASE tx' = tx
      BY <1>3, <2>1 DEF Qualify
    <2>2. CASE tx' = [tx EXCEPT ![q].advanced = @ \cup {Lead(q)}]
      <3>1. tasks \subseteq tasks' /\ tasks' \subseteq tasks \cup {new}
        BY DEF Qualify
      <3>2. tx'[q] = [tx[q] EXCEPT !.advanced = @ \cup {Lead(q)}] /\ tx[q] \in Txs
        BY <1>3, <2>2
      <3>3. tx'[q] \in Txs /\ tx'[q].leads = tx[q].leads /\ tx'[q].targets = tx[q].targets
        BY <1>2, <3>2 DEF Txs
      <3>4. \A p \in Requests \ {q} : tx'[p] = tx[p]
        BY <1>3, <2>2
      <3>5. tx' \in [Requests -> Txs]
        BY <1>3, <2>2, <3>3, <3>4
      <3>6. QED
        BY <3>1, <3>3, <3>4, <3>5
    <2>3. QED
      BY <2>1, <2>2 DEF Qualify
  <1>5. Types'
    <2>1. tasks' \subseteq Tasks
      BY <1>2, <1>3, <1>4 DEF Tasks
    <2>2. QED
      BY <1>1, <1>4, <2>1, NextRestaurantType
         DEF IInv, Types, TypeOK, PCs, Txs, Results, db, bounds
  <1>6. \A l \in Dispatched' : l \in Dispatched \/ l = Lead(q)
    <2>1. \A t \in tasks' : t.lead \in Dispatched \/ t.lead = Lead(q)
      BY <1>4 DEF Dispatched
    <2>2. QED
      BY <1>1, <2>1 DEF Dispatched
  <1>7. \A l \in Dispatched' : l[1] = q => l \in tx'[q].leads
    <2> SUFFICES ASSUME NEW l \in Dispatched', l[1] = q
                 PROVE  l \in tx'[q].leads
      OBVIOUS
    <2>1. CASE l = Lead(q)
      BY <1>2, <1>4, <2>1
    <2>2. CASE l \in Dispatched
      <3>1. l \in tx[q].leads
        BY <1>2, <2>2 DEF Account, Handed
      <3>2. QED
        BY <1>4, <3>1
    <2>3. QED
      BY <1>6, <2>1, <2>2
  <1>8. Account(q)'
    <2>1. Reached(q) = 1..pos[q]
      BY <1>1, BatchType, HereType DEF Reached, IInv
    <2>2. result' = result /\ Made(q)' = Made(q)
      BY <1>1 DEF Made
    <2>3. result'[q].promoted \subseteq 1..pos[q] /\ result'[q].failed \subseteq 1..pos[q]
      BY <1>2, <2>1, <2>2 DEF Account, Book
    <2>4. ASSUME NEW i \in 1..pos[q]
          PROVE  Served(q, i)'
      <3>1. Served(q, i)
        BY <1>1, <1>2, <2>1 DEF Account, AllServed
      <3>2. QED
        BY <1>1, <1>4, <2>2, <3>1 DEF Served, Committed, db
    <2>5. tx'[q].leads = Made(q)'
      BY <1>2, <1>4, <2>2
    <2>6. leads' = leads
      BY <1>1 DEF db
    <2>7. QED
      BY <1>1, <1>7, <2>3, <2>4, <2>5, <2>6, MovedOn
  <1>9. \A p \in Requests \ {q} : Account(p)'
    BY <1>1, <1>2, <1>4, <1>6, NextRestaurantType, OtherAccounts DEF db
  <1>10. OneLead' /\ TargetRows'
    <2>1. \A t \in tx[q].targets : t.lead \in tx[q].leads
      BY DEF IInv, TargetRows
    <2>2. QED
      BY <1>1, <1>4, <2>1, RowsShrink DEF db
  <1>11. QED
    BY <1>5, <1>8, <1>9, <1>10 DEF IInv

\* What was the request's is everybody's: the rows are the same.
LEMMA CommitRequestInv ==
    ASSUME IInv, NEW q \in Requests, CommitRequest(q)
    PROVE  IInv'
  <1>1. /\ pc[q] = "commit" /\ pc' = [pc EXCEPT ![q] = "done"]
        /\ leads' = leads \cup tx[q].leads /\ targets' = targets \cup tx[q].targets
        /\ stage' = [l \in LeadIds |-> IF l \in tx[q].advanced THEN "qualified" ELSE stage[l]]
        /\ tx' = [tx EXCEPT ![q] = EmptyTx]
        /\ UNCHANGED <<verdict, pos, result, celery, bounds>>
    BY DEF CommitRequest
  <1>2. /\ Account(q) /\ Open(q) /\ tx[q].leads = Made(q)
        /\ {l \in leads : l[1] = q} = {} /\ pos[q] = Len(Batch[q])
    BY <1>1 DEF IInv, Account, Book, Open
  <1>3. tx \in [Requests -> Txs] /\ tx[q] \in Txs
    BY DEF IInv, Types, TypeOK, Txs
  <1>4. /\ tx' \in [Requests -> Txs] /\ tx'[q] = EmptyTx
        /\ \A p \in Requests \ {q} : tx'[p] = tx[p]
    BY <1>1, <1>3 DEF EmptyTx, Txs
  <1>5. /\ pc' \in [Requests -> PCs] /\ pc'[q] = "done"
        /\ \A p \in Requests \ {q} : pc'[p] = pc[p]
    BY <1>1 DEF IInv, Types, TypeOK, PCs
  <1>6. Types'
    <2>1. leads' \subseteq LeadIds /\ targets' \subseteq Rows
      BY <1>1, <1>3 DEF IInv, Types, TypeOK, Txs
    <2>2. stage' \in [LeadIds -> Stages]
      BY <1>1 DEF IInv, Types, TypeOK, Stages
    <2>3. QED
      BY <1>1, <1>4, <1>5, <2>1, <2>2 DEF IInv, Types, TypeOK, PCs, Txs, Stages, celery, bounds
  <1>7. Dispatched' = Dispatched
    BY <1>1 DEF Dispatched, celery
  <1>8. \A l \in tx[q].leads : l[1] = q
    BY <1>2 DEF Made
  <1>9. \A p \in Requests \ {q} : Account(p)'
    BY <1>1, <1>4, <1>5, <1>7, <1>8, OtherAccounts
  <1>10. /\ Made(q)' = Made(q) /\ Reached(q)' = Reached(q)
         /\ \A r : Committed(r) => Committed(r)'
    BY <1>1, <1>5 DEF Made, Reached, Committed
  <1>11. Book(q)'
    <2>1. {l \in leads' : l[1] = q} = Made(q)
      BY <1>1, <1>2, <1>8
    <2>2. ~Open(q)'
      BY <1>5 DEF Open
    <2>3. QED
      BY <1>1, <1>2, <1>4, <1>5, <1>10, <2>1, <2>2 DEF Account, Book
  <1>12. AllServed(q)'
    <2>1. ASSUME NEW i \in Reached(q)
          PROVE  Served(q, i)'
      <3>1. Served(q, i)
        BY <1>1, <1>2 DEF Account, AllServed
      <3>2. CASE \E k \in 1..i : <<q, k>> \in tx[q].leads /\ Batch[q][k] = Batch[q][i]
        <4>1. PICK k \in 1..i : <<q, k>> \in tx[q].leads /\ Batch[q][k] = Batch[q][i]
          BY <3>2
        <4>2. <<q, k>> \in leads' /\ RestaurantOf(<<q, k>>) = Batch[q][i]
          BY <1>1, <4>1 DEF RestaurantOf
        <4>3. QED
          BY <4>2 DEF Served, Committed
      <3>3. QED
        BY <1>1, <1>10, <3>1, <3>2 DEF Served
    <2>2. QED
      BY <1>10, <2>1 DEF AllServed
  <1>13. Handed(q)'
    <2>1. \A l \in Dispatched : l[1] = q => l \in leads'
      BY <1>1, <1>2 DEF Account, Handed
    <2>2. ~Open(q)'
      BY <1>5 DEF Open
    <2>3. QED
      BY <1>5, <1>7, <2>1, <2>2 DEF Handed
  <1>14. AllLeads' = AllLeads /\ AllTargets' = AllTargets
    BY <1>1, <1>4 DEF AllLeads, AllTargets, EmptyTx
  <1>15. OneLead'
    BY <1>14 DEF IInv, OneLead
  <1>16. TargetRows'
    <2>1. \A t \in targets' :
             t.lead # None => t.lead \in leads' /\ RestaurantOf(t.lead) = t.restaurant
      BY <1>1 DEF IInv, TargetRows
    <2>2. \A p \in Requests : \A t \in tx'[p].targets :
             t.lead \in tx'[p].leads /\ RestaurantOf(t.lead) = t.restaurant /\ t.campaign = Campaign[p]
      BY <1>4 DEF IInv, TargetRows, EmptyTx
    <2>3. \A t, u \in AllTargets' : t.campaign = u.campaign /\ t.restaurant = u.restaurant => t = u
      BY <1>14 DEF IInv, TargetRows
    <2>4. QED
      BY <2>1, <2>2, <2>3 DEF TargetRows
  <1>17. QED
    BY <1>6, <1>9, <1>11, <1>12, <1>13, <1>15, <1>16 DEF IInv, Account

LEMMA StatementErrorInv ==
    ASSUME IInv, NEW q \in Requests, StatementError(q)
    PROVE  IInv'
  <1>1. /\ pc[q] \in {"check", "insert", "attach", "qualify"} /\ ToSavepoint(q)
        /\ Count(q, "failed") /\ NextRestaurant(q) /\ UNCHANGED <<db, celery, moves>>
    BY DEF StatementError
  <1>2. faults' \in 0..MaxFaults
    BY PromotionAssumption DEF StatementError, IInv, Types, TypeOK
  <1>3. QED
    BY <1>1, <1>2, FailHere

LEMMA DeadlockVictimInv ==
    ASSUME IInv, NEW q \in Requests, DeadlockVictim(q)
    PROVE  IInv'
  <1>1. PICK S \in SUBSET Requests : q \in S /\ \A p \in S : WaitsFor(p) \cap S # {}
    BY DEF DeadlockVictim, Deadlocked
  <1>2. pc[q] = "insert"
    BY <1>1 DEF WaitsFor
  <1>3. faults' \in 0..MaxFaults /\ UNCHANGED moves
    BY DEF DeadlockVictim, IInv, Types, TypeOK, bounds
  <1>4. QED
    BY <1>2, <1>3, FailHere DEF DeadlockVictim

\* A request that is lost leaves nothing behind but its tasks.
LEMMA AbortInv ==
    ASSUME IInv, NEW q \in Requests, Abort(q)
    PROVE  IInv'
  <1>1. /\ Open(q) /\ tx' = [tx EXCEPT ![q] = EmptyTx] /\ pc' = [pc EXCEPT ![q] = "aborted"]
        /\ UNCHANGED <<db, pos, result, celery, moves>>
    BY DEF Abort, Open
  <1>2. faults' \in 0..MaxFaults
    BY PromotionAssumption DEF Abort, IInv, Types, TypeOK
  <1>3. /\ tx' \in [Requests -> Txs] /\ tx'[q] = EmptyTx
        /\ \A p \in Requests \ {q} : tx'[p] = tx[p]
    BY <1>1 DEF IInv, Types, TypeOK, Txs, EmptyTx
  <1>4. /\ pc' \in [Requests -> PCs] /\ pc'[q] = "aborted"
        /\ \A p \in Requests \ {q} : pc'[p] = pc[p]
    BY <1>1 DEF IInv, Types, TypeOK, PCs
  <1>5. Types'
    BY <1>1, <1>2, <1>3, <1>4 DEF IInv, Types, TypeOK, PCs, Txs, db, celery
  <1>6. Dispatched' = Dispatched
    BY <1>1 DEF Dispatched, celery
  <1>7. \A p \in Requests \ {q} : Account(p)'
    BY <1>1, <1>3, <1>4, <1>6, OtherAccounts DEF db
  <1>8. Book(q)'
    <2>1. Account(q) /\ pc[q] # "done" /\ {l \in leads : l[1] = q} = {}
      BY <1>1 DEF IInv, Account, Book, Open
    <2>2. Reached(q) \subseteq Reached(q)' /\ ~Open(q)'
      BY <1>1, <1>4 DEF Reached, Open
    <2>3. QED
      BY <1>1, <1>3, <1>4, <2>1, <2>2 DEF Account, Book, db
  <1>9. AllServed(q)' /\ Handed(q)'
    BY <1>4 DEF AllServed, Handed, Open
  <1>10. OneLead' /\ TargetRows'
    BY <1>1, <1>3, RowsShrink DEF EmptyTx, db
  <1>11. QED
    BY <1>5, <1>7, <1>8, <1>9, <1>10 DEF IInv, Account

-----------------------------------------------------------------------------
(* The workers and the others.                                             *)

\* A worker changes which task is where, never which leads have one.
LEMMA WorkersOnly ==
    ASSUME IInv, UNCHANGED <<leads, targets, req>>, Dispatched' \subseteq Dispatched, Types'
    PROVE  IInv'
  <1>1. ASSUME NEW q \in Requests
        PROVE  Account(q)'
    <2>1. Account(q)
      BY DEF IInv
    <2>2. /\ Reached(q)' = Reached(q) /\ Made(q)' = Made(q) /\ Open(q)' = Open(q)
          /\ Here(q)' = Here(q) /\ Lead(q)' = Lead(q)
          /\ \A r : Own(q, r)' <=> Own(q, r)
          /\ \A r : Committed(r)' <=> Committed(r)
      BY DEF Reached, Made, Open, Here, Lead, Own, Committed, req
    <2>3. Book(q)'
      BY <2>1, <2>2 DEF Account, Book, req
    <2>4. AllServed(q)'
      BY <2>1, <2>2 DEF Account, AllServed, Served, req
    <2>5. Handed(q)'
      BY <2>1, <2>2 DEF Account, Handed, req
    <2>6. QED
      BY <2>3, <2>4, <2>5 DEF Account
  <1>2. OneLead' /\ TargetRows'
    BY DEF IInv, OneLead, TargetRows, AllLeads, AllTargets, req
  <1>3. QED
    BY <1>1, <1>2 DEF IInv

LEMMA WorkType ==
    ASSUME Types, NEW w \in Workers
    PROVE  /\ work[w] \in Works /\ NoWork \in Works
           /\ work[w].pc # "idle" =>
                /\ work[w].task \in Tasks /\ work[w].task.lead \in LeadIds
                /\ work[w].task.lead \in Dispatched
  BY DEF Types, TypeOK, Works, NoWork, Stages, Tasks, Dispatched

LEMMA TakeInv ==
    ASSUME IInv, NEW w \in Workers, Take(w)
    PROVE  IInv'
  <1>1. PICK t \in tasks :
           /\ tasks' = tasks \ {t}
           /\ work' = [work EXCEPT ![w] = [NoWork EXCEPT !.pc = "evaluate", !.task = t]]
    BY DEF Take
  <1>2. UNCHANGED <<db, req, ended, bounds>>
    BY DEF Take
  <1> DEFINE busy == [NoWork EXCEPT !.pc = "evaluate", !.task = t]
  <1>3. t \in Tasks /\ work \in [Workers -> Works]
    BY DEF IInv, Types, TypeOK
  <1>4. busy \in Works /\ busy.pc = "evaluate" /\ busy.task = t
    BY <1>3 DEF NoWork, Works, Stages
  <1>5. /\ work' \in [Workers -> Works]
        /\ work'[w] \in Works /\ work'[w].pc = "evaluate" /\ work'[w].task = t
        /\ \A v \in Workers \ {w} : work'[v] = work[v]
    BY <1>1, <1>3, <1>4
  <1>6. Types'
    <2>1. tasks' \subseteq Tasks
      BY <1>1 DEF IInv, Types, TypeOK
    <2>2. \A v \in Workers :
             /\ work'[v].pc # "idle" => work'[v].task \in Tasks
             /\ work'[v] \in Works
      BY <1>3, <1>5 DEF IInv, Types, TypeOK
    <2>3. QED
      BY <1>2, <1>5, <2>1, <2>2 DEF IInv, Types, TypeOK, Works, Stages, db, req, bounds
  <1>7. Dispatched' \subseteq Dispatched
    <2>1. \A v \in Workers : work'[v].pc # "idle" => work'[v].task.lead \in Dispatched
      BY <1>5 DEF Dispatched
    <2>2. \A u \in tasks' : u.lead \in Dispatched
      BY <1>1 DEF Dispatched
    <2>3. QED
      BY <1>2, <2>1, <2>2 DEF Dispatched
  <1>8. QED
    BY <1>2, <1>6, <1>7, WorkersOnly DEF db

LEMMA EvaluateInv ==
    ASSUME IInv, NEW w \in Workers, Evaluate(w)
    PROVE  IInv'
  <1> DEFINE l == work[w].task.lead
  <1>1. work[w].pc = "evaluate" /\ UNCHANGED <<db, req, tasks, ended, bounds>>
    BY DEF Evaluate
  <1>2. PICK v \in Verdicts :
           work' = [work EXCEPT ![w].pc = "commit", ![w].verdict = v,
                                ![w].stage = IF v = "qualified" /\ l \in leads
                                             THEN stage[l] ELSE "none"]
    BY DEF Evaluate
  <1> DEFINE st == IF v = "qualified" /\ l \in leads THEN stage[l] ELSE "none"
             eval == [work[w] EXCEPT !.pc = "commit", !.verdict = v, !.stage = st]
  <1>3. work \in [Workers -> Works] /\ work[w] \in Works /\ l \in LeadIds /\ work[w].task \in Tasks
    BY <1>1, WorkType DEF IInv, Types
  <1>4. st \in Stages \cup {"none"}
    BY <1>3 DEF IInv, Types, TypeOK, Stages
  <1>5. eval \in Works /\ eval.pc = "commit" /\ eval.task = work[w].task
    BY <1>3, <1>4 DEF Works
  <1>6. work' = [work EXCEPT ![w] = eval]
    BY <1>2
  <1>7. /\ work' \in [Workers -> Works]
        /\ work'[w] \in Works /\ work'[w].pc = "commit" /\ work'[w].task = work[w].task
        /\ \A x \in Workers \ {w} : work'[x] = work[x]
    BY <1>3, <1>5, <1>6
  <1>8. Types'
    <2>1. \A x \in Workers :
             /\ work'[x].pc # "idle" => work'[x].task \in Tasks
             /\ work'[x] \in Works
      BY <1>3, <1>7 DEF IInv, Types, TypeOK
    <2>2. QED
      BY <1>1, <1>7, <2>1 DEF IInv, Types, TypeOK, Works, Stages, db, req, bounds
  <1>9. Dispatched' \subseteq Dispatched
    BY <1>1, <1>7 DEF Dispatched
  <1>10. QED
    BY <1>1, <1>8, <1>9, WorkersOnly DEF db

LEMMA CommitTaskInv ==
    ASSUME IInv, NEW w \in Workers, CommitTask(w)
    PROVE  IInv'
  <1> DEFINE l == work[w].task.lead
  <1>1. /\ work[w].pc = "commit" /\ work' = [work EXCEPT ![w] = NoWork]
        /\ ended' \subseteq ended \cup {l}
        /\ UNCHANGED <<leads, targets, req, tasks, bounds>>
    BY DEF CommitTask
  <1>2. /\ work \in [Workers -> Works] /\ work[w] \in Works /\ NoWork \in Works
        /\ l \in LeadIds /\ l \in Dispatched
    BY <1>1, WorkType DEF IInv, Types
  <1>3. stage' \in [LeadIds -> Stages]
    BY <1>2 DEF CommitTask, IInv, Types, TypeOK, Stages
  <1>4. verdict' \in [Restaurants -> Verdicts \cup {"none"}]
    BY <1>2 DEF CommitTask, IInv, Types, TypeOK, Works
  <1>5. /\ work' \in [Workers -> Works] /\ work'[w].pc = "idle"
        /\ \A x \in Workers \ {w} : work'[x] = work[x]
    BY <1>1, <1>2 DEF NoWork
  <1>6. Types'
    <2>1. \A x \in Workers :
             /\ work'[x].pc # "idle" => work'[x].task \in Tasks
             /\ work'[x] \in Works
      BY <1>5 DEF IInv, Types, TypeOK
    <2>2. QED
      BY <1>1, <1>2, <1>3, <1>4, <1>5, <2>1 DEF IInv, Types, TypeOK, Works, Stages, req, bounds
  <1>7. Dispatched' \subseteq Dispatched
    BY <1>1, <1>2, <1>5 DEF Dispatched
  <1>8. QED
    BY <1>1, <1>6, <1>7, WorkersOnly

LEMMA TaskErrorInv ==
    ASSUME IInv, NEW w \in Workers, TaskError(w)
    PROVE  IInv'
  <1> DEFINE t == work[w].task
  <1>1. /\ work[w].pc # "idle" /\ work' = [work EXCEPT ![w] = NoWork]
        /\ UNCHANGED <<db, req, ended, moves>>
    BY DEF TaskError
  <1>2. /\ work \in [Workers -> Works] /\ NoWork \in Works
        /\ t \in Tasks /\ t.lead \in Dispatched
    BY <1>1, WorkType DEF IInv, Types
  <1>3. faults' \in 0..MaxFaults
    BY PromotionAssumption DEF TaskError, IInv, Types, TypeOK
  <1>4. PICK u \in Tasks : u.lead = t.lead /\ tasks' \subseteq tasks \cup {u}
    <2>1. CASE t.tries < MaxRetries /\ tasks' = tasks \cup {[t EXCEPT !.tries = @ + 1]}
      <3>1. t.tries + 1 \in 0..MaxRetries /\ t.lead \in LeadIds
        BY <1>2, <2>1, PromotionAssumption DEF Tasks
      <3>2. [t EXCEPT !.tries = @ + 1] = [lead |-> t.lead, tries |-> t.tries + 1]
        BY <1>2 DEF Tasks
      <3>3. QED
        BY <2>1, <3>1, <3>2 DEF Tasks
    <2>2. CASE tasks' = tasks \cup {t} \/ tasks' = tasks
      BY <1>2, <2>2
    <2>3. QED
      BY <2>1, <2>2 DEF TaskError
  <1>5. /\ work' \in [Workers -> Works] /\ work'[w].pc = "idle"
        /\ \A x \in Workers \ {w} : work'[x] = work[x]
    BY <1>1, <1>2 DEF NoWork
  <1>6. Types'
    <2>1. tasks' \subseteq Tasks
      BY <1>4 DEF IInv, Types, TypeOK
    <2>2. \A x \in Workers :
             /\ work'[x].pc # "idle" => work'[x].task \in Tasks
             /\ work'[x] \in Works
      BY <1>5 DEF IInv, Types, TypeOK
    <2>3. QED
      BY <1>1, <1>3, <1>5, <2>1, <2>2 DEF IInv, Types, TypeOK, Works, Stages, db, req
  <1>7. Dispatched' \subseteq Dispatched
    <2>1. \A x \in tasks' : x.lead \in Dispatched
      BY <1>2, <1>4 DEF Dispatched
    <2>2. QED
      BY <1>1, <1>5, <2>1 DEF Dispatched
  <1>8. QED
    BY <1>1, <1>6, <1>7, WorkersOnly DEF db

LEMMA MoveLeadInv ==
    ASSUME IInv, NEW l \in LeadIds, MoveLead(l)
    PROVE  IInv'
  <1>1. /\ stage' = [stage EXCEPT ![l] = "converted"] /\ moves' = moves + 1 /\ moves < MaxMoves
        /\ UNCHANGED <<leads, targets, verdict, req, celery, faults>>
    BY DEF MoveLead
  <1>2. stage' \in [LeadIds -> Stages] /\ moves' \in 0..MaxMoves
    BY <1>1, PromotionAssumption DEF IInv, Types, TypeOK, Stages
  <1>3. Types'
    BY <1>1, <1>2 DEF IInv, Types, TypeOK, Stages, req, celery
  <1>4. Dispatched' = Dispatched
    BY <1>1 DEF Dispatched, celery
  <1>5. QED
    BY <1>1, <1>3, <1>4, WorkersOnly

\* select_targets sees no target of the pair, not even an open request's.
LEMMA SelectTargetInv ==
    ASSUME IInv, NEW c \in Campaigns, NEW r \in Restaurants, SelectTarget(c, r)
    PROVE  IInv'
  <1> DEFINE new == [campaign |-> c, restaurant |-> r, lead |-> None]
  <1>1. /\ targets' = targets \cup {new}
        /\ \A t \in AllTargets : ~(t.campaign = c /\ t.restaurant = r)
        /\ UNCHANGED <<leads, stage, verdict, req, celery, bounds>>
    BY DEF SelectTarget, AllTargets
  <1>2. new \in Rows
    BY DEF Rows
  <1>3. Types'
    BY <1>1, <1>2 DEF IInv, Types, TypeOK, req, celery, bounds
  <1>4. ASSUME NEW q \in Requests
        PROVE  Account(q)'
    <2>1. Account(q)
      BY DEF IInv
    <2>2. /\ Reached(q)' = Reached(q) /\ Made(q)' = Made(q) /\ Open(q)' = Open(q)
          /\ Here(q)' = Here(q) /\ Lead(q)' = Lead(q) /\ Dispatched' = Dispatched
          /\ \A i : Own(q, i)' <=> Own(q, i)
          /\ \A i : Committed(i)' <=> Committed(i)
      BY <1>1 DEF Reached, Made, Open, Here, Lead, Own, Committed, Dispatched, req, celery
    <2>3. Book(q)'
      BY <1>1, <2>1, <2>2 DEF Account, Book, req
    <2>4. AllServed(q)'
      BY <1>1, <2>1, <2>2 DEF Account, AllServed, Served, req
    <2>5. Handed(q)'
      BY <1>1, <2>1, <2>2 DEF Account, Handed, req
    <2>6. QED
      BY <2>3, <2>4, <2>5 DEF Account
  <1>5. AllLeads' = AllLeads /\ AllTargets' = AllTargets \cup {new}
    BY <1>1 DEF AllLeads, AllTargets, req
  <1>6. OneLead'
    BY <1>5 DEF IInv, OneLead
  <1>7. TargetRows'
    <2>1. \A t, u \in AllTargets' : t.campaign = u.campaign /\ t.restaurant = u.restaurant => t = u
      BY <1>1, <1>5 DEF IInv, TargetRows
    <2>2. \A t \in targets' :
             t.lead # None => t.lead \in leads' /\ RestaurantOf(t.lead) = t.restaurant
      BY <1>1 DEF IInv, TargetRows
    <2>3. QED
      BY <1>1, <2>1, <2>2 DEF IInv, TargetRows, req
  <1>8. QED
    BY <1>3, <1>4, <1>6, <1>7 DEF IInv

LEMMA StutterInv ==
    ASSUME IInv, UNCHANGED vars
    PROVE  IInv'
  <1>1. Types'
    BY DEF IInv, Types, TypeOK, vars, db, req, celery, bounds
  <1>2. Dispatched' = Dispatched
    BY DEF Dispatched, vars, celery
  <1>3. QED
    BY <1>1, <1>2, WorkersOnly DEF vars, db

-----------------------------------------------------------------------------
(* The specification keeps the invariant.                                  *)

LEMMA InitInv ==
    ASSUME Init
    PROVE  IInv
  <1>1. Types
    <2>1. /\ tx \in [Requests -> Txs] /\ result \in [Requests -> Results]
          /\ work \in [Workers -> Works]
      BY DEF Init, EmptyTx, EmptyResult, NoWork, Txs, Results, Works, Stages
    <2>2. \A q \in Requests : pos[q] \in DOMAIN Batch[q]
      BY BatchType DEF Init
    <2>3. verdict \in [Restaurants -> Verdicts \cup {"none"}]
      BY DEF Init, Verdicts
    <2>4. \A w \in Workers : work[w].pc = "idle"
      BY DEF Init, NoWork
    <2>5. pos \in [Requests -> Nat] /\ pc \in [Requests -> PCs] /\ stage \in [LeadIds -> Stages]
      BY DEF Init, PCs, Stages
    <2>6. faults \in 0..MaxFaults /\ moves \in 0..MaxMoves
      BY PromotionAssumption DEF Init
    <2>7. QED
      BY <2>1, <2>2, <2>3, <2>4, <2>5, <2>6
         DEF Init, Types, TypeOK, Txs, Results, Works, Stages, PCs
  <1>2. ASSUME NEW q \in Requests
        PROVE  Account(q)
    <2>1. Reached(q) = {} /\ Made(q) = {} /\ Open(q)
      BY BatchType DEF Init, Reached, Made, Open, EmptyResult
    <2>2. Book(q)
      BY <2>1 DEF Init, Book, EmptyTx, EmptyResult
    <2>3. Dispatched = {}
      BY DEF Init, Dispatched, NoWork
    <2>4. AllServed(q) /\ Handed(q)
      BY <2>1, <2>3 DEF Init, AllServed, Handed
    <2>5. QED
      BY <2>2, <2>4 DEF Account
  <1>3. AllLeads = {} /\ AllTargets = {}
    BY DEF Init, AllLeads, AllTargets, EmptyTx
  <1>4. OneLead
    BY <1>3 DEF OneLead
  <1>5. TargetRows
    BY <1>3 DEF Init, TargetRows, EmptyTx
  <1>6. QED
    BY <1>1, <1>2, <1>4, <1>5 DEF IInv

LEMMA NextInv ==
    ASSUME IInv, [Next]_vars
    PROVE  IInv'
  <1>1. CASE \E q \in Requests :
                RequestStep(q) \/ StatementError(q) \/ DeadlockVictim(q) \/ Abort(q)
    BY <1>1, CheckLeadInv, InsertLeadInv, AttachTargetInv, QualifyInv, CommitRequestInv,
       StatementErrorInv, DeadlockVictimInv, AbortInv DEF RequestStep
  <1>2. CASE \E w \in Workers : TaskStep(w) \/ TaskError(w)
    BY <1>2, TakeInv, EvaluateInv, CommitTaskInv, TaskErrorInv DEF TaskStep
  <1>3. CASE \E l \in LeadIds : MoveLead(l)
    BY <1>3, MoveLeadInv
  <1>4. CASE \E c \in Campaigns, r \in Restaurants : SelectTarget(c, r)
    BY <1>4, SelectTargetInv
  <1>5. CASE UNCHANGED vars
    BY <1>5, StutterInv
  <1>6. QED
    BY <1>1, <1>2, <1>3, <1>4, <1>5 DEF Next

LEMMA Invariance == Spec => []IInv
  BY InitInv, NextInv, PTL DEF Spec

\* Types, and that a request is at a restaurant of its batch and a busy worker
\* has a task (dashboard/routes.py, qualify_restaurant_task).
THEOREM TypeCorrect == Spec => []TypeOK
  <1>1. IInv => TypeOK
    BY DEF IInv, Types
  <1>2. QED
    BY <1>1, Invariance, PTL

\* promote_restaurants leaves nobody out: a restaurant of an answered request is
\* failed or somebody's committed lead, however requests overlap, restaurants
\* repeat, statements fail and PostgreSQL breaks deadlocks.
THEOREM NobodyForgotten == Spec => []NobodyLeftOut
  <1>1. ASSUME IInv, NEW q \in Requests, pc[q] = "done", NEW i \in DOMAIN Batch[q]
        PROVE  i \in result[q].failed \/ Committed(Batch[q][i])
    <2>1. Book(q) /\ AllServed(q)
      BY <1>1 DEF IInv, Account
    <2>2. tx[q] = EmptyTx /\ pos[q] = Len(Batch[q])
      BY <1>1, <2>1 DEF Book, Open
    <2>3. i \in Reached(q)
      BY <1>1, <2>2, BatchType DEF Reached
    <2>4. Served(q, i)
      BY <1>1, <2>1, <2>3 DEF AllServed
    <2>5. QED
      BY <2>2, <2>4 DEF Served, EmptyTx
  <1>2. IInv => NobodyLeftOut
    BY <1>1 DEF NobodyLeftOut
  <1>3. QED
    BY <1>2, Invariance, PTL

\* The counts of PromotionResult: an answered request stored a lead for exactly
\* the restaurants it calls promoted and not failed.
THEOREM CountsTell == Spec => []CountsTellLeads
  <1>1. IInv => CountsTellLeads
    BY DEF IInv, Account, Book, Made, CountsTellLeads
  <1>2. QED
    BY <1>1, Invariance, PTL

\* What promote_restaurants, select_targets and qualify_restaurant_task store
\* agrees: one lead per restaurant, one target per campaign and restaurant that
\* names it, and no qualification for a lead an answered request rolled back.
THEOREM RecordsStayInStep == Spec => []RecordsAgree
  <1>1. ASSUME IInv
        PROVE  TargetNamesLead
    <2>1. leads \subseteq AllLeads /\ targets \subseteq AllTargets
      BY DEF AllLeads, AllTargets
    <2>2. \A l, k \in leads : RestaurantOf(l) = RestaurantOf(k) => l = k
      BY <1>1, <2>1 DEF IInv, OneLead
    <2>3. \A t, u \in targets : t.campaign = u.campaign /\ t.restaurant = u.restaurant => t = u
      BY <1>1, <2>1 DEF IInv, TargetRows
    <2>4. QED
      BY <1>1, <2>2, <2>3 DEF IInv, TargetRows, TargetNamesLead
  <1>2. ASSUME IInv
        PROVE  DispatchedIsStored
    BY <1>2 DEF IInv, Account, Handed, Dispatched, DispatchedIsStored
  <1>3. IInv => RecordsAgree
    BY <1>1, <1>2 DEF RecordsAgree
  <1>4. QED
    BY <1>3, Invariance, PTL
============================================================================
