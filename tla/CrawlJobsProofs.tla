--------------------------- MODULE CrawlJobsProofs ---------------------------
(***************************************************************************)
(* Proofs about CrawlJobs for every number of jobs, sources and            *)
(* restaurants, whatever a crawl finds and however many faults hit it.     *)
(***************************************************************************)
EXTENDS CrawlJobs, FiniteSetTheorems, TLAPS

Types == TypeOK /\ src \in [Jobs -> Nat \ {0}] /\ pos \in [Jobs -> Nat \ {0}]

\* The records the first n sources of a job list of one restaurant.
Spots(j, r, n) ==
    UNION {{s} \X {i \in DOMAIN Sources[j][s] : Sources[j][s][i] = r} : s \in 1..n}

\* How many of its sources a job has behind it, and how often it started over.
Behind(j) ==
    CASE pc[j] \in {"posted", "queued"} -> 0
      [] pc[j] = "crawl" -> src[j] - 1
      [] OTHER -> Len(Sources[j])

Again(j) == IF Kind[j] = "celery" THEN faults[j] ELSE 0

StoredOnce(j) ==
    \A r \in AllFound :
        copies[j][r] <= Cardinality(Spots(j, r, Behind(j))) + Listed(j, r) * Again(j)

\* Only a crawl of one source that got to its end may call itself done.
DoneStored(j) ==
    ~Several(j) /\ (pc[j] = "finish" \/ row[j] \in {"done", "completed"})
        => \A r \in Found(j) : copies[j][r] > 0

Empty(j) == \A r \in AllFound : copies[j][r] = 0

\* A job no fault has hit has stored nothing while its row may be called
\* failed, and it only runs without its row when the row is gone.
FailedEmpty(j) ==
    faults[j] = 0 =>
        /\ pc[j] \in {"posted", "queued"} \/ (pc[j] = "crawl" /\ ~Several(j)) => Empty(j)
        /\ pc[j] \in {"failing", "closing"} => Empty(j) \/ row[j] = "deleted"
        /\ pc[j] = "ended" => Empty(j) \/ row[j] \in {"done", "completed", "deleted"}
        /\ pc[j] \in {"crawl", "finish"} /\ ~loaded[j] /\ Kind[j] # "all" => row[j] = "deleted"

Started(j) ==
    /\ row[j] = "none" <=> pc[j] = "posted"
    /\ pc[j] = "posted" => src[j] = 1 /\ pos[j] = 1
    /\ Active(j) => Asked(j) # {}

Ledger(j) == Started(j) /\ StoredOnce(j) /\ DoneStored(j) /\ FailedEmpty(j)

IInv == Types /\ \A j \in Jobs : Ledger(j)

-----------------------------------------------------------------------------
(* What a job asks and finds.                                              *)

LEMMA SourcesType ==
    ASSUME NEW j \in Jobs
    PROVE  /\ Sources[j] \in Seq(Seq(AllFound))
           /\ Len(Sources[j]) \in Nat
           /\ Asked(j) = 1..Len(Sources[j])
           /\ ~Several(j) => Len(Sources[j]) < 2
  BY CrawlAssumption DEF Asked

LEMMA BatchesType ==
    ASSUME NEW j \in Jobs, NEW s \in 1..Len(Sources[j])
    PROVE  /\ Sources[j][s] \in Seq(AllFound)
           /\ Len(Sources[j][s]) \in Nat
           /\ DOMAIN Sources[j][s] = 1..Len(Sources[j][s])
           /\ Range(Sources[j][s]) \subseteq AllFound
  BY SourcesType DEF Range

LEMMA TimesType ==
    ASSUME NEW r, NEW q \in Seq(AllFound)
    PROVE  /\ IsFiniteSet({i \in DOMAIN q : q[i] = r})
           /\ Times(r, q) \in Nat
           /\ r \in Range(q) => Times(r, q) > 0
  <1> DEFINE where == {i \in DOMAIN q : q[i] = r}
  <1>1. DOMAIN q = 1..Len(q) /\ Len(q) \in Nat
    OBVIOUS
  <1>2. IsFiniteSet(where) /\ Cardinality(where) \in Nat
    <2>1. IsFiniteSet(1..Len(q))
      BY <1>1, FS_Interval
    <2>2. where \in SUBSET (1..Len(q))
      BY <1>1
    <2>3. IsFiniteSet(where)
      BY <2>1, <2>2, FS_Subset
    <2>4. QED
      BY <2>3, FS_CardinalityType
  <1>3. r \in Range(q) => where # {}
    BY DEF Range
  <1>4. where # {} => Cardinality(where) # 0
    BY <1>2, FS_EmptySet
  <1>5. QED
    BY <1>2, <1>3, <1>4 DEF Times

LEMMA SpotsFinite ==
    ASSUME NEW j \in Jobs, NEW r, NEW n \in 0..Len(Sources[j])
    PROVE  IsFiniteSet(Spots(j, r, n)) /\ Cardinality(Spots(j, r, n)) \in Nat
  <1> DEFINE of[s \in 1..n] == {s} \X {i \in DOMAIN Sources[j][s] : Sources[j][s][i] = r}
             all == {{s} \X {i \in DOMAIN Sources[j][s] : Sources[j][s][i] = r} : s \in 1..n}
  <1>1. \A s \in 1..n : IsFiniteSet(of[s])
    <2> SUFFICES ASSUME NEW s \in 1..n
                 PROVE  IsFiniteSet(of[s])
      OBVIOUS
    <2>1. s \in 1..Len(Sources[j])
      BY SourcesType
    <2>2. IsFiniteSet({i \in DOMAIN Sources[j][s] : Sources[j][s][i] = r})
      BY <2>1, BatchesType, TimesType
    <2>3. QED
      BY <2>2, FS_Singleton, FS_Product
  <1>2. IsFiniteSet(1..n)
    BY FS_Interval, SourcesType
  <1>3. of \in Surjection(1..n, all)
    BY DEF Surjection
  <1>4. IsFiniteSet(all)
    BY <1>2, <1>3, FS_Surjection
  <1>5. \A T \in all : IsFiniteSet(T)
    BY <1>1
  <1>6. IsFiniteSet(UNION all)
    BY <1>4, <1>5, FS_UNION
  <1>7. QED
    BY <1>6, FS_CardinalityType DEF Spots

\* The records of one more source.
LEMMA SpotsStep ==
    ASSUME NEW j \in Jobs, NEW r, NEW n \in 1..Len(Sources[j])
    PROVE  Cardinality(Spots(j, r, n))
              = Cardinality(Spots(j, r, n - 1)) + Times(r, Sources[j][n])
  <1> DEFINE here == {i \in DOMAIN Sources[j][n] : Sources[j][n][i] = r}
             of(s) == {s} \X {i \in DOMAIN Sources[j][s] : Sources[j][s][i] = r}
  <1>1. n - 1 \in 0..Len(Sources[j]) /\ 1..n = (1..(n - 1)) \cup {n}
    BY SourcesType
  <1>2. ASSUME NEW m, NEW x
        PROVE  x \in Spots(j, r, m) <=> \E s \in 1..m : x \in of(s)
    BY DEF Spots
  <1>3. Spots(j, r, n) = Spots(j, r, n - 1) \cup ({n} \X here)
    <2>1. \A x : x \in Spots(j, r, n) <=> x \in Spots(j, r, n - 1) \/ x \in of(n)
      <3> HIDE DEF of
      <3>1. QED
        BY <1>1, <1>2
    <2>2. of(n) = {n} \X here
      OBVIOUS
    <2>3. QED
      BY <2>1, <2>2
  <1>4. Spots(j, r, n - 1) \cap ({n} \X here) = {}
    <2>1. \A s \in 1..(n - 1) : s # n
      BY SourcesType
    <2>2. \A s \in 1..(n - 1) : of(s) \cap ({n} \X here) = {}
      BY <2>1
    <2>3. \A x \in Spots(j, r, n - 1) : \E s \in 1..(n - 1) : x \in of(s)
      BY <1>2
    <2>4. QED
      BY <2>2, <2>3
  <1>5. IsFiniteSet(Spots(j, r, n - 1)) /\ Cardinality(Spots(j, r, n - 1)) \in Nat
    BY <1>1, SpotsFinite
  <1>6. IsFiniteSet(here) /\ Cardinality(here) \in Nat
    BY BatchesType, TimesType, FS_CardinalityType
  <1>7. IsFiniteSet({n} \X here) /\ Cardinality({n} \X here) = 1 * Cardinality(here)
    <2> HIDE DEF here
    <2>1. IsFiniteSet({n}) /\ Cardinality({n}) = 1
      BY FS_Singleton
    <2>2. QED
      BY <1>6, <2>1, FS_Product
  <1>8. Cardinality(Spots(j, r, n - 1) \cup ({n} \X here))
           = Cardinality(Spots(j, r, n - 1)) + Cardinality({n} \X here) - Cardinality({})
    BY <1>4, <1>5, <1>7, FS_Union
  <1>9. QED
    BY <1>3, <1>5, <1>6, <1>7, <1>8, FS_EmptySet DEF Times

\* Fewer sources list no more.
LEMMA SpotsGrow ==
    ASSUME NEW j \in Jobs, NEW r, NEW n \in 0..Len(Sources[j]), NEW k \in 0..n
    PROVE  Cardinality(Spots(j, r, k)) <= Cardinality(Spots(j, r, n))
  <1>1. Spots(j, r, k) \subseteq Spots(j, r, n)
    BY DEF Spots
  <1>2. IsFiniteSet(Spots(j, r, n))
    BY SpotsFinite
  <1>3. QED
    BY <1>1, <1>2, FS_Subset

LEMMA ListedSpots ==
    ASSUME NEW j \in Jobs, NEW r
    PROVE  /\ Listed(j, r) = Cardinality(Spots(j, r, Len(Sources[j])))
           /\ Listed(j, r) \in Nat
           /\ Cardinality(Spots(j, r, 0)) = 0
  <1>1. Listed(j, r) = Cardinality(Spots(j, r, Len(Sources[j])))
    BY SourcesType DEF Listed, Spots
  <1>2. Spots(j, r, 0) = {}
    BY DEF Spots
  <1>3. QED
    BY <1>1, <1>2, SourcesType, SpotsFinite, FS_EmptySet

-----------------------------------------------------------------------------
(* Types.                                                                  *)

LEMMA CrawlingType ==
    ASSUME IInv, NEW j \in Jobs, Active(j)
    PROVE  /\ src[j] \in 1..Len(Sources[j])
           /\ Batch(j) \in Seq(AllFound) /\ Len(Batch(j)) \in Nat
           /\ pos[j] \in 1..(Len(Batch(j)) + 1)
           /\ More(j) => Here(j) \in AllFound
  <1>1. Asked(j) # {} /\ Len(Sources[j]) \in Nat /\ Asked(j) = 1..Len(Sources[j])
    BY SourcesType DEF IInv, Ledger, Started
  <1>2. src[j] \in 1..Len(Sources[j])
    BY <1>1 DEF IInv, Types, TypeOK
  <1>3. Batch(j) \in Seq(AllFound) /\ Len(Batch(j)) \in Nat
    BY <1>2, BatchesType DEF Batch
  <1>4. pos[j] \in 1..(Len(Batch(j)) + 1)
    BY <1>1 DEF IInv, Types, TypeOK
  <1>5. More(j) => Here(j) \in AllFound
    <2>1. More(j) => pos[j] \in 1..Len(Batch(j))
      BY <1>3, <1>4 DEF More
    <2>2. QED
      BY <1>3, <2>1 DEF Here
  <1>6. QED
    BY <1>2, <1>3, <1>4, <1>5

LEMMA SetRowType ==
    ASSUME IInv, NEW j \in Jobs, NEW s \in {"pending", "running", "done", "completed", "failed"},
           SetRow(j, s) \/ row' = [row EXCEPT ![j] = s] \/ UNCHANGED row
    PROVE  /\ row' \in [Jobs -> {"none", "pending", "running", "done", "completed", "failed", "deleted"}]
           /\ \A k \in Jobs \ {j} : row'[k] = row[k]
           /\ row'[j] \in {row[j], s}
  <1>1. row \in [Jobs -> {"none", "pending", "running", "done", "completed", "failed", "deleted"}]
    BY DEF IInv, Types, TypeOK
  <1>2. row' = [row EXCEPT ![j] = s] \/ row' = row
    BY DEF SetRow
  <1>3. QED
    BY <1>1, <1>2

LEMMA AdvanceType ==
    ASSUME IInv, NEW j \in Jobs, pc[j] = "crawl", Advance(j)
    PROVE  /\ pc' \in [Jobs -> {"posted", "queued", "crawl", "finish", "failing", "closing", "ended"}]
           /\ src' \in [Jobs -> Nat \ {0}] /\ pos' \in [Jobs -> Nat \ {0}]
           /\ \A k \in Jobs : /\ src'[k] \in 1..Len(Sources[k]) \cup {1}
                              /\ Asked(k) # {} => pos'[k] \in 1..Len(Sources[k][src'[k]]) + 1
           /\ \A k \in Jobs \ {j} : pc'[k] = pc[k] /\ src'[k] = src[k] /\ pos'[k] = pos[k]
           /\ \/ pc'[j] = "crawl" /\ src'[j] = src[j] + 1 /\ src[j] + 1 <= Len(Sources[j])
              \/ pc'[j] = "finish" /\ src'[j] = src[j] /\ src[j] = Len(Sources[j])
  <1>1. /\ src[j] \in 1..Len(Sources[j]) /\ Len(Sources[j]) \in Nat
        /\ pos[j] \in 1..(Len(Batch(j)) + 1) /\ Len(Batch(j)) \in Nat
    BY CrawlingType, SourcesType DEF Active
  <1>2. CASE src[j] < Len(Sources[j])
    <2>1. /\ src' = [src EXCEPT ![j] = @ + 1] /\ pos' = [pos EXCEPT ![j] = 1] /\ pc' = pc
      BY <1>2 DEF Advance
    <2>2. src[j] + 1 \in 1..Len(Sources[j])
      BY <1>1, <1>2
    <2>3. Len(Sources[j][src[j] + 1]) \in Nat
      BY <2>2, BatchesType
    <2>4. \A k \in Jobs : /\ src'[k] \in 1..Len(Sources[k]) \cup {1}
                          /\ Asked(k) # {} => pos'[k] \in 1..Len(Sources[k][src'[k]]) + 1
      BY <2>1, <2>2, <2>3 DEF IInv, Types, TypeOK, Batch
    <2>5. QED
      BY <1>1, <1>2, <2>1, <2>2, <2>4 DEF IInv, Types, TypeOK
  <1>3. CASE ~(src[j] < Len(Sources[j]))
    <2>1. pc' = [pc EXCEPT ![j] = "finish"] /\ src' = src /\ pos' = pos
      BY <1>3 DEF Advance, at
    <2>2. QED
      BY <1>1, <1>3, <2>1 DEF IInv, Types, TypeOK, Batch
  <1>4. QED
    BY <1>2, <1>3

-----------------------------------------------------------------------------
(* The invariant is inductive: what a step of one job does.                *)

\* A step of one job leaves the other jobs' ledgers alone.
LEMMA OtherLedgers ==
    ASSUME IInv, NEW j \in Jobs, Types', Ledger(j)',
           \A k \in Jobs \ {j} :
               /\ row'[k] = row[k] /\ pc'[k] = pc[k] /\ src'[k] = src[k] /\ pos'[k] = pos[k]
               /\ copies'[k] = copies[k] /\ loaded'[k] = loaded[k] /\ faults'[k] = faults[k]
    PROVE  IInv'
  <1> SUFFICES ASSUME NEW k \in Jobs, k # j
               PROVE  Ledger(k)'
    BY DEF IInv
  <1>1. Ledger(k)
    BY DEF IInv
  <1>2. Behind(k)' = Behind(k) /\ Again(k)' = Again(k)
    BY DEF Behind, Again
  <1>3. Started(k)' /\ DoneStored(k)' /\ FailedEmpty(k)'
    BY <1>1 DEF Ledger, Started, DoneStored, FailedEmpty, Empty, Active
  <1>4. StoredOnce(k)'
    BY <1>1, <1>2 DEF Ledger, StoredOnce
  <1>5. QED
    BY <1>3, <1>4 DEF Ledger

\* Copies stay within their bound when a job moves on without storing more.
LEMMA StoredKept ==
    ASSUME IInv, NEW j \in Jobs, copies'[j] = copies[j],
           Behind(j) \in 0..Len(Sources[j]), Behind(j)' \in Behind(j)..Len(Sources[j]),
           Again(j) \in Nat, Again(j)' \in {Again(j), Again(j) + 1}
    PROVE  StoredOnce(j)'
  <1> SUFFICES ASSUME NEW r \in AllFound
               PROVE  copies'[j][r] <= Cardinality(Spots(j, r, Behind(j)')) + Listed(j, r) * Again(j)'
    BY DEF StoredOnce
  <1>1. copies[j][r] \in Nat
        /\ copies[j][r] <= Cardinality(Spots(j, r, Behind(j))) + Listed(j, r) * Again(j)
    BY DEF IInv, Ledger, StoredOnce, Types, TypeOK
  <1>2. Cardinality(Spots(j, r, Behind(j))) \in Nat /\ Cardinality(Spots(j, r, Behind(j)')) \in Nat
        /\ Cardinality(Spots(j, r, Behind(j))) <= Cardinality(Spots(j, r, Behind(j)'))
    BY SourcesType, SpotsFinite, SpotsGrow
  <1>3. Listed(j, r) \in Nat
    BY ListedSpots
  <1>4. Listed(j, r) * Again(j) \in Nat /\ Listed(j, r) * (Again(j) + 1) = Listed(j, r) * Again(j) + Listed(j, r)
    BY <1>3
  <1>5. Listed(j, r) * Again(j) <= Listed(j, r) * Again(j)' /\ Listed(j, r) * Again(j)' \in Nat
    <2>1. CASE Again(j)' = Again(j)
      BY <1>4, <2>1
    <2>2. CASE Again(j)' = Again(j) + 1
      BY <1>3, <1>4, <2>2
    <2>3. QED
      BY <2>1, <2>2
  <1> DEFINE old == Listed(j, r) * Again(j)
             new == Listed(j, r) * Again(j)'
  <1>6. copies[j][r] \in Nat /\ copies[j][r] <= Cardinality(Spots(j, r, Behind(j))) + old
        /\ old \in Nat /\ new \in Nat /\ old <= new
    BY <1>1, <1>4, <1>5
  <1> HIDE DEF old, new
  <1>7. copies'[j][r] <= Cardinality(Spots(j, r, Behind(j)')) + new
    BY <1>2, <1>6
  <1>8. QED
    BY <1>7 DEF new

\* A redelivered task starts over at the price of a fault.
LEMMA StoredAgain ==
    ASSUME IInv, NEW j \in Jobs, copies'[j] = copies[j],
           Behind(j) \in 0..Len(Sources[j]), Behind(j)' = 0,
           Again(j) \in Nat, Again(j)' = Again(j) + 1
    PROVE  StoredOnce(j)'
  <1> SUFFICES ASSUME NEW r \in AllFound
               PROVE  copies'[j][r] <= Cardinality(Spots(j, r, 0)) + Listed(j, r) * Again(j)'
    BY DEF StoredOnce
  <1>1. copies[j][r] \in Nat
        /\ copies[j][r] <= Cardinality(Spots(j, r, Behind(j))) + Listed(j, r) * Again(j)
    BY DEF IInv, Ledger, StoredOnce, Types, TypeOK
  <1>2. Cardinality(Spots(j, r, Behind(j))) \in Nat
        /\ Cardinality(Spots(j, r, Behind(j))) <= Listed(j, r)
    BY SourcesType, SpotsFinite, SpotsGrow, ListedSpots
  <1>3. Listed(j, r) \in Nat /\ Cardinality(Spots(j, r, 0)) = 0
    BY ListedSpots
  <1>4. Listed(j, r) * Again(j) \in Nat /\ Listed(j, r) * (Again(j) + 1) = Listed(j, r) * Again(j) + Listed(j, r)
    BY <1>3
  <1>5. QED
    BY <1>1, <1>2, <1>3, <1>4

LEMMA BehindType ==
    ASSUME IInv, NEW j \in Jobs
    PROVE  /\ Behind(j) \in 0..Len(Sources[j]) /\ Again(j) \in Nat
           /\ faults[j] \in Nat
  <1>1. faults[j] \in Nat
    BY CrawlAssumption DEF IInv, Types, TypeOK
  <1>2. pc[j] = "crawl" => src[j] \in 1..Len(Sources[j])
    BY CrawlingType DEF Active
  <1>3. QED
    BY <1>1, <1>2, SourcesType DEF Behind, Again

LEMMA InitInv == Init => IInv
  <1> SUFFICES ASSUME Init
               PROVE  IInv
    OBVIOUS
  <1>1. \A j \in Jobs : Len(Batch(j)) \in Nat \/ Asked(j) = {}
    BY SourcesType, BatchesType DEF Init, Batch
  <1>2. TypeOK
    <2>1. \A j \in Jobs : Asked(j) # {} => pos[j] \in 1..Len(Batch(j)) + 1
      BY <1>1 DEF Init
    <2>2. QED
      BY <2>1, CrawlAssumption DEF Init, TypeOK
  <1>3. Types
    BY <1>2 DEF Types, Init
  <1>4. ASSUME NEW j \in Jobs
        PROVE  Ledger(j)
    <2>1. StoredOnce(j)
      BY ListedSpots DEF Init, StoredOnce, Behind, Again
    <2>2. Started(j) /\ DoneStored(j) /\ FailedEmpty(j)
      BY DEF Init, Started, DoneStored, FailedEmpty, Empty, Active
    <2>3. QED
      BY <2>1, <2>2 DEF Ledger
  <1>5. QED
    BY <1>3, <1>4 DEF IInv

LEMMA FaultType ==
    ASSUME IInv, NEW j \in Jobs, Fault(j)
    PROVE  /\ faults' \in [Jobs -> 0..MaxFaults]
           /\ faults'[j] = faults[j] + 1 /\ faults'[j] # 0
           /\ \A k \in Jobs \ {j} : faults'[k] = faults[k]
  BY CrawlAssumption DEF Fault, IInv, Types, TypeOK

LEMMA CreateInv ==
    ASSUME IInv, NEW j \in Jobs, Create(j)
    PROVE  IInv'
  <1>1. /\ pc[j] = "posted" /\ row' = [row EXCEPT ![j] = "pending"]
        /\ UNCHANGED <<age, rows, copies, src, pos, loaded, tx>>
    BY DEF Create, data, at
  <1>2. \/ pc' = [pc EXCEPT ![j] = "queued"] /\ faults' = faults
        \/ pc' = [pc EXCEPT ![j] = "ended"] /\ Fault(j)
    BY DEF Create
  <1>3. /\ faults' \in [Jobs -> 0..MaxFaults]
        /\ \A k \in Jobs \ {j} : faults'[k] = faults[k]
        /\ faults'[j] = faults[j] \/ (pc'[j] = "ended" /\ faults'[j] = faults[j] + 1 /\ faults'[j] # 0)
    BY <1>2, FaultType DEF IInv, Types, TypeOK
  <1>4. pc' \in [Jobs -> {"posted", "queued", "crawl", "finish", "failing", "closing", "ended"}]
        /\ pc'[j] \in {"queued", "ended"} /\ \A k \in Jobs \ {j} : pc'[k] = pc[k]
    BY <1>2 DEF IInv, Types, TypeOK
  <1>5. tx[j] = {}
    BY <1>1 DEF IInv, Types, TypeOK
  <1>6. Types'
    BY <1>1, <1>3, <1>4, <1>5, SetRowType DEF IInv, Types, TypeOK, Batch
  <1>7. row'[j] = "pending" /\ \A k \in Jobs \ {j} : row'[k] = row[k]
    BY <1>1 DEF IInv, Types, TypeOK
  <1>8. StoredOnce(j)'
    <2>1. Behind(j)' \in Behind(j)..Len(Sources[j])
      BY <1>1, <1>4, SourcesType DEF Behind
    <2>2. Again(j)' \in {Again(j), Again(j) + 1}
      BY <1>3 DEF Again
    <2>3. QED
      BY <1>1, <2>1, <2>2, BehindType, StoredKept
  <1>9. Started(j)' /\ DoneStored(j)' /\ FailedEmpty(j)'
    BY <1>1, <1>2, <1>3, <1>4, <1>7
       DEF IInv, Ledger, Started, DoneStored, FailedEmpty, Empty, Active
  <1>10. QED
    BY <1>1, <1>3, <1>4, <1>6, <1>7, <1>8, <1>9, OtherLedgers DEF Ledger

LEMMA CreateCityInv ==
    ASSUME IInv, NEW j \in Jobs, CreateCity(j)
    PROVE  IInv'
  <1>1. /\ pc[j] = "posted" /\ Kind[j] = "city" /\ row' = [row EXCEPT ![j] = "running"]
        /\ loaded' = [loaded EXCEPT ![j] = TRUE]
        /\ pc' = [pc EXCEPT ![j] = IF Asked(j) = {} THEN "ended" ELSE "crawl"]
        /\ UNCHANGED <<age, rows, copies, src, pos, tx, faults>>
    BY DEF CreateCity, data, at
  <1>2. tx[j] = {} /\ src[j] = 1
    BY <1>1 DEF IInv, Ledger, Started, Types, TypeOK
  <1>3. pc'[j] = (IF Asked(j) = {} THEN "ended" ELSE "crawl")
        /\ row'[j] = "running" /\ loaded'[j] = TRUE
    BY <1>1 DEF IInv, Types, TypeOK
  <1>4. Types'
    <2>1. \A k \in Jobs : tx'[k] # {} => pc'[k] \in {"crawl", "failing", "closing"}
      BY <1>1, <1>2 DEF IInv, Types, TypeOK
    <2>2. pc' \in [Jobs -> {"posted", "queued", "crawl", "finish", "failing", "closing", "ended"}]
      BY <1>1 DEF IInv, Types, TypeOK
    <2>3. QED
      BY <1>1, <2>1, <2>2, SetRowType DEF IInv, Types, TypeOK, Batch
  <1>5. StoredOnce(j)'
    <2>1. Behind(j)' \in Behind(j)..Len(Sources[j])
      BY <1>1, <1>2, <1>3, SourcesType DEF Behind
    <2>2. Again(j)' = Again(j)
      BY <1>1 DEF Again
    <2>3. QED
      BY <1>1, <2>1, <2>2, BehindType, StoredKept
  <1>6. Started(j)' /\ DoneStored(j)' /\ FailedEmpty(j)'
    BY <1>1, <1>3
       DEF IInv, Ledger, Started, DoneStored, FailedEmpty, Empty, Active, Several
  <1>7. \A k \in Jobs \ {j} : row'[k] = row[k] /\ pc'[k] = pc[k] /\ loaded'[k] = loaded[k]
    BY <1>1 DEF IInv, Types, TypeOK
  <1>8. QED
    BY <1>1, <1>4, <1>5, <1>6, <1>7, OtherLedgers DEF Ledger

LEMMA BeginInv ==
    ASSUME IInv, NEW j \in Jobs, Begin(j)
    PROVE  IInv'
  <1>1. /\ pc[j] = "queued" /\ Asked(j) # {} /\ SetRow(j, "running")
        /\ loaded' = [loaded EXCEPT ![j] = HasRow(j) /\ Kind[j] # "all"]
        /\ src' = [src EXCEPT ![j] = 1] /\ pos' = [pos EXCEPT ![j] = 1]
        /\ pc' = [pc EXCEPT ![j] = "crawl"]
        /\ UNCHANGED <<age, rows, copies, tx, faults>>
    BY DEF Begin, data
  <1>2. tx[j] = {} /\ row[j] # "none"
    BY <1>1 DEF IInv, Ledger, Started, Types, TypeOK
  <1>3. 1 \in 1..Len(Sources[j]) /\ Len(Sources[j][1]) \in Nat
    BY <1>1, SourcesType, BatchesType
  <1>4. pc'[j] = "crawl" /\ src'[j] = 1 /\ loaded'[j] = (HasRow(j) /\ Kind[j] # "all")
    BY <1>1 DEF IInv, Types, TypeOK
  <1>5. Types'
    <2>1. loaded' \in [Jobs -> BOOLEAN]
      BY <1>1 DEF IInv, Types, TypeOK
    <2>2. \A k \in Jobs : /\ src'[k] \in 1..Len(Sources[k]) \cup {1}
                          /\ Asked(k) # {} => pos'[k] \in 1..Len(Batch(k)') + 1
      BY <1>1, <1>3 DEF IInv, Types, TypeOK, Batch
    <2>3. QED
      BY <1>1, <1>2, <2>1, <2>2, SetRowType DEF IInv, Types, TypeOK
  <1>6. StoredOnce(j)'
    <2>1. Behind(j)' \in Behind(j)..Len(Sources[j])
      BY <1>1, <1>4, SourcesType DEF Behind
    <2>2. Again(j)' = Again(j)
      BY <1>1 DEF Again
    <2>3. QED
      BY <1>1, <2>1, <2>2, BehindType, StoredKept
  <1>7. row'[j] = (IF HasRow(j) THEN "running" ELSE row[j])
    BY <1>1 DEF SetRow, IInv, Types, TypeOK
  <1>8. Started(j)' /\ FailedEmpty(j)'
    BY <1>1, <1>2, <1>4, <1>7
       DEF IInv, Ledger, Started, FailedEmpty, Empty, Active, HasRow
  <1>9. DoneStored(j)'
    BY <1>1, <1>4, <1>7 DEF IInv, Ledger, DoneStored
  <1>10. \A k \in Jobs \ {j} : /\ pc'[k] = pc[k] /\ loaded'[k] = loaded[k]
                               /\ src'[k] = src[k] /\ pos'[k] = pos[k]
    BY <1>1 DEF IInv, Types, TypeOK
  <1>11. QED
    BY <1>1, <1>5, <1>6, <1>8, <1>9, <1>10, OtherLedgers, SetRowType DEF Ledger

\* A step that ends what runs for a job, or fails it, and may write its row.
LEMMA RowStep ==
    ASSUME IInv, NEW j \in Jobs, pc[j] # "posted", pc[j] # "crawl",
           NEW next \in {"ended", "failing", "closing"}, pc' = [pc EXCEPT ![j] = next],
           NEW s \in {"done", "completed", "failed"},
           row' = row \/ SetRow(j, s), s # "failed" => pc[j] = "finish",
           UNCHANGED <<age, rows, copies, src, pos, loaded, faults>>,
           (tx' = tx /\ (tx[j] = {} \/ next = "closing")) \/ tx' = [tx EXCEPT ![j] = {}],
           next # "ended" => Asked(j) # {},
           faults[j] = 0 => \/ Empty(j) \/ row'[j] = "deleted"
                            \/ next = "ended" /\ row'[j] \in {"done", "completed"}
    PROVE  IInv'
  <1>1. pc'[j] = next /\ \A k \in Jobs \ {j} : pc'[k] = pc[k]
    BY DEF IInv, Types, TypeOK
  <1>2. row'[j] = (IF row' = row THEN row[j] ELSE IF HasRow(j) THEN s ELSE row[j])
    BY DEF IInv, Types, TypeOK, SetRow
  <1>3. Types'
    <2>1. row' \in [Jobs -> {"none", "pending", "running", "done", "completed", "failed", "deleted"}]
      BY SetRowType
    <2>2. /\ tx' \in [Jobs -> SUBSET AllFound]
          /\ \A k \in Jobs : tx'[k] # {} => pc'[k] \in {"crawl", "failing", "closing"}
      BY <1>1 DEF IInv, Types, TypeOK
    <2>3. QED
      BY <1>1, <2>1, <2>2 DEF IInv, Types, TypeOK, Batch
  <1>4. StoredOnce(j)'
    <2>1. Behind(j)' \in Behind(j)..Len(Sources[j])
      BY <1>1, BehindType, SourcesType DEF Behind
    <2>2. Again(j)' = Again(j)
      BY DEF Again
    <2>3. QED
      BY <2>1, <2>2, BehindType, StoredKept
  <1>5. DoneStored(j)'
    BY <1>1, <1>2 DEF IInv, Ledger, DoneStored
  <1>6. Started(j)' /\ FailedEmpty(j)'
    BY <1>1, <1>2 DEF IInv, Ledger, Started, FailedEmpty, Empty, Active, HasRow
  <1>7. QED
    BY <1>1, <1>3, <1>4, <1>5, <1>6, OtherLedgers, SetRowType DEF Ledger

LEMMA UnknownSourceInv ==
    ASSUME IInv, NEW j \in Jobs, UnknownSource(j)
    PROVE  IInv'
  <1>1. /\ pc[j] = "queued" /\ pc' = [pc EXCEPT ![j] = "ended"]
        /\ row' = row \/ SetRow(j, "failed")
        /\ UNCHANGED <<age, rows, copies, src, pos, loaded, tx, faults>>
    BY DEF UnknownSource, data, at
  <1>2. /\ faults[j] = 0 => Empty(j)
        /\ tx[j] = {}
    BY <1>1 DEF IInv, Ledger, FailedEmpty, Types, TypeOK
  <1>3. QED
    BY <1>1, <1>2, RowStep

LEMMA FinishInv ==
    ASSUME IInv, NEW j \in Jobs, Finish(j)
    PROVE  IInv'
  <1>1. /\ pc[j] = "finish" /\ pc' = [pc EXCEPT ![j] = "ended"]
        /\ loaded[j] => HasRow(j)
        /\ UNCHANGED <<age, rows, copies, src, pos, loaded, tx, faults>>
    BY DEF Finish, data, at
  <1>2. PICK s \in {"done", "completed"} :
           IF loaded[j] \/ Kind[j] = "all" THEN SetRow(j, s) ELSE row' = row
    BY DEF Finish
  <1>3. row[j] # "none"
    BY <1>1 DEF IInv, Ledger, Started
  <1>4. faults[j] = 0 => row'[j] \in {"done", "completed", "deleted"}
    <2>1. CASE loaded[j] \/ Kind[j] = "all"
      BY <1>2, <1>3, <2>1 DEF SetRow, HasRow, IInv, Types, TypeOK
    <2>2. CASE ~(loaded[j] \/ Kind[j] = "all")
      BY <1>1, <1>2, <2>2 DEF IInv, Ledger, FailedEmpty
    <2>3. QED
      BY <2>1, <2>2
  <1>5. tx[j] = {}
    BY <1>1 DEF IInv, Types, TypeOK
  <1>6. QED
    BY <1>1, <1>2, <1>4, <1>5, RowStep

LEMMA MarkFailedInv ==
    ASSUME IInv, NEW j \in Jobs, MarkFailed(j)
    PROVE  IInv'
  <1>1. /\ pc[j] = "failing" /\ pc' = [pc EXCEPT ![j] = "closing"] /\ SetRow(j, "failed")
        /\ UNCHANGED <<age, rows, copies, src, pos, loaded, tx, faults>>
    BY DEF MarkFailed, data, at
  <1>2. faults[j] = 0 => Empty(j) \/ row'[j] = "deleted"
    BY <1>1 DEF IInv, Ledger, FailedEmpty, SetRow, HasRow, Types, TypeOK
  <1>3. Asked(j) # {}
    BY <1>1 DEF IInv, Ledger, Started, Active
  <1>4. QED
    BY <1>1, <1>2, <1>3, RowStep

LEMMA LeaveBlockInv ==
    ASSUME IInv, NEW j \in Jobs, LeaveBlock(j)
    PROVE  IInv'
  <1>1. /\ pc[j] = "closing" /\ pc' = [pc EXCEPT ![j] = "ended"]
        /\ tx' = [tx EXCEPT ![j] = {}]
        /\ UNCHANGED <<row, age, rows, copies, src, pos, loaded, faults>>
    BY DEF LeaveBlock, RollBack, job, data, at
  <1>2. faults[j] = 0 => Empty(j) \/ row'[j] = "deleted"
    BY <1>1 DEF IInv, Ledger, FailedEmpty
  <1>3. QED
    BY <1>1, <1>2, RowStep

LEMMA RowGoneInv ==
    ASSUME IInv, NEW j \in Jobs, RowGone(j)
    PROVE  IInv'
  <1>1. /\ pc[j] = "finish" /\ ~HasRow(j)
        /\ UNCHANGED <<row, age, rows, copies, loaded, faults>>
    BY DEF RowGone, job, data
  <1>2. tx' = [tx EXCEPT ![j] = {}]
    BY DEF RowGone, RollBack
  <1>3. PICK next \in {"ended", "failing"} : pc' = [pc EXCEPT ![j] = next]
    BY <1>1 DEF RowGone, Raise
  <1>4. UNCHANGED <<src, pos>>
    BY <1>1 DEF RowGone, Raise, at
  <1>5. row[j] = "deleted" /\ Asked(j) # {}
    BY <1>1 DEF IInv, Ledger, Started, HasRow, Active
  <1>6. QED
    BY <1>1, <1>2, <1>3, <1>4, <1>5, RowStep

LEMMA UpsertInv ==
    ASSUME IInv, NEW j \in Jobs, Upsert(j)
    PROVE  IInv'
  <1>1. /\ More(j) /\ tx' = [tx EXCEPT ![j] = @ \cup {Here(j)}]
        /\ pos' = [pos EXCEPT ![j] = @ + 1]
        /\ UNCHANGED <<row, age, rows, copies, src, pc, loaded, faults>>
    BY DEF Upsert, job, data
  <1>2. pc[j] = "crawl" /\ Here(j) \in AllFound
    BY <1>1, CrawlingType DEF More, Active
  <1>3. pos[j] + 1 \in 1..(Len(Batch(j)) + 1) /\ pos[j] + 1 \in Nat \ {0}
    BY <1>1, <1>2, CrawlingType DEF More, Active
  <1>4. Types'
    <2>1. \A k \in Jobs : Asked(k) # {} => pos'[k] \in 1..Len(Batch(k)') + 1
      BY <1>1, <1>3 DEF IInv, Types, TypeOK, Batch
    <2>2. QED
      BY <1>1, <1>2, <1>3, <2>1 DEF IInv, Types, TypeOK
  <1>5. Ledger(j)'
    <2>1. Behind(j)' = Behind(j) /\ Again(j)' = Again(j)
      BY <1>1 DEF Behind, Again
    <2>2. QED
      BY <1>1, <1>2, <2>1
         DEF IInv, Ledger, Started, StoredOnce, DoneStored, FailedEmpty, Empty, Active
  <1>6. \A k \in Jobs \ {j} : pos'[k] = pos[k]
    BY <1>1 DEF IInv, Types
  <1>7. QED
    BY <1>1, <1>4, <1>5, <1>6, OtherLedgers

\* A batch is stored with the commit that leaves it behind.
LEMMA CommitRecordsInv ==
    ASSUME IInv, NEW j \in Jobs, CommitRecords(j)
    PROVE  IInv'
  <1>1. /\ pc[j] = "crawl" /\ Advance(j) /\ tx' = [tx EXCEPT ![j] = {}]
        /\ copies' = [copies EXCEPT ![j] = [r \in AllFound |-> @[r] + Times(r, Batch(j))]]
        /\ UNCHANGED <<row, age, loaded, faults>>
    BY DEF CommitRecords, job
  <1>2. /\ src[j] \in 1..Len(Sources[j]) /\ Batch(j) \in Seq(AllFound)
        /\ Len(Sources[j]) \in Nat
    BY <1>1, CrawlingType, SourcesType DEF Active
  <1>3. \A r \in AllFound : Times(r, Batch(j)) \in Nat
    BY <1>2, TimesType
  <1>4. /\ copies' \in [Jobs -> [AllFound -> Nat]]
        /\ \A r \in AllFound : copies'[j][r] = copies[j][r] + Times(r, Batch(j))
        /\ \A k \in Jobs \ {j} : copies'[k] = copies[k]
    BY <1>1, <1>3 DEF IInv, Types, TypeOK
  <1>5. rows' \in [AllFound -> Nat]
    BY DEF CommitRecords, IInv, Types, TypeOK
  <1>6. Types'
    <2>1. /\ pc' \in [Jobs -> {"posted", "queued", "crawl", "finish", "failing", "closing", "ended"}]
          /\ src' \in [Jobs -> Nat \ {0}] /\ pos' \in [Jobs -> Nat \ {0}]
          /\ \A k \in Jobs : /\ src'[k] \in 1..Len(Sources[k]) \cup {1}
                             /\ Asked(k) # {} => pos'[k] \in 1..Len(Batch(k)') + 1
          /\ \A k \in Jobs \ {j} : pc'[k] = pc[k]
      BY <1>1, AdvanceType DEF Batch
    <2>2. /\ tx' \in [Jobs -> SUBSET AllFound]
          /\ \A k \in Jobs : tx'[k] # {} => pc'[k] \in {"crawl", "failing", "closing"}
      BY <1>1, <2>1 DEF IInv, Types, TypeOK
    <2>3. QED
      <3>1. row' \in [Jobs -> {"none", "pending", "running", "done", "completed", "failed", "deleted"}]
            /\ age' \in [Jobs -> {"fresh", "stale", "old"}] /\ loaded' \in [Jobs -> BOOLEAN]
            /\ faults' \in [Jobs -> 0..MaxFaults]
        BY <1>1 DEF IInv, Types, TypeOK
      <3>2. TypeOK'
        BY <1>4, <1>5, <2>1, <2>2, <3>1 DEF TypeOK
      <3>3. QED
        BY <2>1, <3>2 DEF Types
  <1>7. Behind(j) = src[j] - 1 /\ Behind(j)' = src[j] /\ Again(j)' = Again(j)
    BY <1>1, <1>2, AdvanceType DEF Behind, Again
  <1>8. StoredOnce(j)'
    <2> SUFFICES ASSUME NEW r \in AllFound
                 PROVE  copies'[j][r] <= Cardinality(Spots(j, r, src[j])) + Listed(j, r) * Again(j)
      BY <1>7 DEF StoredOnce
    <2> DEFINE again == Listed(j, r) * Again(j)
    <2>1. copies[j][r] <= Cardinality(Spots(j, r, src[j] - 1)) + again
      BY <1>7 DEF IInv, Ledger, StoredOnce
    <2>2. Cardinality(Spots(j, r, src[j])) = Cardinality(Spots(j, r, src[j] - 1)) + Times(r, Batch(j))
      BY <1>2, SpotsStep DEF Batch
    <2>3. /\ copies[j][r] \in Nat /\ Times(r, Batch(j)) \in Nat
          /\ Cardinality(Spots(j, r, src[j] - 1)) \in Nat
      BY <1>2, <1>3, SpotsFinite DEF IInv, Types, TypeOK
    <2>4. again \in Nat
      BY ListedSpots, BehindType
    <2>5. QED
      <3> HIDE DEF again
      <3>1. copies'[j][r] <= Cardinality(Spots(j, r, src[j])) + again
        BY <1>4, <2>1, <2>2, <2>3, <2>4
      <3>2. QED
        BY <3>1 DEF again
  <1>9. DoneStored(j)'
    <2> SUFFICES ASSUME ~Several(j), NEW r \in Found(j)
                 PROVE  copies'[j][r] > 0
      BY DEF DoneStored, Several
    <2>1. Len(Sources[j]) = 1 /\ src[j] = 1 /\ Asked(j) = {1}
      <3>1. Len(Sources[j]) < 2 /\ Asked(j) = 1..Len(Sources[j])
        BY SourcesType
      <3>2. \A n \in Nat : n < 2 => \A i \in 1..n : n = 1 /\ i = 1
        OBVIOUS
      <3>3. Len(Sources[j]) = 1 /\ src[j] = 1
        BY <1>2, <3>1, <3>2
      <3>4. QED
        BY <3>1, <3>3
    <2>2. r \in Range(Batch(j)) /\ r \in AllFound
      BY <2>1 DEF Found, Batch, AllFound
    <2>3. Times(r, Batch(j)) > 0
      BY <1>2, <2>2, TimesType
    <2>4. QED
      BY <1>3, <1>4, <2>2, <2>3 DEF IInv, Types, TypeOK
  <1>10. Started(j)' /\ FailedEmpty(j)'
    <2>1. ~Several(j) => pc'[j] = "finish"
      BY <1>1, <1>2, SourcesType, AdvanceType
    <2>2. pc'[j] \in {"crawl", "finish"}
      BY <1>1, AdvanceType
    <2>3. QED
      BY <1>1, <2>1, <2>2 DEF IInv, Ledger, Started, FailedEmpty, Active, Several
  <1>11. QED
    BY <1>1, <1>4, <1>6, <1>8, <1>9, <1>10, AdvanceType, OtherLedgers DEF Ledger

\* An exception skips what one of several sources found, or ends the crawl.
LEMMA RaiseInv ==
    ASSUME IInv, NEW j \in Jobs, pc[j] \in {"crawl", "finish"}, Raise(j),
           Holding(j) \/ RollBack(j),
           UNCHANGED <<row, age, rows, copies, loaded>>,
           \/ UNCHANGED faults /\ pc[j] = "crawl"
           \/ Fault(j)
    PROVE  IInv'
  <1>1. /\ tx' = [tx EXCEPT ![j] = {}] \/ (tx' = tx /\ ~Several(j))
        /\ pc[j] = "finish" => tx[j] = {}
    <2>1. tx' = [tx EXCEPT ![j] = {}] \/ (tx' = tx /\ ~Several(j))
      BY DEF Holding, RollBack
    <2>2. QED
      BY <2>1 DEF IInv, Types, TypeOK
  <1>2. /\ faults' \in [Jobs -> 0..MaxFaults]
        /\ \/ faults'[j] = faults[j] /\ pc[j] = "crawl"
           \/ faults'[j] = faults[j] + 1 /\ faults'[j] # 0
        /\ \A k \in Jobs \ {j} : faults'[k] = faults[k]
    BY FaultType DEF IInv, Types, TypeOK
  <1>3. Again(j)' \in {Again(j), Again(j) + 1}
    BY <1>2 DEF Again
  <1>4. CASE Several(j) /\ pc[j] = "crawl"
    <2>1. Advance(j)
      BY <1>4 DEF Raise
    <2>2. /\ pc' \in [Jobs -> {"posted", "queued", "crawl", "finish", "failing", "closing", "ended"}]
          /\ src' \in [Jobs -> Nat \ {0}] /\ pos' \in [Jobs -> Nat \ {0}]
          /\ \A k \in Jobs : /\ src'[k] \in 1..Len(Sources[k]) \cup {1}
                             /\ Asked(k) # {} => pos'[k] \in 1..Len(Batch(k)') + 1
          /\ \A k \in Jobs \ {j} : pc'[k] = pc[k] /\ src'[k] = src[k] /\ pos'[k] = pos[k]
      BY <1>4, <2>1, AdvanceType DEF Batch
    <2>3. /\ tx' \in [Jobs -> SUBSET AllFound]
          /\ \A k \in Jobs : tx'[k] # {} => pc'[k] \in {"crawl", "failing", "closing"}
      <3>1. tx' = [tx EXCEPT ![j] = {}]
        BY <1>1, <1>4
      <3>2. QED
        BY <2>2, <3>1 DEF IInv, Types, TypeOK
    <2>4. Types'
      <3>1. row' \in [Jobs -> {"none", "pending", "running", "done", "completed", "failed", "deleted"}]
            /\ age' \in [Jobs -> {"fresh", "stale", "old"}] /\ loaded' \in [Jobs -> BOOLEAN]
            /\ rows' \in [AllFound -> Nat] /\ copies' \in [Jobs -> [AllFound -> Nat]]
        BY DEF IInv, Types, TypeOK
      <3>2. TypeOK'
        BY <1>2, <2>2, <2>3, <3>1 DEF TypeOK
      <3>3. QED
        BY <2>2, <3>2 DEF Types
    <2>5. Behind(j)' = src[j] /\ Behind(j) = src[j] - 1
          /\ src[j] \in 1..Len(Sources[j]) /\ Len(Sources[j]) \in Nat
      BY <1>4, <2>1, AdvanceType, CrawlingType, SourcesType DEF Behind, Active
    <2>6. StoredOnce(j)'
      BY <1>3, <2>5, BehindType, StoredKept
    <2>7. pc'[j] \in {"crawl", "finish"}
      BY <1>4, <2>1, AdvanceType
    <2>8. Started(j)' /\ DoneStored(j)' /\ FailedEmpty(j)'
      BY <1>2, <1>4, <2>7
         DEF IInv, Ledger, Started, DoneStored, FailedEmpty, Empty, Active, Several
    <2>9. QED
      BY <1>2, <2>2, <2>4, <2>6, <2>8, OtherLedgers DEF Ledger
  <1>5. CASE ~(Several(j) /\ pc[j] = "crawl")
    <2>1. PICK next \in {"ended", "failing"} :
             /\ pc' = [pc EXCEPT ![j] = next]
             /\ pc[j] = "crawl" => ~Several(j) /\ next = "failing"
             /\ ~Several(j) => next = "failing"
      <3>1. pc' = [pc EXCEPT ![j] = IF Several(j) THEN "ended" ELSE "failing"]
        BY <1>5 DEF Raise
      <3>2. CASE Several(j)
        BY <1>5, <3>1, <3>2
      <3>3. CASE ~Several(j)
        BY <3>1, <3>3
      <3>4. QED
        BY <3>2, <3>3
    <2>2. UNCHANGED <<src, pos>>
      BY <1>5 DEF Raise, at
    <2>3. pc'[j] = next /\ \A k \in Jobs \ {j} : pc'[k] = pc[k]
      BY <2>1 DEF IInv, Types, TypeOK
    <2>4. Types'
      BY <1>1, <1>2, <2>1, <2>2 DEF IInv, Types, TypeOK, Batch
    <2>5. StoredOnce(j)'
      <3>1. Behind(j)' \in Behind(j)..Len(Sources[j])
        BY <2>3, BehindType, SourcesType DEF Behind
      <3>2. QED
        BY <1>3, <3>1, BehindType, StoredKept
    <2>6. Started(j)' /\ DoneStored(j)'
      BY <2>3 DEF IInv, Ledger, Started, DoneStored, Active
    <2>7. FailedEmpty(j)'
      BY <1>2, <2>1, <2>3 DEF IInv, Ledger, FailedEmpty, Empty
    <2>8. QED
      BY <1>2, <2>2, <2>3, <2>4, <2>5, <2>6, <2>7, OtherLedgers DEF Ledger
  <1>6. QED
    BY <1>4, <1>5

LEMMA CrashInv ==
    ASSUME IInv, NEW j \in Jobs, Crash(j)
    PROVE  IInv'
  <1>1. /\ pc[j] \notin {"posted", "queued"} /\ tx' = [tx EXCEPT ![j] = {}]
        /\ UNCHANGED <<row, age, rows, copies, src, pos, loaded>>
    BY DEF Crash, RollBack, Active, job, data, at
  <1>2. /\ faults' \in [Jobs -> 0..MaxFaults]
        /\ faults'[j] = faults[j] + 1 /\ faults'[j] # 0
        /\ \A k \in Jobs \ {j} : faults'[k] = faults[k]
    BY FaultType DEF Crash
  <1>3. PICK next \in {"ended", "queued"} :
           pc' = [pc EXCEPT ![j] = next] /\ (next = "queued" => Kind[j] = "celery")
    BY DEF Crash
  <1>4. pc'[j] = next /\ \A k \in Jobs \ {j} : pc'[k] = pc[k]
    BY <1>3 DEF IInv, Types, TypeOK
  <1>5. Types'
    BY <1>1, <1>2, <1>3 DEF IInv, Types, TypeOK, Batch
  <1>6. StoredOnce(j)'
    <2>1. CASE next = "queued"
      BY <1>1, <1>2, <1>3, <1>4, <2>1, BehindType, StoredAgain DEF Behind, Again
    <2>2. CASE next = "ended"
      <3>1. Behind(j)' \in Behind(j)..Len(Sources[j])
        BY <1>1, <1>4, <2>2, BehindType, SourcesType DEF Behind
      <3>2. Again(j)' \in {Again(j), Again(j) + 1}
        BY <1>2 DEF Again
      <3>3. QED
        BY <1>1, <3>1, <3>2, BehindType, StoredKept
    <2>3. QED
      BY <2>1, <2>2
  <1>7. Started(j)' /\ DoneStored(j)' /\ FailedEmpty(j)'
    BY <1>1, <1>2, <1>3, <1>4
       DEF IInv, Ledger, Started, DoneStored, FailedEmpty, Active
  <1>8. QED
    BY <1>1, <1>2, <1>4, <1>5, <1>6, <1>7, OtherLedgers DEF Ledger

LEMMA AddressMissingInv ==
    ASSUME IInv, NEW j \in Jobs, AddressMissing(j)
    PROVE  IInv'
  BY RaiseInv DEF AddressMissing, More, job, data

LEMMA DeadlockVictimInv ==
    ASSUME IInv, NEW j \in Jobs, DeadlockVictim(j)
    PROVE  IInv'
  BY RaiseInv DEF DeadlockVictim, Deadlocked, WaitsFor, More, job, data

LEMMA ErrorInv ==
    ASSUME IInv, NEW j \in Jobs, Error(j)
    PROVE  IInv'
  BY RaiseInv DEF Error, job, data

-----------------------------------------------------------------------------
(* Time, the cleanup and every step.                                       *)

LEMMA TickInv ==
    ASSUME IInv, Tick
    PROVE  IInv'
  <1>1. age' \in [Jobs -> {"fresh", "stale", "old"}]
    BY DEF Tick, Older, IInv, Types, TypeOK
  <1>2. UNCHANGED <<row, rows, copies, pc, src, pos, loaded, tx, faults>>
    BY DEF Tick, data, run, at
  <1>3. Types'
    BY <1>1, <1>2 DEF IInv, Types, TypeOK, Batch
  <1>4. ASSUME NEW j \in Jobs
        PROVE  Ledger(j)'
    BY <1>2 DEF IInv, Ledger, Started, StoredOnce, DoneStored, FailedEmpty, Empty, Behind,
       Again, Active
  <1>5. QED
    BY <1>3, <1>4 DEF IInv

\* The cleanup calls a job failed only while it is pending or running, and
\* never one that has ended with records and no fault.
LEMMA CleanupInv ==
    ASSUME IInv, Cleanup
    PROVE  IInv'
  <1>1. UNCHANGED <<age, rows, copies, pc, src, pos, loaded, tx, faults>>
    BY DEF Cleanup, data, run, at
  <1>2. \A j \in Jobs : row'[j] = CASE Old(j) -> "deleted"
                                     [] Stale(j) -> "failed"
                                     [] OTHER -> row[j]
    BY DEF Cleanup
  <1>3. ASSUME NEW j \in Jobs
        PROVE  \/ row'[j] = row[j]
               \/ row[j] \in {"pending", "running", "completed", "failed"} /\ row'[j] = "deleted"
               \/ row[j] \in {"pending", "running"} /\ row'[j] = "failed"
    <2>1. Old(j) => row[j] \in {"pending", "running", "completed", "failed"}
      BY DEF Old, Stale
    <2>2. Stale(j) => row[j] \in {"pending", "running"}
      BY DEF Stale
    <2>3. QED
      BY <1>2, <2>1, <2>2
  <1>4. row' \in [Jobs -> {"none", "pending", "running", "done", "completed", "failed", "deleted"}]
    <2>1. row' = [j \in Jobs |-> row'[j]]
      BY DEF Cleanup
    <2>2. \A j \in Jobs : row'[j] \in {"none", "pending", "running", "done", "completed", "failed", "deleted"}
      BY <1>3 DEF IInv, Types, TypeOK
    <2>3. QED
      BY <2>1, <2>2
  <1>5. Types'
    BY <1>1, <1>4 DEF IInv, Types, TypeOK, Batch
  <1>6. ASSUME NEW j \in Jobs
        PROVE  Ledger(j)'
    <2>1. Ledger(j)
      BY DEF IInv
    <2>2. StoredOnce(j)'
      BY <1>1, <2>1 DEF Ledger, StoredOnce, Behind, Again
    <2>3. Started(j)' /\ DoneStored(j)' /\ FailedEmpty(j)'
      BY <1>1, <1>3, <2>1 DEF Ledger, Started, DoneStored, FailedEmpty, Empty, Active
    <2>4. QED
      BY <2>2, <2>3 DEF Ledger
  <1>7. QED
    BY <1>5, <1>6 DEF IInv

LEMMA StutterInv ==
    ASSUME IInv, UNCHANGED vars
    PROVE  IInv'
  BY DEF vars, job, data, run, at, IInv, Types, TypeOK, Batch, Ledger, Started, StoredOnce,
     DoneStored, FailedEmpty, Empty, Behind, Again, Active

LEMMA NextInv == IInv /\ [Next]_vars => IInv'
  <1> SUFFICES ASSUME IInv, [Next]_vars
               PROVE  IInv'
    OBVIOUS
  <1>1. ASSUME NEW j \in Jobs, Step(j)
        PROVE  IInv'
    BY <1>1, CreateInv, CreateCityInv, BeginInv, UnknownSourceInv, UpsertInv, CommitRecordsInv,
       FinishInv, AddressMissingInv, RowGoneInv, MarkFailedInv, LeaveBlockInv DEF Step
  <1>2. ASSUME NEW j \in Jobs, Error(j) \/ DeadlockVictim(j) \/ Crash(j)
        PROVE  IInv'
    BY <1>2, ErrorInv, DeadlockVictimInv, CrashInv
  <1>3. CASE UNCHANGED vars
    BY <1>3, StutterInv
  <1>4. QED
    BY <1>1, <1>2, <1>3, TickInv, CleanupInv DEF Next

LEMMA Invariance == Spec => []IInv
  BY InitInv, NextInv, PTL DEF Spec

-----------------------------------------------------------------------------
(* What the ledgers say about rows and copies.                             *)

LEMMA RecordsFollow == IInv => JobTellsRecords
  <1> SUFFICES ASSUME IInv, NEW j \in Jobs
               PROVE  /\ row[j] \in {"done", "completed"} /\ ~Several(j)
                            => \A r \in Found(j) : copies[j][r] > 0
                      /\ row[j] = "failed" /\ pc[j] = "ended" /\ faults[j] = 0
                            => \A r \in AllFound : copies[j][r] = 0
    BY DEF JobTellsRecords, DoneHasRecords, FailedStoresNothing
  <1>1. QED
    BY DEF IInv, Ledger, DoneStored, FailedEmpty, Empty

LEMMA CopiesFollow == IInv => CopiesAreFaults
  <1> SUFFICES ASSUME IInv, NEW j \in Jobs, NEW r \in AllFound
               PROVE  copies[j][r] <= Listed(j, r) * (1 + Again(j))
    BY DEF CopiesAreFaults, Again
  <1>1. copies[j][r] <= Cardinality(Spots(j, r, Behind(j))) + Listed(j, r) * Again(j)
        /\ copies[j][r] \in Nat
    BY DEF IInv, Ledger, StoredOnce, Types, TypeOK
  <1>2. Cardinality(Spots(j, r, Behind(j))) <= Listed(j, r)
        /\ Cardinality(Spots(j, r, Behind(j))) \in Nat
    <2>1. Len(Sources[j]) \in 0..Len(Sources[j]) /\ Behind(j) \in 0..Len(Sources[j])
      BY BehindType, SourcesType
    <2>2. QED
      BY <2>1, SpotsFinite, SpotsGrow, ListedSpots
  <1>3. Listed(j, r) \in Nat /\ Again(j) \in Nat
    BY ListedSpots, BehindType
  <1>4. \A x, y \in Nat : x * (1 + y) = x + x * y /\ x * y \in Nat
    OBVIOUS
  <1>5. QED
    BY <1>1, <1>2, <1>3, <1>4

-----------------------------------------------------------------------------
\* Every variable of the crawl jobs stays in its type, and a transaction is
\* open only while its crawl is at work or has failed and not left its session
\* yet (tasks/crawl_tasks.py, crawl_source).
THEOREM TypeCorrect == Spec => []TypeOK
  BY Invariance, PTL DEF IInv, Types

\* The row of a job tells what crawl_source, the inline crawls and the city
\* crawls have stored: all of it when done, nothing when failed by no fault.
THEOREM RowsTellRecords == Spec => []JobTellsRecords
  BY Invariance, RecordsFollow, PTL

\* Records are stored again only by the redelivery of a task, once per fault.
THEOREM CopiesOnlyByFault == Spec => []CopiesAreFaults
  BY Invariance, CopiesFollow, PTL
============================================================================
