------------------------------ MODULE CrawlJobs ------------------------------
(***************************************************************************)
(* Crawl jobs from the API (src/src/api/routers/jobs.py) through the       *)
(* crawl, in a Celery task (src/src/tasks/crawl_tasks.py) or inside the    *)
(* request, to the daily cleanup (src/src/services/cleanup.py); and the    *)
(* crawls of a whole city, ZIP code by ZIP code (src/src/dashboard/        *)
(* routes.py, services/zipcode_crawl.py).  The row of a job is updated in  *)
(* transactions of its own around those that store the crawled records,    *)
(* and by the cleanup, which goes by age.  Counts of items are left out.   *)
(***************************************************************************)
EXTENDS Naturals, Sequences, FiniteSets, Functions

CONSTANTS
    Jobs,        \* crawl jobs
    Kind,        \* "celery", "inline", "all": every source, inline, or "city":
                 \* every ZIP code of a city, inline
    Sources,     \* per job, what each source, or ZIP code, it asks finds, in
                 \* order; an unknown source or city has none
    Addressed,   \* restaurants whose record has an address
    MaxFaults    \* bound: failures of the one job that has any

Several(j)  == Kind[j] \in {"all", "city"}
Asked(j)    == DOMAIN Sources[j]
Found(j)    == UNION {Range(Sources[j][s]) : s \in Asked(j)}
AllFound    == UNION {Found(j) : j \in Jobs}

ASSUME CrawlAssumption ==
    /\ Kind \in [Jobs -> {"celery", "inline", "all", "city"}]
    /\ \A j \in Jobs : /\ Sources[j] \in Seq(Seq(AllFound))
                       /\ ~Several(j) => Len(Sources[j]) < 2
    /\ Addressed \subseteq AllFound
    /\ MaxFaults \in Nat

VARIABLES
    row,       \* committed status of each job's row
    age,       \* how old the row is for the cleanup
    rows,      \* how many rows each restaurant has
    copies,    \* how many source records each job has stored of a restaurant
    pc,        \* what runs for each job
    src, pos,  \* the source and the record it is at
    loaded,    \* whether its session holds the job's row
    tx,        \* the restaurants its open transaction has written
    faults

job  == <<row, age>>
data == <<rows, copies>>
at   == <<src, pos>>
run  == <<pc, at, loaded, tx>>
vars == <<job, data, run, faults>>

Init ==
    /\ row = [j \in Jobs |-> "none"]
    /\ age = [j \in Jobs |-> "fresh"]
    /\ rows = [r \in AllFound |-> 0]
    /\ copies = [j \in Jobs |-> [r \in AllFound |-> 0]]
    /\ pc = [j \in Jobs |-> "posted"]
    /\ src = [j \in Jobs |-> 1]
    /\ pos = [j \in Jobs |-> 1]
    /\ loaded = [j \in Jobs |-> FALSE]
    /\ tx = [j \in Jobs |-> {}]
    /\ faults = [j \in Jobs |-> 0]

HasRow(j)    == row[j] \notin {"none", "deleted"}
Active(j)    == pc[j] \in {"crawl", "finish", "failing", "closing"}
SetRow(j, s) == row' = IF HasRow(j) THEN [row EXCEPT ![j] = s] ELSE row

Fault(j) ==
    /\ faults[j] < MaxFaults
    /\ \A k \in Jobs \ {j} : faults[k] = 0
    /\ faults' = [faults EXCEPT ![j] = @ + 1]

-----------------------------------------------------------------------------
(* One crawl.                                                              *)

\* The row is committed before anything runs; a task the broker refuses is
\* logged and nothing else, so that the job stays pending.
Create(j) ==
    /\ pc[j] = "posted" /\ Kind[j] # "city"
    /\ row' = [row EXCEPT ![j] = "pending"]
    /\ \/ /\ pc' = [pc EXCEPT ![j] = "queued"]
          /\ UNCHANGED faults
       \/ /\ Kind[j] = "celery" /\ Fault(j)
          /\ pc' = [pc EXCEPT ![j] = "ended"]
    /\ UNCHANGED <<age, data, at, loaded, tx>>

\* The row is running from the start.  A city without a ZIP code is given up,
\* and the row is left as it is.
CreateCity(j) ==
    /\ pc[j] = "posted" /\ Kind[j] = "city"
    /\ row' = [row EXCEPT ![j] = "running"]
    /\ loaded' = [loaded EXCEPT ![j] = TRUE]
    /\ pc' = [pc EXCEPT ![j] = IF Asked(j) = {} THEN "ended" ELSE "crawl"]
    /\ UNCHANGED <<age, data, at, tx, faults>>

\* "running" is written whatever the row says, if there still is one.  What
\* runs for one source keeps the row it loaded; "all" loads it again at the end.
Begin(j) ==
    /\ pc[j] = "queued"
    /\ Asked(j) # {}
    /\ SetRow(j, "running")
    /\ loaded' = [loaded EXCEPT ![j] = HasRow(j) /\ Kind[j] # "all"]
    /\ src' = [src EXCEPT ![j] = 1]
    /\ pos' = [pos EXCEPT ![j] = 1]
    /\ pc' = [pc EXCEPT ![j] = "crawl"]
    /\ UNCHANGED <<age, data, tx, faults>>

\* The task raises before it has touched the row; the request marks it failed.
UnknownSource(j) ==
    /\ pc[j] = "queued"
    /\ Asked(j) = {}
    /\ IF Kind[j] = "celery" THEN UNCHANGED row ELSE SetRow(j, "failed")
    /\ pc' = [pc EXCEPT ![j] = "ended"]
    /\ UNCHANGED <<age, data, at, loaded, tx, faults>>

Batch(j) == Sources[j][src[j]]
Here(j)  == Batch(j)[pos[j]]
More(j)  == pc[j] = "crawl" /\ pos[j] <= Len(Batch(j))

\* The row of an addressed restaurant is unique: inserted or updated, locked
\* until the end.  Without an address no conflict arises and a second row is
\* one too many for the SELECT that follows.
Blocked(j) == Here(j) \in Addressed /\ \E k \in Jobs \ {j} : Here(j) \in tx[k]

TwoRows(j) == Here(j) \notin Addressed /\ (rows[Here(j)] > 0 \/ Here(j) \in tx[j])

EveryRecordCommits(j) ==     \* wrong on purpose: a commit per record
    /\ More(j) /\ ~Blocked(j) /\ ~TwoRows(j)
    /\ rows' = [rows EXCEPT ![Here(j)] = IF Here(j) \in Addressed THEN 1 ELSE @ + 1]
    /\ copies' = [copies EXCEPT ![j][Here(j)] = @ + 1]
    /\ pos' = [pos EXCEPT ![j] = @ + 1]
    /\ UNCHANGED <<job, src, pc, loaded, tx, faults>>

Upsert(j) ==
    /\ More(j) /\ ~Blocked(j) /\ ~TwoRows(j)
    /\ tx' = [tx EXCEPT ![j] = @ \cup {Here(j)}]
    /\ pos' = [pos EXCEPT ![j] = @ + 1]
    /\ UNCHANGED <<job, data, src, pc, loaded, faults>>

\* On to the next source or ZIP code, or to the end.
Advance(j) ==
    IF src[j] < Len(Sources[j])
    THEN /\ src' = [src EXCEPT ![j] = @ + 1]
         /\ pos' = [pos EXCEPT ![j] = 1]
         /\ UNCHANGED pc
    ELSE /\ pc' = [pc EXCEPT ![j] = "finish"]
         /\ UNCHANGED at

Times(r, q) == Cardinality({i \in DOMAIN q : q[i] = r})

CommitAgain(j) ==            \* wrong on purpose: the batch is not dropped
    /\ pc[j] = "crawl" /\ ~More(j)
    /\ copies' = [copies EXCEPT ![j] =
                     [r \in AllFound |-> @[r] + Times(r, Batch(j))]]
    /\ UNCHANGED <<job, rows, run, faults>>

CommitRecords(j) ==
    /\ pc[j] = "crawl" /\ ~More(j)
    /\ rows' = [r \in AllFound |->
                   IF r \notin tx[j] THEN rows[r]
                   ELSE IF r \in Addressed THEN 1 ELSE rows[r] + 1]
    /\ copies' = [copies EXCEPT ![j] =
                     [r \in AllFound |-> @[r] + Times(r, Batch(j))]]
    /\ tx' = [tx EXCEPT ![j] = {}]
    /\ Advance(j)
    /\ UNCHANGED <<job, loaded, faults>>

\* The object loaded at the start is written, whatever the cleanup did to
\* the row since; if the row is gone the UPDATE fails.
Finish(j) ==
    /\ pc[j] = "finish"
    /\ loaded[j] => HasRow(j)
    /\ IF loaded[j] \/ Kind[j] = "all"
       THEN SetRow(j, IF Kind[j] = "celery" THEN "done" ELSE "completed")
       ELSE UNCHANGED row
    /\ pc' = [pc EXCEPT ![j] = "ended"]
    /\ UNCHANGED <<age, data, at, loaded, tx, faults>>

-----------------------------------------------------------------------------
(* What goes wrong.                                                        *)

RollBack(j) == tx' = [tx EXCEPT ![j] = {}]

SkipRecords(j) ==            \* wrong on purpose: what fails is passed over
    pc' = [pc EXCEPT ![j] = "finish"] /\ UNCHANGED at

\* Of several sources only the records of the one that fails are skipped; what
\* fails at their end marks no job.
Raise(j) ==
    IF Several(j) /\ pc[j] = "crawl" THEN Advance(j)
    ELSE /\ pc' = [pc EXCEPT ![j] = IF Several(j) THEN "ended" ELSE "failing"]
         /\ UNCHANGED at

\* The job that is to be marked failed keeps its transaction open until the
\* exception leaves the session's block; for the others there is nothing in
\* between.  An error of the database itself ends the transaction at once.
Holding(j) == IF Several(j) THEN RollBack(j) ELSE UNCHANGED tx

AddressMissing(j) ==
    /\ More(j) /\ TwoRows(j)
    /\ Raise(j) /\ Holding(j)
    /\ UNCHANGED <<job, data, loaded, faults>>

RowGone(j) ==
    /\ pc[j] = "finish"
    /\ loaded[j] /\ ~HasRow(j)
    /\ Raise(j) /\ RollBack(j)
    /\ UNCHANGED <<job, data, loaded, faults>>

\* The crawler, the time limit, the database or the scoring after an inline
\* crawl raises.
Error(j) ==
    /\ pc[j] \in {"crawl", "finish"}
    /\ Fault(j)
    /\ Raise(j) /\ (Holding(j) \/ RollBack(j))
    /\ UNCHANGED <<job, data, loaded>>

WaitsFor(j) ==
    IF More(j) /\ Blocked(j)
    THEN {k \in Jobs \ {j} : Here(j) \in tx[k]} ELSE {}

Deadlocked(j) ==
    WaitsFor(j) # {} /\ \E S \in SUBSET Jobs :
        /\ j \in S
        /\ \A k \in S : /\ WaitsFor(k) \cap S # {}
                        /\ \E i \in S : k \in WaitsFor(i)

DeadlockVictim(j) ==
    /\ Deadlocked(j)
    /\ Raise(j) /\ RollBack(j)
    /\ UNCHANGED <<job, data, loaded, faults>>

\* A session of its own marks the job failed, beside the one that failed.
MarkFailed(j) ==
    /\ pc[j] = "failing"
    /\ SetRow(j, "failed")
    /\ pc' = [pc EXCEPT ![j] = "closing"]
    /\ UNCHANGED <<age, data, at, loaded, tx, faults>>

EndHolding(j) ==             \* wrong on purpose: the session is left open
    /\ pc[j] = "closing"
    /\ pc' = [pc EXCEPT ![j] = "ended"]
    /\ UNCHANGED <<job, data, at, loaded, tx, faults>>

\* The exception goes on, or the inline crawl returns: the session is closed.
LeaveBlock(j) ==
    /\ pc[j] = "closing"
    /\ pc' = [pc EXCEPT ![j] = "ended"]
    /\ RollBack(j)
    /\ UNCHANGED <<job, data, at, loaded, faults>>

\* The process dies.  A task is given out again, even one that had finished
\* but was not acknowledged, or is lost; a request is gone.
Crash(j) ==
    /\ Active(j) \/ (pc[j] = "ended" /\ Kind[j] = "celery" /\ row[j] # "pending")
    /\ Fault(j)
    /\ RollBack(j)
    /\ \/ pc' = [pc EXCEPT ![j] = "ended"]
       \/ Kind[j] = "celery" /\ pc' = [pc EXCEPT ![j] = "queued"]
    /\ UNCHANGED <<job, data, at, loaded>>

-----------------------------------------------------------------------------
(* Time and the cleanup.                                                   *)

\* A row is stale after an hour and old after the retention period, by when
\* nothing runs that is not still queued.  The rows there are age together.
Older(a) == IF a = "fresh" THEN "stale" ELSE "old"

Tick ==
    /\ \E j \in Jobs : row[j] # "none" /\ age[j] # "old"
    /\ \A j \in Jobs : Active(j) => age[j] # "stale"
    /\ age' = [j \in Jobs |-> IF row[j] = "none" THEN age[j] ELSE Older(age[j])]
    /\ UNCHANGED <<row, data, run, faults>>

PendingOnly(j) ==            \* wrong on purpose: forgets the running ones
    age[j] # "fresh" /\ row[j] = "pending"

Stale(j) == age[j] # "fresh" /\ row[j] \in {"pending", "running"}

Old(j) == age[j] = "old" /\ (row[j] \in {"completed", "failed"} \/ Stale(j))

\* Stale jobs are marked failed, then old ones deleted, in one transaction.
Cleanup ==
    /\ \E j \in Jobs : age[j] # "fresh"
    /\ row' = [j \in Jobs |-> CASE Old(j) -> "deleted"
                                [] Stale(j) -> "failed"
                                [] OTHER -> row[j]]
    /\ UNCHANGED <<age, data, run, faults>>

-----------------------------------------------------------------------------
Step(j) ==
    \/ Create(j) \/ CreateCity(j) \/ Begin(j) \/ UnknownSource(j) \/ Upsert(j) \/ CommitRecords(j) \/ Finish(j)
    \/ AddressMissing(j) \/ RowGone(j) \/ MarkFailed(j) \/ LeaveBlock(j)

Next ==
    \/ \E j \in Jobs : Step(j) \/ Error(j) \/ DeadlockVictim(j) \/ Crash(j)
    \/ Tick \/ Cleanup

Spec == Init /\ [][Next]_vars

\* What can run runs, time passes and the daily cleanup comes.
FairSpec ==
    /\ Spec
    /\ WF_vars(\E j \in Jobs : Step(j) \/ DeadlockVictim(j))
    /\ WF_vars(Tick)
    /\ WF_vars(Cleanup)

-----------------------------------------------------------------------------
(* Properties.                                                             *)

\* Type invariant; a transaction is open only while a crawl is at work or has
\* failed and not left its session yet.
TypeOK ==
    /\ row \in [Jobs -> {"none", "pending", "running", "done", "completed", "failed", "deleted"}]
    /\ age \in [Jobs -> {"fresh", "stale", "old"}]
    /\ rows \in [AllFound -> Nat]
    /\ copies \in [Jobs -> [AllFound -> Nat]]
    /\ pc \in [Jobs -> {"posted", "queued", "crawl", "finish", "failing", "closing", "ended"}]
    /\ \A j \in Jobs : /\ src[j] \in 1..Len(Sources[j]) \cup {1}
                       /\ Asked(j) # {} => pos[j] \in 1..Len(Batch(j)) + 1
    /\ loaded \in [Jobs -> BOOLEAN]
    /\ tx \in [Jobs -> SUBSET AllFound]
    /\ \A j \in Jobs : tx[j] # {} => pc[j] \in {"crawl", "failing", "closing"}
    /\ faults \in [Jobs -> 0..MaxFaults]

\* A job that says it is done has stored every record it found, though the
\* cleanup may have called it failed in between and tasks are run again;
\* a job of several sources reports its end whatever became of them.
DoneHasRecords ==
    \A j \in Jobs :
        row[j] \in {"done", "completed"} /\ ~Several(j)
            => \A r \in Found(j) : copies[j][r] > 0

\* A crawl that failed has stored nothing, so that crawling again does not
\* repeat it, unless a fault came between the two commits: an addressless
\* record, a deadlock or the cleanup alone never leaves half a crawl.
FailedStoresNothing ==
    \A j \in Jobs :
        row[j] = "failed" /\ pc[j] = "ended" /\ faults[j] = 0
            => \A r \in AllFound : copies[j][r] = 0

\* The row of a job tells what is stored (tasks/crawl_tasks.py, crawl_source).
JobTellsRecords == DoneHasRecords /\ FailedStoresNothing

\* A job's records are stored once, and once more for each time its worker
\* dies: redelivery is at least once, not more, and no request is repeated.
Listed(j, r) ==
    Cardinality(UNION {{s} \X {i \in DOMAIN Sources[j][s] : Sources[j][s][i] = r} : s \in Asked(j)})
CopiesAreFaults ==
    \A j \in Jobs, r \in AllFound :
        copies[j][r] <= Listed(j, r) * (1 + IF Kind[j] = "celery" THEN faults[j] ELSE 0)

\* Whatever is lost, refused or blocked, every job's row leaves "pending" and
\* "running" for good: what the crawl does not finish the cleanup does.
JobsSettle == <>[](\A j \in Jobs : pc[j] = "ended" /\ row[j] \notin {"pending", "running"})

\* "Delete completed/failed jobs older than retention period"
\* (services/cleanup.py:88): none of them outlives a cleanup.
FinishedJobsDeleted ==
    [][Cleanup => \A j \in Jobs :
          age[j] = "old" /\ row[j] \in {"done", "completed", "failed"}
              => row'[j] = "deleted"]_vars
============================================================================
