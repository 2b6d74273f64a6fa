------------------------- MODULE EmailEventsProofs -------------------------
(***************************************************************************)
(* Proofs about EmailEvents for every number of workers, targets, leads,   *)
(* messages and batches, whatever the bounds are.                          *)
(***************************************************************************)
EXTENDS EmailEvents, SequenceTheorems, TLAPS

Doing == {"read", "status", "optout", "record", "commit", "ack"}

Tx == [moves : [Targets -> Seq(Statuses)], leads : SUBSET Leads, rows : SUBSET Rows]

LEMMA RequestedType ==
    ASSUME NEW e \in Events
    PROVE  Requested(e) \subseteq Statuses
  BY ConstantsAssumption DEF Requested, EventHandler, EventTypes, Statuses, Queued, Sent,
     Delivered, Opened, Clicked, Replied, Bounced, Failed, OptedOut

LEMMA BatchType ==
    ASSUME NEW b \in Batches
    PROVE  /\ b \in Seq(Events)
           /\ Len(b) \in Nat \ {0}
           /\ DOMAIN b = 1..Len(b)
           /\ \A i \in DOMAIN b : b[i] \in Events
  BY ConstantsAssumption

\* The event a worker with a job is at.
LEMMA EventType ==
    ASSUME TypeOK, NEW w \in Workers, pc[w] # "idle"
    PROVE  /\ job[w] \in Jobs
           /\ Event(w) \in Events
           /\ pos[w] \in 1..Len(job[w].events)
  BY BatchType DEF TypeOK, Jobs, Event

LEMMA MatchedTargetType ==
    ASSUME TypeOK, NEW e \in Events
    PROVE  MatchedTarget(e) \in Targets \cup {None}
  BY ConstantsAssumption DEF TypeOK, MatchedTarget

LEMMA SeenStatusType ==
    ASSUME TypeOK, NEW w \in Workers, NEW t \in Targets
    PROVE  SeenStatus(w, t) \in Statuses
  BY DEF TypeOK, SeenStatus

LEMMA StatusConstants ==
    /\ {Queued, Sent, Delivered, Opened, Clicked, Replied, Bounced, Failed, OptedOut}
         \subseteq Statuses
    /\ NoTarget \in [target : Targets \cup {None}, status : Statuses]
    /\ EmptyTx \in Tx
  BY DEF Statuses, NoTarget, EmptyTx, Tx, Rows

-----------------------------------------------------------------------------
(* The type invariant.                                                     *)

LEMMA AdvanceType ==
    ASSUME TypeOK, NEW w \in Workers, pc[w] # "idle", Advance(w), job' = job
    PROVE  /\ pc' \in [Workers -> {"idle"} \cup Doing]
           /\ pos' \in [Workers -> Nat \ {0}]
           /\ \A v \in Workers :
                pc'[v] # "idle" => job'[v] \in Jobs /\ pos'[v] \in DOMAIN job'[v].events
  <1>1. /\ job[w] \in Jobs
        /\ DOMAIN job[w].events = 1..Len(job[w].events)
        /\ Len(job[w].events) \in Nat
        /\ pos[w] \in 1..Len(job[w].events)
    BY EventType, BatchType DEF Jobs
  <1>2. CASE pos[w] < Len(job[w].events)
    <2>1. /\ pos' = [pos EXCEPT ![w] = pos[w] + 1]
          /\ pc' = [pc EXCEPT ![w] = "read"]
      BY <1>2 DEF Advance
    <2>2. pos[w] + 1 \in Nat \ {0} /\ pos[w] + 1 \in 1..Len(job[w].events)
      BY <1>1, <1>2
    <2>3. \A v \in Workers : pc'[v] # "idle" => job[v] \in Jobs /\ pos'[v] \in DOMAIN job[v].events
      BY <1>1, <2>1, <2>2 DEF TypeOK
    <2>4. QED
      BY <2>1, <2>2, <2>3 DEF TypeOK, Doing
  <1>3. CASE ~(pos[w] < Len(job[w].events))
    BY <1>1, <1>3 DEF Advance, TypeOK, Doing
  <1>4. QED
    BY <1>2, <1>3

LEMMA DropType ==
    ASSUME TypeOK, NEW w \in Workers, pc[w] # "idle", Drop(w)
    PROVE  /\ pc' \in [Workers -> {"idle"} \cup Doing]
           /\ job' \in [Workers -> Jobs \cup {NoJob}]
           /\ pos' \in [Workers -> Nat \ {0}]
           /\ tgt' \in [Workers -> Targets \cup {None}]
           /\ held' \in [Workers -> [target : Targets \cup {None}, status : Statuses]]
           /\ tx' \in [Workers -> Tx]
           /\ \A v \in Workers :
                pc'[v] # "idle" => job'[v] \in Jobs /\ pos'[v] \in DOMAIN job'[v].events
  BY StatusConstants DEF TypeOK, Drop, RollBack, Doing, Tx

LEMMA RetryType ==
    ASSUME TypeOK, NEW w \in Workers, pc[w] # "idle", Retry(w), UNCHANGED posts,
           faults' \in 0..MaxFaults
    PROVE  TypeOK'
  <1>1. job[w] \in Jobs
    BY DEF TypeOK
  <1>2. queue' \subseteq Jobs
    <2> DEFINE again == [job[w] EXCEPT !.tries = @ + 1]
    <2>1. again = [events |-> job[w].events, tries |-> job[w].tries + 1, post |-> job[w].post]
      BY <1>1 DEF Jobs
    <2>2. job[w].tries < MaxRetries => job[w].tries + 1 \in 0..MaxRetries
      BY <1>1, BoundsAssumption DEF Jobs
    <2>3. job[w].tries < MaxRetries => again \in Jobs
      BY <1>1, <2>1, <2>2 DEF Jobs
    <2>4. QED
      BY <2>3 DEF TypeOK, Retry
  <1>3. Drop(w)
    BY DEF Retry
  <1>4. QED
    BY <1>2, <1>3, DropType DEF TypeOK, Retry, db, Doing, Tx

LEMMA WaitsOnlyBusy ==
    ASSUME NEW w \in Workers, DeadlockVictim(w)
    PROVE  pc[w] # "idle"
  <1>1. WaitsFor(w) # {}
    BY DEF DeadlockVictim, Deadlocked
  <1>2. QED
    BY <1>1 DEF WaitsFor

LEMMA TypeInit == Init => TypeOK
  BY StatusConstants, BoundsAssumption DEF Init, TypeOK, Tx

LEMMA TypeNext == TypeOK /\ [Next]_vars => TypeOK'
  <1> SUFFICES ASSUME TypeOK, [Next]_vars
               PROVE  TypeOK'
    OBVIOUS
  <1> USE DEF db, outside, worker
  <1>1. ASSUME NEW m \in Messages, SendEmail(m)
        PROVE  TypeOK'
    <2>1. TargetOf[m] \in Targets
      BY ConstantsAssumption
    <2>2. ASSUME NEW s \in Statuses, MoveCommitted(TargetOf[m], s)
          PROVE  /\ status' \in [Targets -> Statuses]
                 /\ history' \in [Targets -> Seq(Statuses)]
      <3>1. CASE IsValidTransition(status[TargetOf[m]], s)
        <4> DEFINE t == TargetOf[m]
        <4>1. /\ status' = [status EXCEPT ![t] = s]
              /\ history' = [history EXCEPT ![t] = Append(history[t], s)]
          BY <2>2, <3>1 DEF MoveCommitted
        <4>2. history[t] \in Seq(Statuses) /\ Append(history[t], s) \in Seq(Statuses)
          BY <2>1 DEF TypeOK
        <4>3. QED
          BY <2>1, <4>1, <4>2 DEF TypeOK
      <3>2. CASE ~IsValidTransition(status[TargetOf[m]], s)
        BY <2>2, <3>2 DEF MoveCommitted, TypeOK
      <3>3. QED
        BY <3>1, <3>2
    <2>3. /\ status' \in [Targets -> Statuses]
          /\ history' \in [Targets -> Seq(Statuses)]
      BY <1>1, <2>2, StatusConstants DEF SendEmail
    <2>4. recorded' \subseteq Messages
      BY <1>1 DEF SendEmail, TypeOK
    <2>5. QED
      BY <1>1, <2>3, <2>4 DEF SendEmail, TypeOK
  <1>2. ASSUME NEW b \in Batches, PostBatch(b)
        PROVE  TypeOK'
    <2>1. posts' \in 0..MaxPosts /\ posts + 1 \in 1..MaxPosts
      BY <1>2, BoundsAssumption DEF PostBatch, TypeOK
    <2>2. queue' \subseteq Jobs
      BY <1>2, <2>1, BoundsAssumption DEF PostBatch, TypeOK, Jobs
    <2>3. QED
      BY <1>2, <2>1, <2>2 DEF PostBatch, TypeOK
  <1>3. ASSUME NEW w \in Workers, Take(w)
        PROVE  TypeOK'
    <2>1. PICK m \in queue : /\ queue' = queue \ {m}
                             /\ job' = [job EXCEPT ![w] = m]
      BY <1>3 DEF Take
    <2>2. m \in Jobs /\ 1 \in DOMAIN m.events
      BY BatchType DEF TypeOK, Jobs
    <2>3. QED
      BY <1>3, <2>1, <2>2 DEF Take, TypeOK
  <1>4. ASSUME NEW w \in Workers, SkipEvent(w)
        PROVE  TypeOK'
    BY <1>4, AdvanceType DEF SkipEvent, TypeOK, Doing
  <1>5. ASSUME NEW w \in Workers, ReadEvent(w)
        PROVE  TypeOK'
    <2>1. MatchedTarget(Event(w)) \in Targets \cup {None}
      BY <1>5, EventType, MatchedTargetType DEF ReadEvent
    <2>2. Load(w, MatchedTarget(Event(w))) \in [target : Targets \cup {None}, status : Statuses]
      BY <2>1, SeenStatusType DEF Load, TypeOK
    <2>3. QED
      BY <1>5, <2>1, <2>2 DEF ReadEvent, TypeOK
  <1>6. ASSUME NEW w \in Workers, KeepStatus(w)
        PROVE  TypeOK'
    BY <1>6 DEF KeepStatus, TypeOK
  <1>7. ASSUME NEW w \in Workers, ApplyStatus(w)
        PROVE  TypeOK'
    <2>1. PICK s \in Transitions(w) :
             /\ tx' = [tx EXCEPT ![w].moves[tgt[w]] = Append(@, s)]
             /\ held' = [held EXCEPT ![w].status = s]
      BY <1>7 DEF ApplyStatus
    <2>2. s \in Statuses /\ tgt[w] \in Targets
      BY <1>7, <2>1, EventType, RequestedType DEF ApplyStatus, Transitions, TypeOK
    <2>3. tx' \in [Workers -> Tx]
      <3> DEFINE t == tgt[w]
                 moves == [tx[w].moves EXCEPT ![t] = Append(@, s)]
      <3>1. tx[w] \in Tx /\ tx \in [Workers -> Tx]
        BY DEF TypeOK, Tx
      <3>2. Append(tx[w].moves[t], s) \in Seq(Statuses)
        BY <2>2, <3>1 DEF Tx
      <3>3. moves \in [Targets -> Seq(Statuses)]
        BY <2>2, <3>1, <3>2 DEF Tx
      <3>4. [tx[w] EXCEPT !.moves = moves] \in Tx
        BY <3>1, <3>3 DEF Tx
      <3>5. tx' = [tx EXCEPT ![w] = [tx[w] EXCEPT !.moves = moves]]
        BY <2>1
      <3>6. QED
        BY <3>1, <3>4, <3>5
    <2>4. held' \in [Workers -> [target : Targets \cup {None}, status : Statuses]]
      BY <2>1, <2>2 DEF TypeOK
    <2>5. pc' \in [Workers -> {"idle"} \cup Doing]
      BY <1>7 DEF ApplyStatus, TypeOK, Doing
    <2>6. \A v \in Workers : pc'[v] # "idle" => pc[v] # "idle"
      BY <1>7 DEF ApplyStatus, TypeOK
    <2>7. UNCHANGED <<db, outside, queue, accepted, job, pos, tgt>>
      BY <1>7 DEF ApplyStatus
    <2>8. QED
      BY <2>3, <2>4, <2>5, <2>6, <2>7 DEF TypeOK, Tx, Doing
  <1>8. ASSUME NEW w \in Workers, OptOut(w)
        PROVE  TypeOK'
    <2>1. OptOutLeads(w) \subseteq Leads
      BY ConstantsAssumption DEF OptOutLeads, LeadOfTarget
    <2>2. tx' \in [Workers -> Tx]
      BY <1>8, <2>1 DEF OptOut, TypeOK, Tx
    <2>3. QED
      BY <1>8, <2>2 DEF OptOut, TypeOK, Tx
  <1>9. ASSUME NEW w \in Workers, Record(w)
        PROVE  TypeOK'
    <2>1. [event |-> Event(w), target |-> tgt[w]] \in Rows
      BY <1>9, EventType DEF Record, Rows, TypeOK
    <2>2. tx' \in [Workers -> Tx]
      BY <1>9, <2>1 DEF Record, TypeOK, Tx
    <2>3. QED
      BY <1>9, <2>2, AdvanceType DEF Record, TypeOK, Tx, Doing
  <1>10. ASSUME NEW w \in Workers, RecordConflict(w)
         PROVE  TypeOK'
    BY <1>10, AdvanceType, StatusConstants DEF RecordConflict, RollBack, TypeOK, Tx, Doing
  <1>11. ASSUME NEW w \in Workers, Commit(w)
         PROVE  TypeOK'
    <2>1. status' \in [Targets -> Statuses]
      BY <1>11, SeenStatusType DEF Commit
    <2>2. history' \in [Targets -> Seq(Statuses)]
      BY <1>11 DEF Commit, TypeOK
    <2>3. accepted' \subseteq Events
      <3>1. job[w] \in Jobs
        BY <1>11 DEF Commit, TypeOK
      <3>2. \A i \in DOMAIN job[w].events : job[w].events[i] \in Events
        BY <3>1, BatchType DEF Jobs
      <3>3. accepted \subseteq Events
        BY DEF TypeOK
      <3>4. QED
        BY <1>11, <3>2, <3>3 DEF Commit
    <2>4. QED
      BY <1>11, <2>1, <2>2, <2>3, StatusConstants DEF Commit, RollBack, TypeOK, Tx
  <1>12. ASSUME NEW w \in Workers, Ack(w)
         PROVE  TypeOK'
    BY <1>12 DEF Ack, TypeOK
  <1>13. ASSUME NEW w \in Workers, ReplyConflict(w) \/ DeadlockVictim(w) \/ DbError(w)
         PROVE  TypeOK'
    <2>1. pc[w] # "idle"
      BY <1>13, WaitsOnlyBusy DEF ReplyConflict, DbError
    <2>2. Retry(w) /\ UNCHANGED posts /\ faults' \in 0..MaxFaults
      BY <1>13, BoundsAssumption DEF ReplyConflict, DeadlockVictim, DbError, TypeOK
    <2>3. QED
      BY <2>1, <2>2, RetryType
  <1>14. ASSUME NEW w \in Workers, Crash(w)
         PROVE  TypeOK'
    <2>1. faults' \in 0..MaxFaults /\ queue' \subseteq Jobs
      BY <1>14, BoundsAssumption DEF Crash, TypeOK
    <2>2. QED
      BY <1>14, <2>1, DropType DEF Crash, TypeOK, Doing, Tx
  <1>15. CASE UNCHANGED vars \/ Finished
    BY <1>15 DEF vars, Finished, TypeOK
  <1>16. QED
    BY <1>1, <1>2, <1>3, <1>4, <1>5, <1>6, <1>7, <1>8, <1>9, <1>10, <1>11, <1>12,
       <1>13, <1>14, <1>15 DEF Next, Step

\* Every state of every run has the types the model declares, and a worker
\* with a job always stands at an event of its batch.
THEOREM Typed == Spec => []TypeOK
  BY TypeInit, TypeNext, PTL DEF Spec

-----------------------------------------------------------------------------
(* No opt-out is lost.  What makes the property inductive is what an open  *)
(* transaction holds: the leads it opts out are there before the row is.   *)

OptsOut(r, leads) ==
    r.event.type \in OptOutTypes /\ LeadOfTarget(r.target) # None
        => LeadOfTarget(r.target) \in leads

OptOutInv ==
    /\ \A r \in tracker : OptsOut(r, optOut)
    /\ \A w \in Workers : \A r \in tx[w].rows : OptsOut(r, optOut \cup tx[w].leads)
    /\ \A w \in Workers : pc[w] = "record" => OptOutLeads(w) \subseteq optOut \cup tx[w].leads

LEMMA OptOutInit == Init => OptOutInv
  BY DEF Init, OptOutInv, EmptyTx

\* A step that leaves the opt-outs and rows of the database alone, ends the
\* transaction of w or keeps it, and starts no "record" step.
LEMMA OptOutFrame ==
    ASSUME TypeOK, OptOutInv, NEW w \in Workers, UNCHANGED <<tracker, optOut>>,
           tx' = tx \/ tx' = [tx EXCEPT ![w] = EmptyTx],
           \A v \in Workers : pc'[v] = "record" => v # w /\ pc[v] = "record",
           \A v \in Workers \ {w} : job'[v] = job[v] /\ pos'[v] = pos[v] /\ tgt'[v] = tgt[v]
    PROVE  OptOutInv'
  <1>1. \A v \in Workers : tx'[v] = tx[v] \/ (v = w /\ tx'[v].rows = {})
    BY DEF TypeOK, EmptyTx
  <1>2. \A v \in Workers : \A r \in tx'[v].rows : OptsOut(r, optOut' \cup tx'[v].leads)
    BY <1>1 DEF OptOutInv
  <1>3. \A v \in Workers \ {w} : OptOutLeads(v)' = OptOutLeads(v)
    BY DEF OptOutLeads, Event
  <1>4. \A v \in Workers : pc'[v] = "record" => OptOutLeads(v)' \subseteq optOut' \cup tx'[v].leads
    BY <1>1, <1>3 DEF OptOutInv
  <1>5. QED
    BY <1>2, <1>4 DEF OptOutInv

LEMMA DropFrame ==
    ASSUME TypeOK, OptOutInv, NEW w \in Workers, Drop(w), UNCHANGED db
    PROVE  OptOutInv'
  BY OptOutFrame DEF Drop, RollBack, TypeOK, db

LEMMA OptOutNext == TypeOK /\ OptOutInv /\ [Next]_vars => OptOutInv'
  <1> SUFFICES ASSUME TypeOK, OptOutInv, [Next]_vars
               PROVE  OptOutInv'
    OBVIOUS
  <1> USE DEF db, outside, worker
  <1>1. CASE \/ \E m \in Messages : SendEmail(m)
             \/ \E b \in Batches : PostBatch(b)
             \/ Finished
             \/ UNCHANGED vars
    BY <1>1 DEF SendEmail, PostBatch, Finished, vars, OptOutInv, OptOutLeads, Event
  <1>2. ASSUME NEW w \in Workers,
               Take(w) \/ SkipEvent(w) \/ ReadEvent(w) \/ KeepStatus(w) \/ RecordConflict(w) \/ Ack(w)
        PROVE  OptOutInv'
    BY <1>2, OptOutFrame
       DEF Take, SkipEvent, ReadEvent, KeepStatus, RecordConflict, RollBack, Ack, Advance, TypeOK
  <1>3. ASSUME NEW w \in Workers, ApplyStatus(w)
        PROVE  OptOutInv'
    <2>1. \A v \in Workers : tx'[v].rows = tx[v].rows /\ tx'[v].leads = tx[v].leads
      BY <1>3 DEF ApplyStatus, TypeOK
    <2>2. \A v \in Workers : pc'[v] = "record" => pc[v] = "record" /\ OptOutLeads(v)' = OptOutLeads(v)
      BY <1>3 DEF ApplyStatus, TypeOK, OptOutLeads, Event
    <2>3. UNCHANGED <<tracker, optOut>>
      BY <1>3 DEF ApplyStatus
    <2>4. QED
      BY <2>1, <2>2, <2>3 DEF OptOutInv
  <1>4. ASSUME NEW w \in Workers, OptOut(w)
        PROVE  OptOutInv'
    <2>1. \A v \in Workers : /\ tx'[v].rows = tx[v].rows
                             /\ tx[v].leads \subseteq tx'[v].leads
      BY <1>4 DEF OptOut, TypeOK
    <2>2. \A v \in Workers : OptOutLeads(v)' = OptOutLeads(v)
      BY <1>4 DEF OptOut, OptOutLeads, Event
    <2>3. OptOutLeads(w) \subseteq optOut \cup tx'[w].leads
      BY <1>4 DEF OptOut, TypeOK
    <2>4. \A v \in Workers \ {w} : pc'[v] = pc[v]
      BY <1>4 DEF OptOut, TypeOK
    <2>5. UNCHANGED <<tracker, optOut>>
      BY <1>4 DEF OptOut
    <2>6. QED
      BY <2>1, <2>2, <2>3, <2>4, <2>5 DEF OptOutInv, OptsOut
  <1>5. ASSUME NEW w \in Workers, Record(w)
        PROVE  OptOutInv'
    <2> DEFINE row == [event |-> Event(w), target |-> tgt[w]]
    <2>1. \A v \in Workers : /\ tx'[v].leads = tx[v].leads
                             /\ tx'[v].rows \subseteq tx[v].rows \cup (IF v = w THEN {row} ELSE {})
      BY <1>5 DEF Record, TypeOK
    <2>2. UNCHANGED <<tracker, optOut>>
      BY <1>5 DEF Record
    <2>3. OptsOut(row, optOut \cup tx[w].leads)
      BY <1>5 DEF Record, OptOutInv, OptsOut, OptOutLeads
    <2>4. \A v \in Workers : \A r \in tx'[v].rows : OptsOut(r, optOut' \cup tx'[v].leads)
      BY <2>1, <2>2, <2>3 DEF OptOutInv
    <2>5. \A v \in Workers : pc'[v] = "record" => v # w /\ pc[v] = "record"
      BY <1>5 DEF Record, Advance, TypeOK
    <2>6. \A v \in Workers \ {w} : OptOutLeads(v)' = OptOutLeads(v)
      BY <1>5 DEF Record, Advance, TypeOK, OptOutLeads, Event
    <2>7. QED
      BY <2>1, <2>2, <2>4, <2>5, <2>6 DEF OptOutInv
  <1>6. ASSUME NEW w \in Workers, Commit(w)
        PROVE  OptOutInv'
    <2>1. /\ tracker' = tracker \cup tx[w].rows
          /\ optOut' = optOut \cup tx[w].leads
          /\ tx' = [tx EXCEPT ![w] = EmptyTx]
      BY <1>6 DEF Commit, RollBack
    <2>2. \A r \in tracker' : OptsOut(r, optOut')
      BY <2>1 DEF OptOutInv, OptsOut
    <2>3. \A v \in Workers : tx'[v] = tx[v] \/ tx'[v].rows = {}
      BY <2>1 DEF TypeOK, EmptyTx
    <2>4. \A v \in Workers : \A r \in tx'[v].rows : OptsOut(r, optOut' \cup tx'[v].leads)
      BY <2>1, <2>3 DEF OptOutInv, OptsOut
    <2>5. \A v \in Workers : pc'[v] = "record" => v # w /\ pc[v] = "record"
      BY <1>6 DEF Commit, TypeOK
    <2>6. \A v \in Workers \ {w} : OptOutLeads(v)' = OptOutLeads(v) /\ tx'[v] = tx[v]
      BY <1>6, <2>1 DEF Commit, TypeOK, OptOutLeads, Event
    <2>7. QED
      BY <2>1, <2>2, <2>4, <2>5, <2>6 DEF OptOutInv
  <1>7. ASSUME NEW w \in Workers,
               ReplyConflict(w) \/ DbError(w) \/ Crash(w) \/ DeadlockVictim(w)
        PROVE  OptOutInv'
    BY <1>7, DropFrame DEF ReplyConflict, DbError, Crash, DeadlockVictim, Retry
  <1>8. QED
    BY <1>1, <1>2, <1>3, <1>4, <1>5, <1>6, <1>7 DEF Next, Step

\* Whatever the workers do concurrently, retry, roll back or lose, a stored
\* hard bounce, spam report or unsubscribe of a target has opted its lead out.
THEOREM OptOutNotLost == Spec => []OptOutFollowsRecord
  <1>1. OptOutInv => OptOutFollowsRecord
    BY DEF OptOutInv, OptsOut, OptOutFollowsRecord
  <1>2. QED
    BY <1>1, OptOutInit, OptOutNext, Typed, PTL DEF Spec

-----------------------------------------------------------------------------
(* Every status is backed by an event.  A transition an open transaction   *)
(* made is backed by a row of the same transaction, or by the event its    *)
(* worker is about to record.                                              *)

Backs(r, t, s) == r.target = t /\ s \in Requested(r.event)

AboutToBack(w, t, s) ==
    pc[w] \in {"optout", "record"} /\ tgt[w] = t /\ s \in Requested(Event(w))

BackedInv ==
    /\ StatusBackedByEvent
    /\ \A w \in Workers : \A t \in Targets : \A i \in DOMAIN tx[w].moves[t] :
          LET s == tx[w].moves[t][i]
          IN  (\E r \in tx[w].rows : Backs(r, t, s)) \/ AboutToBack(w, t, s)

LEMMA BackedInit == Init => BackedInv
  BY DEF Init, BackedInv, EmptyTx, StatusBackedByEvent, ProviderStatuses,
     Queued, Delivered, Opened, Clicked, Replied, Bounced

\* A step that leaves the statuses and rows of the database alone, ends the
\* transaction of w or keeps it, and starts or moves on no other worker.
LEMMA BackedFrame ==
    ASSUME TypeOK, BackedInv, NEW w \in Workers, UNCHANGED <<status, tracker>>,
           tx' = [tx EXCEPT ![w] = EmptyTx]
             \/ (tx' = tx /\ pc[w] \notin {"optout", "record"}),
           \A v \in Workers \ {w} :
              /\ pc'[v] = pc[v]
              /\ job'[v] = job[v] /\ pos'[v] = pos[v] /\ tgt'[v] = tgt[v]
    PROVE  BackedInv'
  <1>1. StatusBackedByEvent'
    BY DEF BackedInv, StatusBackedByEvent
  <1>2. \A v \in Workers \ {w} : \A t, s : AboutToBack(v, t, s)' = AboutToBack(v, t, s)
    BY DEF AboutToBack, Event
  <1>3. \A v \in Workers \ {w} : tx'[v] = tx[v]
    BY DEF TypeOK
  <1>4. ASSUME NEW v \in Workers, NEW t \in Targets, NEW i \in DOMAIN tx'[v].moves[t]
        PROVE  \/ \E r \in tx'[v].rows : Backs(r, t, tx'[v].moves[t][i])
               \/ AboutToBack(v, t, tx[v].moves[t][i])' /\ tx'[v] = tx[v]
    <2>1. CASE v # w
      BY <2>1, <1>2, <1>3 DEF BackedInv
    <2>2. CASE v = w /\ tx' = tx
      BY <2>2 DEF BackedInv, AboutToBack, EmptyTx, TypeOK
    <2>3. CASE v = w /\ tx' = [tx EXCEPT ![w] = EmptyTx]
      BY <2>3 DEF EmptyTx, TypeOK
    <2>4. QED
      BY <2>1, <2>2, <2>3
  <1>5. QED
    BY <1>1, <1>4 DEF BackedInv, AboutToBack

LEMMA BackedNext == TypeOK /\ BackedInv /\ [Next]_vars => BackedInv'
  <1> SUFFICES ASSUME TypeOK, BackedInv, [Next]_vars
               PROVE  BackedInv'
    OBVIOUS
  <1> USE DEF db, outside, worker
  <1>1. CASE (\E b \in Batches : PostBatch(b)) \/ Finished \/ UNCHANGED vars
    BY <1>1 DEF PostBatch, Finished, vars, BackedInv, StatusBackedByEvent, AboutToBack, Event
  <1>2. ASSUME NEW m \in Messages, SendEmail(m)
        PROVE  BackedInv'
    <2>1. \A t \in Targets : status'[t] = status[t] \/ status'[t] \notin ProviderStatuses
      BY <1>2 DEF SendEmail, MoveCommitted, TypeOK, ProviderStatuses,
         Sent, Failed, OptedOut, Delivered, Opened, Clicked, Replied, Bounced
    <2>2. UNCHANGED <<tracker, tx, pc, job, pos, tgt>>
      BY <1>2 DEF SendEmail
    <2>3. StatusBackedByEvent'
      BY <2>1, <2>2 DEF BackedInv, StatusBackedByEvent
    <2>4. QED
      BY <2>2, <2>3 DEF BackedInv, AboutToBack, Event
  <1>3. ASSUME NEW w \in Workers,
               Take(w) \/ SkipEvent(w) \/ ReadEvent(w) \/ KeepStatus(w) \/ RecordConflict(w) \/ Ack(w)
        PROVE  BackedInv'
    BY <1>3, BackedFrame
       DEF Take, SkipEvent, ReadEvent, KeepStatus, RecordConflict, RollBack, Ack, Advance, TypeOK
  <1>4. ASSUME NEW w \in Workers, ApplyStatus(w)
        PROVE  BackedInv'
    <2>1. PICK s \in Transitions(w) : tx' = [tx EXCEPT ![w].moves[tgt[w]] = Append(@, s)]
      BY <1>4 DEF ApplyStatus
    <2>2. /\ pc[w] = "status" /\ pc' = [pc EXCEPT ![w] = "optout"]
          /\ UNCHANGED <<status, tracker, job, pos, tgt>>
      BY <1>4 DEF ApplyStatus
    <2>3. \A v \in Workers : tx'[v].rows = tx[v].rows
      BY <2>1 DEF TypeOK
    <2>4. \A v \in Workers : \A t, r : AboutToBack(v, t, r) => AboutToBack(v, t, r)'
      BY <2>2 DEF AboutToBack, Event, TypeOK
    <2>5. s \in Requested(Event(w)) /\ tgt[w] \in Targets
      BY <2>1 DEF Transitions, TypeOK
    <2>6. pc'[w] = "optout" /\ tgt'[w] = tgt[w] /\ Event(w)' = Event(w)
      BY <2>2 DEF Event, TypeOK
    <2>7. ASSUME NEW v \in Workers, NEW t \in Targets, NEW i \in DOMAIN tx'[v].moves[t]
          PROVE  \/ i \in DOMAIN tx[v].moves[t] /\ tx'[v].moves[t][i] = tx[v].moves[t][i]
                 \/ v = w /\ t = tgt[w] /\ tx'[v].moves[t][i] = s
      <3>1. tx[w].moves[tgt[w]] \in Seq(Statuses)
        BY <2>5 DEF TypeOK
      <3>2. CASE v = w /\ t = tgt[w]
        <4>1. tx'[v].moves[t] = Append(tx[w].moves[tgt[w]], s)
          BY <2>1, <2>5, <3>2 DEF TypeOK
        <4>2. QED
          BY <3>1, <3>2, <4>1
      <3>3. CASE ~(v = w /\ t = tgt[w])
        BY <2>1, <2>5, <3>3 DEF TypeOK
      <3>4. QED
        BY <3>2, <3>3
    <2>8. StatusBackedByEvent'
      BY <2>2 DEF BackedInv, StatusBackedByEvent
    <2>9. ASSUME NEW v \in Workers, NEW t \in Targets, NEW i \in DOMAIN tx'[v].moves[t],
                 NEW x, x = tx'[v].moves[t][i]
          PROVE  \/ \E r \in tx'[v].rows : Backs(r, t, x)
                 \/ AboutToBack(v, t, x)'
      <3>1. CASE i \in DOMAIN tx[v].moves[t] /\ x = tx[v].moves[t][i]
        <4>1. (\E r \in tx[v].rows : Backs(r, t, x)) \/ AboutToBack(v, t, x)
          BY <3>1 DEF BackedInv
        <4>2. QED
          BY <4>1, <2>3, <2>4
      <3>2. CASE v = w /\ t = tgt[w] /\ x = s
        BY <3>2, <2>5, <2>6 DEF AboutToBack
      <3>3. QED
        BY <2>7, <2>9, <3>1, <3>2
    <2>10. QED
      BY <2>8, <2>9 DEF BackedInv
  <1>5. ASSUME NEW w \in Workers, OptOut(w)
        PROVE  BackedInv'
    <2>1. \A v \in Workers : tx'[v].rows = tx[v].rows /\ tx'[v].moves = tx[v].moves
      BY <1>5 DEF OptOut, TypeOK
    <2>2. /\ pc' = [pc EXCEPT ![w] = "record"] /\ pc[w] = "optout"
          /\ UNCHANGED <<status, tracker, job, pos, tgt>>
      BY <1>5 DEF OptOut
    <2>3. \A v \in Workers : pc[v] \in {"optout", "record"} => pc'[v] \in {"optout", "record"}
      BY <2>2 DEF TypeOK
    <2>4. QED
      BY <2>1, <2>2, <2>3 DEF BackedInv, AboutToBack, Event, StatusBackedByEvent
  <1>6. ASSUME NEW w \in Workers, Record(w)
        PROVE  BackedInv'
    <2> DEFINE row == [event |-> Event(w), target |-> tgt[w]]
    <2>1. /\ \A v \in Workers : tx'[v].moves = tx[v].moves /\ tx[v].rows \subseteq tx'[v].rows
          /\ row \in tx'[w].rows
      BY <1>6 DEF Record, TypeOK
    <2>2. UNCHANGED <<status, tracker, job, tgt>>
      BY <1>6 DEF Record
    <2>3. \A v \in Workers \ {w} : pc'[v] = pc[v] /\ pos'[v] = pos[v]
      BY <1>6 DEF Record, Advance, TypeOK
    <2>4. ASSUME NEW v \in Workers, NEW t \in Targets, NEW i \in DOMAIN tx'[v].moves[t]
          PROVE  \/ \E r \in tx'[v].rows : Backs(r, t, tx'[v].moves[t][i])
                 \/ v # w /\ AboutToBack(v, t, tx[v].moves[t][i])
      BY <2>1 DEF BackedInv, Backs, AboutToBack
    <2>5. QED
      BY <2>1, <2>2, <2>3, <2>4 DEF BackedInv, AboutToBack, Event, StatusBackedByEvent
  <1>7. ASSUME NEW w \in Workers, Commit(w)
        PROVE  BackedInv'
    <2>1. /\ tracker' = tracker \cup tx[w].rows
          /\ tx' = [tx EXCEPT ![w] = EmptyTx]
          /\ pc[w] = "commit" /\ pc' = [pc EXCEPT ![w] = "ack"]
          /\ UNCHANGED <<job, pos, tgt>>
          /\ \A t \in Targets : status'[t] = SeenStatus(w, t)
      BY <1>7 DEF Commit, RollBack
    <2>2. ASSUME NEW t \in Targets, SeenStatus(w, t) \in ProviderStatuses
          PROVE  \E r \in tracker' : Backs(r, t, SeenStatus(w, t))
      <3>1. CASE tx[w].moves[t] = <<>>
        BY <2>1, <2>2, <3>1 DEF SeenStatus, BackedInv, StatusBackedByEvent, Backs
      <3>2. CASE tx[w].moves[t] # <<>>
        <4>1. Len(tx[w].moves[t]) \in DOMAIN tx[w].moves[t]
          BY <3>2 DEF TypeOK
        <4>2. \E r \in tx[w].rows : Backs(r, t, SeenStatus(w, t))
          BY <2>1, <3>2, <4>1 DEF SeenStatus, BackedInv, AboutToBack
        <4>3. QED
          BY <2>1, <4>2
      <3>3. QED
        BY <3>1, <3>2
    <2>3. StatusBackedByEvent'
      BY <2>1, <2>2 DEF StatusBackedByEvent, Backs
    <2>4. \A v \in Workers \ {w} : tx'[v] = tx[v] /\ pc'[v] = pc[v]
      BY <2>1 DEF TypeOK
    <2>5. \A t \in Targets : tx'[w].moves[t] = <<>>
      BY <2>1 DEF TypeOK, EmptyTx
    <2>6. QED
      BY <2>1, <2>3, <2>4, <2>5 DEF BackedInv, AboutToBack, Event
  <1>8. ASSUME NEW w \in Workers,
               ReplyConflict(w) \/ DbError(w) \/ Crash(w) \/ DeadlockVictim(w)
        PROVE  BackedInv'
    BY <1>8, BackedFrame
       DEF ReplyConflict, DbError, Crash, DeadlockVictim, Retry, Drop, RollBack, TypeOK
  <1>9. QED
    BY <1>1, <1>2, <1>3, <1>4, <1>5, <1>6, <1>7, <1>8 DEF Next, Step

\* A committed status of the provider's always has its committed event:
\* status and event are kept or lost together.
THEOREM StatusBacked == Spec => []StatusBackedByEvent
  <1>1. BackedInv => StatusBackedByEvent
    BY DEF BackedInv
  <1>2. QED
    BY <1>1, BackedInit, BackedNext, Typed, PTL DEF Spec

-----------------------------------------------------------------------------
(* The status rows tell the status.                                        *)

LEMMA LastOfConcat ==
    ASSUME NEW S, NEW s \in Seq(S), NEW t \in Seq(S), t # <<>>
    PROVE  s \o t # <<>> /\ (s \o t)[Len(s \o t)] = t[Len(t)]
  <1>1. Len(s) \in Nat /\ Len(t) \in Nat /\ Len(t) # 0
    OBVIOUS
  <1>2. Len(s \o t) = Len(s) + Len(t) /\ s \o t \in Seq(S)
    BY ConcatProperties
  <1>3. Len(s) + Len(t) \in 1 .. Len(s) + Len(t) /\ ~(Len(s) + Len(t) <= Len(s))
    BY <1>1
  <1>4. (s \o t)[Len(s) + Len(t)] = t[Len(s) + Len(t) - Len(s)]
    BY <1>3, ConcatProperties
  <1>5. Len(s) + Len(t) - Len(s) = Len(t)
    BY <1>1
  <1>6. s \o t # <<>>
    BY <1>1, ConcatEqualIffEmpty, ConcatSimplifications
  <1>7. QED
    BY <1>2, <1>4, <1>5, <1>6

LEMMA HistoryInit == Init => HistoryEndsAtStatus
  BY DEF Init, HistoryEndsAtStatus

LEMMA HistoryNext == TypeOK /\ HistoryEndsAtStatus /\ [Next]_vars => HistoryEndsAtStatus'
  <1> SUFFICES ASSUME TypeOK, HistoryEndsAtStatus, [Next]_vars
               PROVE  HistoryEndsAtStatus'
    OBVIOUS
  <1>1. ASSUME NEW m \in Messages, SendEmail(m)
        PROVE  HistoryEndsAtStatus'
    <2>1. ASSUME NEW s, MoveCommitted(TargetOf[m], s)
          PROVE  HistoryEndsAtStatus'
      <3>1. CASE UNCHANGED <<status, history>>
        BY <3>1 DEF HistoryEndsAtStatus
      <3>2. CASE /\ status' = [status EXCEPT ![TargetOf[m]] = s]
                 /\ history' = [history EXCEPT ![TargetOf[m]] = Append(@, s)]
        <4>1. TargetOf[m] \in Targets /\ history[TargetOf[m]] \in Seq(Statuses)
          BY ConstantsAssumption DEF TypeOK
        <4>2. \A t \in Targets \ {TargetOf[m]} : status'[t] = status[t] /\ history'[t] = history[t]
          BY <3>2, <4>1 DEF TypeOK
        <4>3. /\ status'[TargetOf[m]] = s
              /\ history'[TargetOf[m]] = Append(history[TargetOf[m]], s)
          BY <3>2, <4>1 DEF TypeOK
        <4>4. QED
          BY <4>1, <4>2, <4>3 DEF HistoryEndsAtStatus
      <3>3. QED
        BY <2>1, <3>1, <3>2 DEF MoveCommitted
    <2>2. QED
      BY <1>1, <2>1 DEF SendEmail
  <1>2. ASSUME NEW w \in Workers, Commit(w)
        PROVE  HistoryEndsAtStatus'
    <2>1. \A t \in Targets : /\ status'[t] = SeenStatus(w, t)
                             /\ history'[t] = history[t] \o tx[w].moves[t]
      BY <1>2 DEF Commit
    <2>2. ASSUME NEW t \in Targets
          PROVE  status'[t] = IF history'[t] = <<>> THEN Queued ELSE history'[t][Len(history'[t])]
      <3> DEFINE old == history[t]
                 new == tx[w].moves[t]
      <3>1. old \in Seq(Statuses) /\ new \in Seq(Statuses)
        BY DEF TypeOK
      <3>2. CASE new = <<>>
        <4>1. old \o new = old
          BY <3>1, <3>2, ConcatEmptySeq
        <4>2. QED
          BY <2>1, <3>2, <4>1 DEF SeenStatus, HistoryEndsAtStatus
      <3>3. CASE new # <<>>
        <4>1. old \o new # <<>> /\ (old \o new)[Len(old \o new)] = new[Len(new)]
          BY <3>1, <3>3, LastOfConcat
        <4>2. QED
          BY <2>1, <3>3, <4>1 DEF SeenStatus
      <3>4. QED
        BY <3>2, <3>3
    <2>3. QED
      BY <2>2 DEF HistoryEndsAtStatus
  <1>3. CASE UNCHANGED <<status, history>>
    BY <1>3 DEF HistoryEndsAtStatus
  <1>4. CASE \/ \E b \in Batches : PostBatch(b)
             \/ Finished
             \/ UNCHANGED vars
             \/ \E w \in Workers :
                  \/ Take(w) \/ SkipEvent(w) \/ ReadEvent(w) \/ KeepStatus(w)
                  \/ ApplyStatus(w) \/ OptOut(w) \/ Record(w) \/ RecordConflict(w)
                  \/ ReplyConflict(w) \/ Ack(w) \/ DbError(w) \/ Crash(w)
                  \/ DeadlockVictim(w)
    BY <1>3, <1>4
       DEF PostBatch, Finished, vars, db, Take, SkipEvent, ReadEvent, KeepStatus, ApplyStatus,
           OptOut, Record, RecordConflict, ReplyConflict, Ack, DbError, Crash, DeadlockVictim, Retry
  <1>5. QED
    BY <1>1, <1>2, <1>4 DEF Next, Step

\* The status rows of a target never disagree with its status.
THEOREM HistoryTellsStatus == Spec => []HistoryEndsAtStatus
  BY HistoryInit, HistoryNext, Typed, PTL DEF Spec

-----------------------------------------------------------------------------
(* Nothing comes out of nowhere.  A worker may have read a status that was  *)
(* overwritten since, but whatever it writes it read or wrote itself: every *)
(* status row is a transition from queued or from an earlier row.           *)

Elements(q) == {q[i] : i \in DOMAIN q}

\* Each element is a transition from one of P or from an earlier element.
Explained(q, P) ==
    \A i \in DOMAIN q : \E s \in P \cup {q[k] : k \in 1..(i - 1)} : IsValidTransition(s, q[i])

Past(t) == {Queued} \cup Elements(history[t])

RowsFollowTable == \A t \in Targets : Explained(history[t], {Queued})

PastInv ==
    /\ RowsFollowTable
    /\ \A w \in Workers, t \in Targets :
          /\ Explained(tx[w].moves[t], Past(t))
          /\ held[w].target = t => held[w].status \in Past(t) \cup Elements(tx[w].moves[t])
    /\ \A w \in Workers : pc[w] = "status" /\ tgt[w] # None => held[w].target = tgt[w]

LEMMA TransitionsType ==
    ASSUME NEW s, NEW x, s \in Statuses, IsValidTransition(s, x)
    PROVE  x \in Statuses
  BY DEF IsValidTransition, ValidTransitions, Statuses, Queued, Sent, Delivered, Opened, Clicked,
     Replied, Bounced, Failed, OptedOut

LEMMA ExplainedEmpty == ASSUME NEW P PROVE Explained(<<>>, P)
  BY DEF Explained

LEMMA ExplainedMore ==
    ASSUME NEW P, NEW R, P \subseteq R, NEW q, Explained(q, P)
    PROVE  Explained(q, R)
  BY DEF Explained

LEMMA ExplainedAppend ==
    ASSUME NEW S, NEW P, NEW q \in Seq(S), NEW s \in S, Explained(q, P),
           NEW x \in P \cup Elements(q), IsValidTransition(x, s)
    PROVE  Explained(Append(q, s), P) /\ Elements(Append(q, s)) = Elements(q) \cup {s}
  <1> DEFINE r == Append(q, s)
  <1>1. Len(q) \in Nat /\ DOMAIN q = 1..Len(q) /\ DOMAIN r = 1..(Len(q) + 1)
    BY AppendProperties
  <1>2. r[Len(q) + 1] = s /\ \A i \in 1..Len(q) : r[i] = q[i]
    BY AppendProperties
  <1> HIDE DEF r
  <1>3. ASSUME NEW i \in DOMAIN r
        PROVE  \E y \in P \cup {r[k] : k \in 1..(i - 1)} : IsValidTransition(y, r[i])
    <2>1. CASE i \in 1..Len(q)
      <3>1. PICK y \in P \cup {q[k] : k \in 1..(i - 1)} : IsValidTransition(y, q[i])
        BY <1>1, <2>1 DEF Explained
      <3>2. \A k \in 1..(i - 1) : r[k] = q[k]
        BY <1>1, <1>2, <2>1
      <3> QED BY <1>2, <2>1, <3>1, <3>2
    <2>2. CASE i = Len(q) + 1
      <3>1. \A k \in 1..Len(q) : k \in 1..(i - 1)
        BY <1>1, <2>2
      <3>2. x \in P \cup {r[k] : k \in 1..(i - 1)}
        BY <1>1, <1>2, <3>1 DEF Elements
      <3> QED BY <1>2, <2>2, <3>2
    <2> QED BY <1>1, <2>1, <2>2
  <1>4. Elements(r) = Elements(q) \cup {s}
    <2>1. \A i \in DOMAIN r : i \in DOMAIN q \/ i = Len(q) + 1
      BY <1>1
    <2>2. DOMAIN q \subseteq DOMAIN r /\ Len(q) + 1 \in DOMAIN r
      BY <1>1
    <2> QED BY <1>1, <1>2, <2>1, <2>2 DEF Elements
  <1> QED BY <1>3, <1>4 DEF Explained, r

\* What was explained by a past stays explained at its end.
LEMMA ExplainedConcat ==
    ASSUME NEW S, NEW P, NEW q \in Seq(S), NEW r \in Seq(S),
           Explained(q, P), Explained(r, P \cup Elements(q))
    PROVE  Explained(q \o r, P) /\ Elements(q) \cup Elements(r) \subseteq Elements(q \o r)
  <1> DEFINE c == q \o r
  <1>1. /\ Len(q) \in Nat /\ Len(r) \in Nat /\ DOMAIN q = 1..Len(q) /\ DOMAIN r = 1..Len(r)
        /\ Len(c) = Len(q) + Len(r) /\ DOMAIN c = 1..(Len(q) + Len(r))
    BY ConcatProperties
  <1>2. /\ \A i \in 1..Len(q) : c[i] = q[i]
        /\ \A i \in 1..Len(r) : c[Len(q) + i] = r[i]
    <2>1. \A i \in 1..Len(q) : i \in 1..(Len(q) + Len(r)) /\ i <= Len(q)
      BY <1>1
    <2>2. \A i \in 1..Len(r) : /\ Len(q) + i \in 1..(Len(q) + Len(r))
                               /\ ~(Len(q) + i <= Len(q)) /\ Len(q) + i - Len(q) = i
      BY <1>1
    <2> QED BY <2>1, <2>2, ConcatProperties
  <1> HIDE DEF c
  <1>3. ASSUME NEW i \in DOMAIN c
        PROVE  \E y \in P \cup {c[k] : k \in 1..(i - 1)} : IsValidTransition(y, c[i])
    <2>1. CASE i \in 1..Len(q)
      <3>1. PICK y \in P \cup {q[k] : k \in 1..(i - 1)} : IsValidTransition(y, q[i])
        BY <1>1, <2>1 DEF Explained
      <3>2. \A k \in 1..(i - 1) : c[k] = q[k]
        BY <1>1, <1>2, <2>1
      <3> QED BY <1>2, <2>1, <3>1, <3>2
    <2>2. CASE i \notin 1..Len(q)
      <3>1. PICK j \in 1..Len(r) : i = Len(q) + j
        <4>1. i - Len(q) \in 1..Len(r) /\ i = Len(q) + (i - Len(q))
          BY <1>1, <2>2
        <4> QED BY <4>1
      <3>2. PICK y \in (P \cup Elements(q)) \cup {r[k] : k \in 1..(j - 1)} :
                IsValidTransition(y, r[j])
        BY <1>1 DEF Explained
      <3>3. \A k \in 1..Len(q) : k \in 1..(i - 1)
        BY <1>1, <3>1
      <3>4. \A k \in 1..(j - 1) : k \in 1..Len(r) /\ Len(q) + k \in 1..(i - 1)
        BY <1>1, <3>1
      <3>5. y \in P \cup {c[k] : k \in 1..(i - 1)}
        <4>1. ASSUME NEW k \in 1..Len(q), y = q[k]
              PROVE  y \in {c[n] : n \in 1..(i - 1)}
          BY <1>2, <3>3, <4>1
        <4>2. ASSUME NEW k \in 1..(j - 1), y = r[k]
              PROVE  y \in {c[n] : n \in 1..(i - 1)}
          <5>1. c[Len(q) + k] = y /\ Len(q) + k \in 1..(i - 1)
            BY <1>2, <3>4, <4>2
          <5> QED BY <5>1
        <4> QED BY <1>1, <3>2, <4>1, <4>2 DEF Elements
      <3> QED BY <1>2, <3>1, <3>2, <3>5
    <2> QED BY <2>1, <2>2
  <1>4. Elements(q) \cup Elements(r) \subseteq Elements(c)
    <2>1. ASSUME NEW i \in DOMAIN q PROVE q[i] \in Elements(c)
      <3>1. i \in DOMAIN c /\ c[i] = q[i]
        BY <1>1, <1>2
      <3> QED BY <3>1 DEF Elements
    <2>2. ASSUME NEW i \in DOMAIN r PROVE r[i] \in Elements(c)
      <3>1. Len(q) + i \in DOMAIN c /\ c[Len(q) + i] = r[i]
        BY <1>1, <1>2
      <3> QED BY <3>1 DEF Elements
    <2> QED BY <2>1, <2>2 DEF Elements
  <1> QED BY <1>3, <1>4 DEF Explained, c

LEMMA PastInit == Init => PastInv
  <1>1. Explained(<<>>, {Queued})
    BY ExplainedEmpty
  <1>2. ASSUME Init, NEW t \in Targets
        PROVE  Explained(<<>>, Past(t))
    BY ExplainedEmpty
  <1> QED BY <1>1, <1>2, NoneAssumption DEF Init, PastInv, RowsFollowTable, EmptyTx, NoTarget

\* The status a target has is one it has had.
LEMMA StatusIsPast ==
    ASSUME TypeOK, HistoryEndsAtStatus, NEW t \in Targets
    PROVE  status[t] \in Past(t)
  <1>1. history[t] \in Seq(Statuses)
    BY DEF TypeOK
  <1>2. history[t] # <<>> => Len(history[t]) \in DOMAIN history[t]
    BY <1>1
  <1> QED BY <1>2 DEF HistoryEndsAtStatus, Past, Elements

LEMMA SeenIsPast ==
    ASSUME TypeOK, HistoryEndsAtStatus, NEW w \in Workers, NEW t \in Targets
    PROVE  SeenStatus(w, t) \in Past(t) \cup Elements(tx[w].moves[t])
  <1>1. tx[w].moves[t] \in Seq(Statuses)
    BY DEF TypeOK
  <1>2. tx[w].moves[t] # <<>> => Len(tx[w].moves[t]) \in DOMAIN tx[w].moves[t]
    BY <1>1
  <1> QED BY <1>2, StatusIsPast DEF SeenStatus, Elements

\* A step that writes nothing, keeps or ends w's transaction, and holds a
\* target as it held it or as it sees it.
LEMMA PastFrame ==
    ASSUME TypeOK, PastInv, HistoryEndsAtStatus, NEW w \in Workers, UNCHANGED history,
           tx'[w].moves \in {tx[w].moves, EmptyTx.moves},
           \/ tx'[w].moves = tx[w].moves /\ held'[w] = held[w]
           \/ held'[w] = NoTarget
           \/ \E t \in Targets : /\ held'[w] = [target |-> t, status |-> SeenStatus(w, t)]
                                 /\ tx'[w].moves = tx[w].moves,
           \A v \in Workers \ {w} : /\ tx'[v].moves = tx[v].moves /\ held'[v] = held[v]
                                    /\ pc'[v] = pc[v] /\ tgt'[v] = tgt[v],
           pc'[w] = "status" /\ tgt'[w] # None => held'[w].target = tgt'[w]
    PROVE  PastInv'
  <1>1. \A t \in Targets : Past(t)' = Past(t)
    BY DEF Past
  <1>2. RowsFollowTable'
    BY DEF PastInv, RowsFollowTable
  <1>3. ASSUME NEW v \in Workers, NEW t \in Targets
        PROVE  /\ Explained(tx'[v].moves[t], Past(t))
               /\ held'[v].target = t => held'[v].status \in Past(t) \cup Elements(tx'[v].moves[t])
    <2>1. CASE v # w
      BY <2>1 DEF PastInv
    <2>2. CASE v = w
      <3>1. Explained(tx'[w].moves[t], Past(t))
        BY ExplainedEmpty DEF PastInv, EmptyTx
      <3>2. held'[w].target = t => held'[w].status \in Past(t) \cup Elements(tx'[w].moves[t])
        <4>1. CASE tx'[w].moves = tx[w].moves /\ held'[w] = held[w]
          BY <4>1 DEF PastInv
        <4>2. CASE held'[w] = NoTarget
          BY <4>2, NoneAssumption DEF NoTarget
        <4>3. CASE \E u \in Targets : /\ held'[w] = [target |-> u, status |-> SeenStatus(w, u)]
                                      /\ tx'[w].moves = tx[w].moves
          BY <4>3, SeenIsPast
        <4> QED BY <4>1, <4>2, <4>3
      <3> QED BY <2>2, <3>1, <3>2
    <2> QED BY <2>1, <2>2
  <1>4. \A v \in Workers : pc'[v] = "status" /\ tgt'[v] # None => held'[v].target = tgt'[v]
    BY DEF PastInv
  <1> QED BY <1>1, <1>2, <1>3, <1>4 DEF PastInv

\* New rows at the end of a history keep what was explained by it.
LEMMA PastGrows ==
    ASSUME TypeOK, PastInv, RowsFollowTable',
           \A t \in Targets : Past(t) \subseteq Past(t)',
           UNCHANGED <<tx, held, pc, tgt>>
    PROVE  PastInv'
  <1>1. ASSUME NEW w \in Workers, NEW t \in Targets
        PROVE  Explained(tx[w].moves[t], Past(t)')
    BY ExplainedMore DEF PastInv
  <1> QED BY <1>1 DEF PastInv

LEMMA SendPast ==
    ASSUME TypeOK, PastInv, HistoryEndsAtStatus, NEW m \in Messages, SendEmail(m)
    PROVE  PastInv'
  <1>1. TargetOf[m] \in Targets
    BY ConstantsAssumption
  <1>2. PICK s \in {OptedOut, Sent, Failed} : MoveCommitted(TargetOf[m], s)
    BY DEF SendEmail
  <1>3. s \in Statuses
    BY DEF Statuses, OptedOut, Sent, Failed
  <1>4. UNCHANGED <<tx, held, pc, tgt>>
    BY DEF SendEmail, worker
  <1>5. CASE UNCHANGED history
    BY <1>4, <1>5, PastGrows DEF PastInv, RowsFollowTable, Past
  <1>6. CASE /\ IsValidTransition(status[TargetOf[m]], s)
             /\ history' = [history EXCEPT ![TargetOf[m]] = Append(@, s)]
    <2> DEFINE t0 == TargetOf[m]
    <2>1. /\ history[t0] \in Seq(Statuses) /\ history'[t0] = Append(history[t0], s)
          /\ \A t \in Targets \ {t0} : history'[t] = history[t]
      BY <1>1, <1>6 DEF TypeOK
    <2>2. status[t0] \in {Queued} \cup Elements(history[t0])
      BY <1>1, StatusIsPast DEF Past
    <2>3. Explained(history[t0], {Queued})
      BY <1>1 DEF PastInv, RowsFollowTable
    <2>4. /\ Explained(history'[t0], {Queued})
          /\ Elements(history'[t0]) = Elements(history[t0]) \cup {s}
      BY <1>3, <1>6, <2>1, <2>2, <2>3, ExplainedAppend
    <2>5. RowsFollowTable'
      BY <2>1, <2>4 DEF PastInv, RowsFollowTable
    <2>6. \A t \in Targets : Past(t) \subseteq Past(t)'
      BY <2>1, <2>4 DEF Past
    <2> QED BY <1>4, <2>5, <2>6, PastGrows
  <1> QED BY <1>2, <1>5, <1>6 DEF MoveCommitted

LEMMA ApplyPast ==
    ASSUME TypeOK, PastInv, NEW w \in Workers, ApplyStatus(w), NEW t0, t0 = tgt[w]
    PROVE  PastInv'
  <1>1. PICK s \in Transitions(w) : /\ tx' = [tx EXCEPT ![w].moves[t0] = Append(@, s)]
                                    /\ held' = [held EXCEPT ![w].status = s]
    BY DEF ApplyStatus
  <1>2. /\ UNCHANGED <<history, tgt>> /\ pc[w] = "status" /\ pc' = [pc EXCEPT ![w] = "optout"]
    BY DEF ApplyStatus, db
  <1>3. t0 \in Targets /\ t0 # None /\ IsValidTransition(held[w].status, s) /\ held[w].status \in Statuses
    BY <1>1 DEF Transitions, TypeOK
  <1>4. s \in Statuses
    BY <1>3, TransitionsType
  <1>5. /\ \A v \in Workers \ {w} : tx'[v] = tx[v] /\ held'[v] = held[v]
        /\ tx'[w].moves = [tx[w].moves EXCEPT ![t0] = Append(@, s)]
        /\ held[w].target = t0 /\ held'[w].target = t0 /\ held'[w].status = s
    <2>1. held[w].target = t0
      BY <1>2, <1>3 DEF PastInv
    <2> QED BY <1>1, <2>1 DEF TypeOK
  <1>6. /\ tx[w].moves \in [Targets -> Seq(Statuses)]
        /\ tx'[w].moves[t0] = Append(tx[w].moves[t0], s)
        /\ \A t \in Targets \ {t0} : tx'[w].moves[t] = tx[w].moves[t]
    BY <1>3, <1>5 DEF TypeOK
  <1>7. /\ Explained(tx'[w].moves[t0], Past(t0))
        /\ Elements(tx'[w].moves[t0]) = Elements(tx[w].moves[t0]) \cup {s}
    <2>1. /\ tx[w].moves[t0] \in Seq(Statuses) /\ Explained(tx[w].moves[t0], Past(t0))
          /\ held[w].status \in Past(t0) \cup Elements(tx[w].moves[t0])
      BY <1>3, <1>5, <1>6 DEF PastInv
    <2> QED BY <1>3, <1>4, <1>6, <2>1, ExplainedAppend
  <1>8. \A t \in Targets : Past(t)' = Past(t)
    BY <1>2 DEF Past
  <1>9. ASSUME NEW v \in Workers, NEW t \in Targets
        PROVE  /\ Explained(tx'[v].moves[t], Past(t))
               /\ held'[v].target = t => held'[v].status \in Past(t) \cup Elements(tx'[v].moves[t])
    <2>1. CASE v # w
      BY <1>5, <2>1 DEF PastInv
    <2>2. CASE v = w /\ t = t0
      BY <1>5, <1>7, <2>2
    <2>3. CASE v = w /\ t # t0
      BY <1>5, <1>6, <2>3 DEF PastInv
    <2> QED BY <2>1, <2>2, <2>3
  <1>10. \A v \in Workers : pc'[v] = "status" /\ tgt'[v] # None => held'[v].target = tgt'[v]
    BY <1>2, <1>5 DEF PastInv, TypeOK
  <1> QED BY <1>2, <1>8, <1>9, <1>10 DEF PastInv, RowsFollowTable

LEMMA CommitPast ==
    ASSUME TypeOK, PastInv, NEW w \in Workers, Commit(w)
    PROVE  PastInv'
  <1>1. /\ tx' = [tx EXCEPT ![w] = EmptyTx] /\ held' = [held EXCEPT ![w] = NoTarget]
        /\ pc' = [pc EXCEPT ![w] = "ack"] /\ UNCHANGED tgt
        /\ \A t \in Targets : history'[t] = history[t] \o tx[w].moves[t]
    BY DEF Commit, RollBack
  <1>2. /\ tx'[w] = EmptyTx /\ held'[w] = NoTarget /\ pc'[w] = "ack"
        /\ \A v \in Workers \ {w} : tx'[v] = tx[v] /\ held'[v] = held[v] /\ pc'[v] = pc[v]
    BY <1>1 DEF TypeOK
  <1>3. ASSUME NEW t \in Targets
        PROVE  Explained(history'[t], {Queued}) /\ Past(t) \subseteq Past(t)'
    <2>1. /\ history[t] \in Seq(Statuses) /\ tx[w].moves[t] \in Seq(Statuses)
          /\ Explained(history[t], {Queued})
          /\ Explained(tx[w].moves[t], {Queued} \cup Elements(history[t]))
      <3>1. history[t] \in Seq(Statuses) /\ tx[w].moves[t] \in Seq(Statuses)
        BY DEF TypeOK
      <3>2. Explained(history[t], {Queued})
        BY DEF PastInv, RowsFollowTable
      <3>3. Explained(tx[w].moves[t], Past(t))
        BY DEF PastInv
      <3> QED BY <3>1, <3>2, <3>3 DEF Past
    <2>2. /\ Explained(history'[t], {Queued})
          /\ Elements(history[t]) \subseteq Elements(history'[t])
      BY <1>1, <2>1, ExplainedConcat
    <2> QED BY <2>2 DEF Past
  <1>4. ASSUME NEW v \in Workers, NEW t \in Targets
        PROVE  /\ Explained(tx'[v].moves[t], Past(t)')
               /\ held'[v].target = t => held'[v].status \in Past(t)' \cup Elements(tx'[v].moves[t])
    <2>1. CASE v = w
      BY <1>2, <2>1, ExplainedEmpty, NoneAssumption DEF EmptyTx, NoTarget
    <2>2. CASE v # w
      BY <1>2, <1>3, <2>2, ExplainedMore DEF PastInv
    <2> QED BY <2>1, <2>2
  <1>5. \A v \in Workers : pc'[v] = "status" /\ tgt'[v] # None => held'[v].target = tgt'[v]
    BY <1>1, <1>2 DEF PastInv
  <1> QED BY <1>3, <1>4, <1>5 DEF PastInv, RowsFollowTable

LEMMA PastNext == TypeOK /\ HistoryEndsAtStatus /\ PastInv /\ [Next]_vars => PastInv'
  <1> SUFFICES ASSUME TypeOK, HistoryEndsAtStatus, PastInv, [Next]_vars
               PROVE  PastInv'
    OBVIOUS
  <1> USE DEF db, outside, worker
  <1>1. CASE (\E b \in Batches : PostBatch(b)) \/ Finished \/ UNCHANGED vars
    <2>1. UNCHANGED <<tx, held, pc, tgt, history>>
      BY <1>1 DEF PostBatch, Finished, vars
    <2> QED BY <2>1, PastGrows DEF PastInv, RowsFollowTable, Past
  <1>2. ASSUME NEW w \in Workers,
               \/ Take(w) \/ SkipEvent(w) \/ KeepStatus(w) \/ OptOut(w) \/ Record(w) \/ Ack(w)
        PROVE  PastInv'
    <2>1. UNCHANGED <<history, held>> /\ pc'[w] # "status"
      BY <1>2 DEF Take, SkipEvent, KeepStatus, OptOut, Record, Ack, Advance, TypeOK
    <2>2. \A v \in Workers : tx'[v].moves = tx[v].moves
      <3>1. CASE tx' = tx
        BY <3>1
      <3>2. CASE OptOut(w)
        BY <3>2 DEF OptOut, TypeOK
      <3>3. CASE Record(w)
        BY <3>3 DEF Record, TypeOK
      <3> QED BY <1>2, <3>1, <3>2, <3>3 DEF Take, SkipEvent, KeepStatus, Ack
    <2>3. \A v \in Workers \ {w} : pc'[v] = pc[v] /\ tgt'[v] = tgt[v]
      BY <1>2 DEF Take, SkipEvent, KeepStatus, OptOut, Record, Ack, Advance, TypeOK
    <2> QED BY <2>1, <2>2, <2>3, PastFrame
  <1>3. ASSUME NEW w \in Workers, ReadEvent(w)
        PROVE  PastInv'
    <2>1. /\ UNCHANGED <<history, tx>> /\ tgt' = [tgt EXCEPT ![w] = MatchedTarget(Event(w))]
          /\ held' = [held EXCEPT ![w] = Load(w, MatchedTarget(Event(w)))]
          /\ pc' = [pc EXCEPT ![w] = "status"]
      BY <1>3 DEF ReadEvent
    <2>2. /\ tgt'[w] = MatchedTarget(Event(w)) /\ held'[w] = Load(w, tgt'[w])
          /\ \A v \in Workers \ {w} : pc'[v] = pc[v] /\ tgt'[v] = tgt[v] /\ held'[v] = held[v]
      BY <2>1 DEF TypeOK
    <2>3. tgt'[w] # None => held'[w].target = tgt'[w]
      BY <2>2 DEF Load
    <2>4. tgt'[w] \in Targets \cup {None}
      BY <1>3, <2>2, EventType, MatchedTargetType DEF ReadEvent
    <2>5. \/ held'[w] = held[w]
          \/ \E t \in Targets : held'[w] = [target |-> t, status |-> SeenStatus(w, t)]
      BY <2>2, <2>4 DEF Load
    <2> QED BY <2>1, <2>2, <2>3, <2>5, PastFrame
  <1>4. ASSUME NEW w \in Workers,
               RecordConflict(w) \/ ReplyConflict(w) \/ DbError(w) \/ Crash(w) \/ DeadlockVictim(w)
        PROVE  PastInv'
    <2>1. /\ tx' = [tx EXCEPT ![w] = EmptyTx] /\ held' = [held EXCEPT ![w] = NoTarget]
          /\ UNCHANGED history
      BY <1>4 DEF RecordConflict, ReplyConflict, DbError, Crash, DeadlockVictim, Retry, Drop,
                  RollBack
    <2>2. /\ tx'[w].moves = EmptyTx.moves /\ held'[w] = NoTarget
          /\ \A v \in Workers \ {w} : tx'[v] = tx[v] /\ held'[v] = held[v]
      BY <2>1 DEF TypeOK
    <2>3. /\ pc'[w] # "status"
          /\ \A v \in Workers \ {w} : pc'[v] = pc[v] /\ tgt'[v] = tgt[v]
      BY <1>4 DEF RecordConflict, ReplyConflict, DbError, Crash, DeadlockVictim, Retry, Drop,
                  Advance, TypeOK
    <2> QED BY <2>1, <2>2, <2>3, PastFrame
  <1> QED BY <1>1, <1>2, <1>3, <1>4, SendPast, ApplyPast, CommitPast DEF Next, Step

\* Every status row of every target is a transition of the table of
\* communication_status.py from queued or from an earlier row of the target,
\* and its status is the last of them: transition_status may start from a
\* status that was overwritten since, but never from one the target has not
\* had, whatever is retried, rolled back, doubled or lost.
THEOREM NothingFromNowhere == Spec => [](RowsFollowTable /\ HistoryEndsAtStatus)
  BY PastInit, PastNext, HistoryTellsStatus, Typed, PTL DEF Spec, PastInv
-----------------------------------------------------------------------------
(* Every accepted event is kept, when the provider groups its events alike: *)
(* it may post a batch any number of times, but an event it repeats comes   *)
(* in the same batch.  An event found in the database then tells that the   *)
(* whole batch was committed before, so that the rollback on a duplicate    *)
(* loses nothing.                                                           *)

GroupedAlike ==
    /\ \A e, f \in Events : ProviderEventId(e) = ProviderEventId(f) => e = f
    /\ \A b, c \in Batches : \A i \in DOMAIN b, j \in DOMAIN c : b[i] = c[j] => b = c

EventsOf(b) == {b[i] : i \in DOMAIN b}
Plain(b)    == {i \in DOMAIN b : b[i].type # "reply"}

Kept(e)     == \E r \in tracker : r.event = e
Noted(w, e) == Kept(e) \/ \E r \in tx[w].rows : r.event = e

AtEvent == {"read", "status", "optout", "record"}

\* The position up to which a worker has dealt with the events of its batch.
Behind(w) == IF pc[w] \in AtEvent THEN pos[w] - 1
             ELSE IF pc[w] = "commit" THEN Len(job[w].events) ELSE 0

WorkerAccounts(w) ==
    /\ \A r \in tx[w].rows : r.event \in EventsOf(job[w].events)
    /\ pc[w] \in {"idle", "ack"} => tx[w].rows = {}
    /\ \A i \in Plain(job[w].events) : i <= Behind(w) => Noted(w, job[w].events[i])

AccountInv ==
    /\ EventsAccounted
    /\ \A b \in Batches : \A i, j \in Plain(b) : Kept(b[i]) => Kept(b[j])
    /\ \A w \in Workers : WorkerAccounts(w)

LEMMA AccountInit == Init => AccountInv
  BY ConstantsAssumption DEF Init, AccountInv, EventsAccounted, Kept, WorkerAccounts, Plain,
     NoJob, EmptyTx

LEMMA AccountStep ==
    ASSUME AccountInv, NEW w \in Workers, UNCHANGED <<tracker, accepted>>,
           \A v \in Workers \ {w} : /\ pc'[v] = pc[v] /\ job'[v] = job[v]
                                    /\ pos'[v] = pos[v] /\ tx'[v] = tx[v],
           WorkerAccounts(w)'
    PROVE  AccountInv'
  <1>1. ASSUME NEW v \in Workers \ {w}
        PROVE  WorkerAccounts(v)'
    BY DEF AccountInv, WorkerAccounts, EventsOf, Plain, Behind, Noted, Kept
  <1>2. QED
    BY <1>1 DEF AccountInv, EventsAccounted, Kept

\* The step to the next event or to the commit.
LEMMA AdvanceAccounts ==
    ASSUME TypeOK, AccountInv, NEW w \in Workers, pc[w] \in AtEvent, Advance(w),
           UNCHANGED <<tracker, accepted, job>>,
           \A v \in Workers \ {w} : tx'[v] = tx[v],
           \A r \in tx'[w].rows : r.event \in EventsOf(job[w].events),
           \A i \in Plain(job[w].events) :
              i <= pos[w] => Noted(w, job[w].events[i])'
    PROVE  AccountInv'
  <1>1. /\ pc[w] # "idle"
        /\ job[w] \in Jobs
        /\ pos[w] \in 1..Len(job[w].events)
        /\ Len(job[w].events) \in Nat
        /\ pos \in [Workers -> Nat \ {0}]
        /\ \E S : pc \in [Workers -> S]
    BY EventType, BatchType DEF AtEvent, Jobs, TypeOK
  <1>2. /\ pc'[w] \in {"read", "commit"}
        /\ Behind(w)' = pos[w]
    BY <1>1 DEF Advance, Behind, AtEvent
  <1>3. WorkerAccounts(w)'
    BY <1>2 DEF WorkerAccounts, Plain, EventsOf
  <1>4. \A v \in Workers \ {w} : pc'[v] = pc[v] /\ pos'[v] = pos[v]
    BY <1>1 DEF Advance
  <1>5. QED
    BY <1>3, <1>4, AccountStep

LEMMA DropAccounts ==
    ASSUME TypeOK, AccountInv, NEW w \in Workers, Drop(w), UNCHANGED <<db, accepted>>
    PROVE  AccountInv'
  <1>1. /\ pc'[w] = "idle" /\ job'[w] = NoJob /\ tx'[w].rows = {}
        /\ \A v \in Workers \ {w} : /\ pc'[v] = pc[v] /\ job'[v] = job[v]
                                    /\ pos'[v] = pos[v] /\ tx'[v] = tx[v]
    BY DEF Drop, RollBack, EmptyTx, TypeOK
  <1>2. WorkerAccounts(w)'
    BY <1>1 DEF WorkerAccounts, Plain, NoJob
  <1>3. QED
    BY <1>1, <1>2, AccountStep DEF db

\* The duplicate that a worker finds was committed with its whole batch.
LEMMA BatchKept ==
    ASSUME GroupedAlike, TypeOK, AccountInv, NEW w \in Workers, pc[w] # "idle",
           Event(w).type # "reply", \E r \in tracker : SameKey(r, Event(w))
    PROVE  \A i \in Plain(job[w].events) : Kept(job[w].events[i])
  <1>1. /\ job[w].events \in Batches
        /\ Event(w) \in Events
        /\ pos[w] \in DOMAIN job[w].events
    BY EventType, BatchType DEF Jobs
  <1>2. Kept(Event(w))
    BY <1>1 DEF GroupedAlike, SameKey, Kept, TypeOK, Rows
  <1>3. pos[w] \in Plain(job[w].events) /\ Event(w) = job[w].events[pos[w]]
    BY <1>1 DEF Plain, Event
  <1>4. QED
    BY <1>1, <1>2, <1>3 DEF AccountInv

LEMMA SkipAccounts ==
    ASSUME GroupedAlike, TypeOK, AccountInv, NEW w \in Workers, SkipEvent(w)
    PROVE  AccountInv'
  <1>1. /\ pc[w] = "read" /\ Advance(w)
        /\ UNCHANGED <<tracker, accepted, job, tx>>
    BY DEF SkipEvent, db
  <1>2. /\ Event(w) \in Events
        /\ job[w] \in Jobs
        /\ pos[w] \in 1..Len(job[w].events)
    BY <1>1, EventType
  <1>3. \A i \in DOMAIN job[w].events : i \in Nat
    BY <1>2, BatchType DEF Jobs
  <1>4. Event(w).type # "reply" => Noted(w, Event(w))
    <2> SUFFICES ASSUME Event(w).type # "reply"
                 PROVE  Noted(w, Event(w))
      OBVIOUS
    <2>1. PICK r \in tracker \cup tx[w].rows : SameKey(r, Event(w))
      BY DEF SkipEvent, Seen
    <2>2. r.event \in Events
      BY DEF TypeOK, Rows
    <2>3. QED
      BY <1>2, <2>1, <2>2 DEF GroupedAlike, SameKey, Noted, Kept
  <1>5. \A i \in Plain(job[w].events) : i <= pos[w] => Noted(w, job[w].events[i])
    <2> TAKE i \in Plain(job[w].events)
    <2> HAVE i <= pos[w]
    <2>1. CASE i = pos[w]
      BY <1>4, <2>1 DEF Plain, Event
    <2>2. CASE i # pos[w]
      <3>1. i <= pos[w] - 1
        BY <1>2, <1>3, <2>2 DEF Plain
      <3>2. QED
        BY <1>1, <3>1 DEF AccountInv, WorkerAccounts, Behind, AtEvent
    <2>3. QED
      BY <2>1, <2>2
  <1>6. \A i \in Plain(job[w].events) : i <= pos[w] => Noted(w, job[w].events[i])'
    BY <1>1, <1>5 DEF Noted, Kept
  <1>7. QED
    BY <1>1, <1>6, AdvanceAccounts DEF AtEvent, AccountInv, WorkerAccounts

LEMMA RecordAccounts ==
    ASSUME TypeOK, AccountInv, NEW w \in Workers, Record(w)
    PROVE  AccountInv'
  <1> DEFINE row == [event |-> Event(w), target |-> tgt[w]]
  <1>1. /\ pc[w] = "record" /\ Advance(w)
        /\ UNCHANGED <<tracker, accepted, job>>
    BY DEF Record, db
  <1>2. /\ job[w] \in Jobs
        /\ pos[w] \in 1..Len(job[w].events)
        /\ \A i \in DOMAIN job[w].events : i \in Nat
        /\ pos[w] \in DOMAIN job[w].events
    BY <1>1, EventType, BatchType DEF Jobs
  <1>3. /\ tx'[w].rows = tx[w].rows \cup {row}
        /\ \A v \in Workers \ {w} : tx'[v] = tx[v]
    BY DEF Record, TypeOK
  <1>4. \A r \in tx'[w].rows : r.event \in EventsOf(job[w].events)
    BY <1>2, <1>3 DEF AccountInv, WorkerAccounts, EventsOf, Event
  <1>5. ASSUME NEW i \in Plain(job[w].events), i <= pos[w]
        PROVE  Noted(w, job[w].events[i])'
    <2>1. CASE i = pos[w]
      <3>1. row \in tx'[w].rows /\ row.event = job'[w].events[i]
        BY <1>1, <1>3, <2>1 DEF Event
      <3>2. QED
        BY <3>1 DEF Noted
    <2>2. CASE i # pos[w]
      <3>1. i <= pos[w] - 1
        BY <1>2, <1>5, <2>2 DEF Plain
      <3>2. Noted(w, job[w].events[i])
        BY <1>1, <3>1 DEF AccountInv, WorkerAccounts, Behind, AtEvent
      <3>3. QED
        BY <1>1, <1>3, <3>2 DEF Noted, Kept
    <2>3. QED
      BY <2>1, <2>2
  <1>6. QED
    BY <1>1, <1>3, <1>4, <1>5, AdvanceAccounts DEF AtEvent

LEMMA ConflictAccounts ==
    ASSUME GroupedAlike, TypeOK, AccountInv, NEW w \in Workers, RecordConflict(w)
    PROVE  AccountInv'
  <1>1. /\ pc[w] = "record" /\ Advance(w)
        /\ UNCHANGED <<tracker, accepted, job>>
        /\ tx' = [tx EXCEPT ![w] = EmptyTx]
    BY DEF RecordConflict, RollBack, db
  <1>2. \A i \in Plain(job[w].events) : Kept(job[w].events[i])
    BY <1>1, BatchKept DEF RecordConflict
  <1>3. /\ tx'[w].rows = {}
        /\ \A v \in Workers \ {w} : tx'[v] = tx[v]
    BY <1>1 DEF EmptyTx, TypeOK
  <1>4. \A i \in Plain(job[w].events) : Noted(w, job[w].events[i])'
    BY <1>1, <1>2 DEF Noted, Kept
  <1>5. QED
    BY <1>1, <1>3, <1>4, AdvanceAccounts DEF AtEvent

LEMMA CommitAccounts ==
    ASSUME GroupedAlike, TypeOK, AccountInv, NEW w \in Workers, Commit(w)
    PROVE  AccountInv'
  <1> DEFINE b == job[w].events
  <1>1. /\ pc[w] = "commit" /\ pc' = [pc EXCEPT ![w] = "ack"]
        /\ tracker' = tracker \cup tx[w].rows
        /\ tx' = [tx EXCEPT ![w] = EmptyTx]
        /\ UNCHANGED <<job, pos>>
        /\ accepted' = accepted \cup {e \in {b[i] : i \in DOMAIN b} : e.type # "reply"}
    BY DEF Commit, RollBack
  <1>2. job[w] \in Jobs /\ b \in Batches /\ DOMAIN b = 1..Len(b)
    BY <1>1, EventType, BatchType DEF Jobs
  <1>3. \A e : Kept(e) => Kept(e)'
    BY <1>1 DEF Kept
  <1>4. \A i \in Plain(b) : Kept(b[i])'
    <2>1. \A i \in Plain(b) : i <= Behind(w)
      BY <1>1, <1>2 DEF Behind, AtEvent, Plain
    <2>2. \A i \in Plain(b) : Noted(w, b[i])
      BY <2>1 DEF AccountInv, WorkerAccounts
    <2>3. QED
      BY <1>1, <2>2 DEF Noted, Kept
  <1>5. EventsAccounted'
    BY <1>1, <1>3, <1>4 DEF AccountInv, EventsAccounted, Kept, Plain
  <1>6. ASSUME NEW c \in Batches, NEW i \in Plain(c), NEW j \in Plain(c), Kept(c[i])'
        PROVE  Kept(c[j])'
    <2>1. CASE Kept(c[i])
      BY <1>3, <2>1 DEF AccountInv
    <2>2. CASE ~Kept(c[i])
      <3>1. PICK r \in tx[w].rows : r.event = c[i]
        BY <1>1, <1>6, <2>2 DEF Kept
      <3>2. PICK k \in DOMAIN b : c[i] = b[k]
        BY <3>1 DEF AccountInv, WorkerAccounts, EventsOf
      <3>3. c = b
        BY <1>2, <3>2 DEF GroupedAlike, Plain
      <3>4. QED
        BY <1>1, <1>4, <3>3
    <2>3. QED
      BY <2>1, <2>2
  <1>7. ASSUME NEW v \in Workers
        PROVE  WorkerAccounts(v)'
    <2>1. CASE v = w
      <3>1. pc'[v] = "ack" /\ tx'[v].rows = {}
        BY <1>1, <2>1 DEF EmptyTx, TypeOK
      <3>2. \A i \in Plain(job'[v].events) : ~(i <= 0)
        BY <1>1, <1>2, <2>1 DEF Plain
      <3>3. QED
        BY <3>1, <3>2 DEF WorkerAccounts, Behind, AtEvent
    <2>2. CASE v # w
      <3>1. pc'[v] = pc[v] /\ tx'[v] = tx[v] /\ job'[v] = job[v] /\ pos'[v] = pos[v]
        BY <1>1, <2>2 DEF TypeOK
      <3>2. Behind(v)' = Behind(v)
        BY <3>1 DEF Behind
      <3>3. \A e : Noted(v, e) => Noted(v, e)'
        BY <1>3, <3>1 DEF Noted
      <3>4. QED
        BY <3>1, <3>2, <3>3 DEF AccountInv, WorkerAccounts, Plain, EventsOf
    <2>3. QED
      BY <2>1, <2>2
  <1>8. QED
    BY <1>5, <1>6, <1>7 DEF AccountInv

LEMMA AccountNext ==
    ASSUME GroupedAlike
    PROVE  TypeOK /\ AccountInv /\ [Next]_vars => AccountInv'
  <1> SUFFICES ASSUME TypeOK, AccountInv, [Next]_vars
               PROVE  AccountInv'
    OBVIOUS
  <1> USE DEF db, outside, worker
  <1>1. CASE \/ \E m \in Messages : SendEmail(m)
             \/ \E b \in Batches : PostBatch(b)
             \/ Finished
             \/ UNCHANGED vars
    <2>1. UNCHANGED <<tracker, accepted, tx, pc, job, pos>>
      BY <1>1 DEF SendEmail, PostBatch, Finished, vars
    <2>2. QED
      BY <2>1 DEF AccountInv, EventsAccounted, WorkerAccounts, EventsOf, Plain, Behind, Noted, Kept
  <1>2. ASSUME NEW w \in Workers, Take(w)
        PROVE  AccountInv'
    <2>1. PICK m \in queue : job' = [job EXCEPT ![w] = m]
      BY <1>2 DEF Take
    <2>2. /\ job'[w].events \in Batches
          /\ pc'[w] = "read" /\ pos'[w] = 1 /\ tx' = tx
          /\ tx[w].rows = {}
      BY <1>2, <2>1 DEF Take, TypeOK, Jobs, AccountInv, WorkerAccounts
    <2>3. \A i \in Plain(job'[w].events) : ~(i <= 0)
      BY <2>2, BatchType DEF Plain
    <2>4. WorkerAccounts(w)'
      BY <2>2, <2>3 DEF WorkerAccounts, Behind, AtEvent
    <2>5. QED
      BY <1>2, <2>1, <2>4, AccountStep DEF Take, TypeOK
  <1>3. ASSUME NEW w \in Workers, ReadEvent(w) \/ KeepStatus(w) \/ ApplyStatus(w) \/ OptOut(w)
        PROVE  AccountInv'
    <2>1. /\ pc[w] \in AtEvent /\ pc'[w] \in AtEvent
          /\ UNCHANGED <<tracker, accepted, job, pos>>
          /\ \A v \in Workers \ {w} : pc'[v] = pc[v]
      BY <1>3 DEF ReadEvent, KeepStatus, ApplyStatus, OptOut, AtEvent, TypeOK
    <2>2. tx'[w].rows = tx[w].rows /\ \A v \in Workers \ {w} : tx'[v] = tx[v]
      BY <1>3 DEF ReadEvent, KeepStatus, ApplyStatus, OptOut, TypeOK
    <2>3. WorkerAccounts(w)'
      BY <2>1, <2>2 DEF AccountInv, WorkerAccounts, EventsOf, Plain, Behind, AtEvent, Noted, Kept
    <2>4. QED
      BY <2>1, <2>2, <2>3, AccountStep
  <1>4. ASSUME NEW w \in Workers, Ack(w)
        PROVE  AccountInv'
    <2>1. /\ pc'[w] = "idle" /\ job'[w] = NoJob /\ tx' = tx /\ tx[w].rows = {}
          /\ UNCHANGED <<tracker, accepted>>
          /\ \A v \in Workers \ {w} : pc'[v] = pc[v] /\ job'[v] = job[v] /\ pos'[v] = pos[v]
      BY <1>4 DEF Ack, TypeOK, AccountInv, WorkerAccounts
    <2>2. WorkerAccounts(w)'
      BY <2>1 DEF WorkerAccounts, Plain, NoJob
    <2>3. QED
      BY <2>1, <2>2, AccountStep
  <1>5. ASSUME NEW w \in Workers,
               SkipEvent(w) \/ Record(w) \/ RecordConflict(w) \/ Commit(w)
        PROVE  AccountInv'
    BY <1>5, SkipAccounts, RecordAccounts, ConflictAccounts, CommitAccounts
  <1>6. ASSUME NEW w \in Workers,
               ReplyConflict(w) \/ DbError(w) \/ Crash(w) \/ DeadlockVictim(w)
        PROVE  AccountInv'
    BY <1>6, DropAccounts DEF ReplyConflict, DbError, Crash, DeadlockVictim, Retry
  <1>7. QED
    BY <1>1, <1>2, <1>3, <1>4, <1>5, <1>6 DEF Next, Step

\* While the provider repeats its events in the batches it first posted them
\* in, every event of a batch whose task ended normally is stored: retries,
\* crashes, lost messages and the rollback on a duplicate key lose none.
\* (Without that hypothesis the run EmailEventsRegrouped finds one lost.)
THEOREM BatchesAccounted ==
    ASSUME GroupedAlike
    PROVE  Spec => []EventsAccounted
  <1>1. AccountInv => EventsAccounted
    BY DEF AccountInv
  <1>2. TypeOK /\ AccountInv /\ [Next]_vars => AccountInv'
    BY AccountNext
  <1>3. QED
    BY <1>1, <1>2, AccountInit, Typed, PTL DEF Spec
=============================================================================
