----------------------------- MODULE RateLimiter ----------------------------
(***************************************************************************)
(* The sliding window of one API client (src/src/utils/rate_limiter.py and *)
(* api/rate_limit_dep.py): a sorted set in Redis with the time stamps of   *)
(* its requests, the refused ones included.  A request reads its own clock *)
(* and then runs one Redis transaction, so that windows of several         *)
(* processes interleave.  Two requests of one stamp are one member of the  *)
(* set.                                                                    *)
(***************************************************************************)
EXTENDS Integers, Sequences, FiniteSets

CONSTANTS
    Workers,       \* processes that serve requests
    Limit,         \* rate_limit_per_minute of the client's row
    Default,       \* the limit when the row cannot be read
    Window,        \* window_seconds, in ticks of the clock
    MaxTime,       \* bound: the clock
    MaxRequests    \* bound: requests

LimiterAssumption ==
    /\ Limit \in Nat /\ Default \in Nat /\ Window \in Nat \ {0}
    /\ MaxTime \in Nat /\ MaxRequests \in Nat

VARIABLES
    now,       \* the clock
    bucket,    \* members of the sorted set
    touched,   \* when its time to live was set last
    log,       \* requests, in the order in which they ran
    txn        \* the request of each worker

vars == <<now, bucket, touched, log, txn>>

\* at: its stamp; ran: when Redis ran it; down: Redis did not answer.
Request == [at : Nat, ran : Nat, limit : {Limit, Default}, allowed : BOOLEAN, down : BOOLEAN]

NoTxn == [pc |-> "idle"]

Init ==
    /\ now = 0
    /\ bucket = {}
    /\ touched = 0
    /\ log = <<>>
    /\ txn = [w \in Workers |-> NoTxn]

Tick ==
    /\ now < MaxTime
    /\ now' = now + 1
    /\ UNCHANGED <<bucket, touched, log, txn>>

\* The limit is looked up, then the clock is read.
Begin(w) ==
    /\ txn[w].pc = "idle"
    /\ Len(log) + Cardinality({v \in Workers : txn[v].pc = "run"}) < MaxRequests
    /\ \E limit \in {Limit, Default} :
          txn' = [txn EXCEPT ![w] = [pc |-> "run", at |-> now, limit |-> limit]]
    /\ UNCHANGED <<now, bucket, touched, log>>

StampsKept(stamps, at) == {s \in stamps : s >= at - Window}    \* wrong on purpose

\* Stamps at the edge of the window are pruned.
Kept(stamps, at) == {s \in stamps : s > at - Window}

\* The set lives for a second more than the window.
Alive == IF now > touched + Window THEN {} ELSE bucket

Run(w) ==
    LET t     == txn[w]
        count == Kept(Alive, t.at) \cup {t.at}
    IN  /\ t.pc = "run"
        /\ bucket' = count
        /\ touched' = now
        /\ log' = Append(log, [at |-> t.at, ran |-> now, limit |-> t.limit,
                               allowed |-> Cardinality(count) <= t.limit, down |-> FALSE])
        /\ txn' = [txn EXCEPT ![w] = NoTxn]
        /\ UNCHANGED now

\* Without Redis every request is let through.
RunDown(w) ==
    LET t == txn[w]
    IN  /\ t.pc = "run"
        /\ log' = Append(log, [at |-> t.at, ran |-> now, limit |-> t.limit,
                               allowed |-> TRUE, down |-> TRUE])
        /\ txn' = [txn EXCEPT ![w] = NoTxn]
        /\ UNCHANGED <<now, bucket, touched>>

Next == Tick \/ \E w \in Workers : Begin(w) \/ Run(w) \/ RunDown(w)

Spec == Init /\ [][Next]_vars

-----------------------------------------------------------------------------
TypeOK ==
    /\ now \in 0..MaxTime /\ touched \in 0..MaxTime
    /\ bucket \subseteq 0..MaxTime
    /\ log \in Seq(Request)
    /\ \A w \in Workers : txn[w].pc \in {"idle", "run"}

\* The window tells who gets in: a request that runs when its clock was read is
\* let through exactly if the requests of the window before it, itself and the
\* refused ones included, are no more than the limit, those of one stamp
\* counted once; in between, the window may have been pruned by requests that
\* ran ahead of their turn, or late (utils/rate_limiter.py, check_rate_limit).
InWindow(i) == {log[j].at : j \in {k \in 1..i : ~log[k].down /\ log[k].at > log[i].at - Window}}
WindowTellsWho ==
    \A i \in DOMAIN log :
        ~log[i].down /\ log[i].ran = log[i].at =>
            (log[i].allowed <=> Cardinality(InWindow(i)) <= log[i].limit)

=============================================================================
