--------------------------- MODULE PromptVersions ---------------------------
(***************************************************************************)
(* The versions of one LLM prompt (src/src/services/prompt_versioning.py   *)
(* and its API): created, updated to a next version, rolled back.  Each    *)
(* request is a transaction that reads flags without a lock and writes the *)
(* ones it changed; (name, version) is unique.                             *)
(***************************************************************************)
EXTENDS Naturals, FiniteSets

CONSTANTS
    Workers,       \* processes that serve requests
    MaxVersion     \* bound: versions of the prompt

PromptAssumption == MaxVersion \in Nat \ {0}

Versions == 1..MaxVersion

VARIABLES
    stored,    \* versions that have a row
    active,    \* those whose row is_active
    txn,       \* the open transaction of each worker
    raced,     \* a transaction was overtaken, and no rollback has come alone since
    back       \* a rollback was committed

db   == <<stored, active>>
vars == <<db, txn, raced, back>>

\* alone: no other transaction has committed since this one began.
NoTxn == [pc |-> "idle", version |-> 0, on |-> FALSE, off |-> {}, alone |-> TRUE]
Txn   == [pc : {"idle", "create", "update", "target", "rollback"},
          version : 0..MaxVersion, on : BOOLEAN, off : SUBSET Versions, alone : BOOLEAN]

Init ==
    /\ stored = {}
    /\ active = {}
    /\ txn = [w \in Workers |-> NoTxn]
    /\ raced = FALSE
    /\ back = FALSE

Step(w, t) ==
    /\ txn' = [txn EXCEPT ![w] = t]
    /\ UNCHANGED <<db, raced, back>>

\* Everyone else has been overtaken.
End(w) ==
    txn' = [v \in Workers |-> IF v = w \/ txn[v] = NoTxn THEN NoTxn
                              ELSE [txn[v] EXCEPT !.alone = FALSE]]

-----------------------------------------------------------------------------
(* create_prompt and update_prompt                                         *)

BeginCreate(w) ==
    /\ txn[w].pc = "idle"
    /\ stored = {}
    /\ Step(w, [NoTxn EXCEPT !.pc = "create", !.version = 1])

\* A version that is there already fails on the unique key.
CommitCreate(w) ==
    /\ txn[w].pc = "create"
    /\ 1 \notin stored
    /\ stored' = {1}
    /\ active' = {1}
    /\ raced' = (raced \/ ~txn[w].alone)
    /\ End(w)
    /\ UNCHANGED back

\* get_active_prompt raises on two active rows and finds none on none.
BeginUpdate(w) ==
    /\ txn[w].pc = "idle"
    /\ \E v \in 1..(MaxVersion - 1) :
          /\ active = {v}
          /\ Step(w, [NoTxn EXCEPT !.pc = "update", !.version = v])

ReplaceOld(w) ==             \* wrong on purpose: the row of the old version is reused
    LET v == txn[w].version
    IN  /\ txn[w].pc = "update"
        /\ v + 1 \notin stored
        /\ stored' = (stored \ {v}) \cup {v + 1}
        /\ active' = (active \ {v}) \cup {v + 1}
        /\ raced' = (raced \/ ~txn[w].alone)
        /\ End(w)
        /\ UNCHANGED back

CommitUpdate(w) ==
    LET v == txn[w].version
    IN  /\ txn[w].pc = "update"
        /\ v + 1 \notin stored
        /\ stored' = stored \cup {v + 1}
        /\ active' = (active \ {v}) \cup {v + 1}
        /\ raced' = (raced \/ ~txn[w].alone)
        /\ End(w)
        /\ UNCHANGED back

-----------------------------------------------------------------------------
(* rollback_prompt                                                         *)

\* The target's row first; a second query does not refresh it.
BeginRollback(w) ==
    /\ txn[w].pc = "idle"
    /\ \E v \in stored :
          Step(w, [NoTxn EXCEPT !.pc = "target", !.version = v, !.on = v \in active])

ReadNewest(w) ==             \* wrong on purpose: switches off one version only
    LET t == txn[w]
    IN  /\ t.pc = "target"
        /\ Step(w, [t EXCEPT !.pc = "rollback",
                             !.off = {v \in active \ {t.version} : \A u \in active : u <= v}])

ReadOthers(w) ==
    LET t == txn[w]
    IN  /\ t.pc = "target"
        /\ Step(w, [t EXCEPT !.pc = "rollback", !.off = active \ {t.version}])

\* Only flags that differ from what was read are written.
CommitRollback(w) ==
    LET t == txn[w]
    IN  /\ t.pc = "rollback"
        /\ active' = (active \ t.off) \cup (IF t.on THEN {} ELSE {t.version})
        /\ raced' = ~t.alone
        /\ back' = TRUE
        /\ End(w)
        /\ UNCHANGED stored

\* A refused statement, a lost connection, a crash.
Abort(w) ==
    /\ txn[w].pc # "idle"
    /\ Step(w, NoTxn)

-----------------------------------------------------------------------------
Next ==
    \E w \in Workers :
        \/ BeginCreate(w) \/ CommitCreate(w)
        \/ BeginUpdate(w) \/ CommitUpdate(w)
        \/ BeginRollback(w) \/ ReadOthers(w) \/ CommitRollback(w)
        \/ Abort(w)

Spec == Init /\ [][Next]_vars

-----------------------------------------------------------------------------
TypeOK ==
    /\ stored \subseteq Versions
    /\ active \subseteq stored
    /\ txn \in [Workers -> Txn]
    /\ raced \in BOOLEAN /\ back \in BOOLEAN

\* Requests that do not overlap leave exactly one version active, and after
\* requests that did, when two versions or none may be active, one rollback
\* with nothing in between puts it right
\* (services/prompt_versioning.py, update_prompt and rollback_prompt).
OneActive == stored # {} /\ ~raced => \E v \in stored : active = {v}

\* An update that nothing has overtaken meets the unique key only after a
\* rollback, which may leave a version active whose next one is there already;
\* every update of that version is refused then
\* (services/prompt_versioning.py, update_prompt).
RefusalsExplained ==
    \A w \in Workers :
        txn[w].pc = "update" /\ txn[w].version + 1 \in stored => back \/ ~txn[w].alone

=============================================================================
