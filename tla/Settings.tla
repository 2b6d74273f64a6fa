------------------------------ MODULE Settings ------------------------------
(***************************************************************************)
(* One entry of the configuration registry                                 *)
(* (src/src/services/configuration.py and its API): its value, the numbered*)
(* history of its changes and the overrides of its scopes.  A request      *)
(* reads the entry and then counts its versions, without a lock; the unique*)
(* key of the entry refuses a second insert, nothing refuses a second      *)
(* version of one number.  Secrecy only changes how an entry is listed, and*)
(* is left out.                                                            *)
(***************************************************************************)
EXTENDS Naturals, Sequences

CONSTANTS
    Workers,      \* processes that serve requests
    Values,       \* values a request may carry: <<type, what>>
    Scopes,       \* scopes an override may name
    Missing,      \* no entry, no value, no data_type in a request
    MaxVersions   \* bound: rows of config_versions

Types == {"string", "int", "float", "bool", "json"}

SettingAssumption ==
    /\ \A v \in Values : v[1] \in Types
    /\ Missing \notin Values /\ Missing \notin Types
    /\ Missing \notin [type : Types, value : Values]
    /\ MaxVersions \in Nat

VARIABLES
    config,      \* the row of config_registry
    history,     \* rows of config_versions, in the order of their commits
    overrides,   \* rows of config_overrides: [scope, value], one per scope
    txn          \* the open transaction of each worker

vars == <<config, history, overrides, txn>>

\* asked: the data_type of the request; read, seen: the versions committed when
\* the entry was read and when they were counted.
Version == [number : Nat, old : Values \cup {Missing}, new : Values, asked : Types,
            read : Nat, seen : Nat]

NoTxn == [pc |-> "idle"]

Init ==
    /\ config = Missing
    /\ history = <<>>
    /\ overrides = {}
    /\ txn = [w \in Workers |-> NoTxn]

\* An int is a float as well.
Valid(type, value) == value[1] = type \/ (type = "float" /\ value[1] = "int")

\* The type the request names, or that of the entry, or "string".
Resolved(asked) ==
    CASE asked # Missing                      -> asked
      [] asked = Missing /\ config # Missing  -> config.type
      [] asked = Missing /\ config = Missing  -> "string"

NextNumber == Len(history) + 1

\* set_config reads the entry; a new one begins with version 1.
BeginSet(w) ==
    /\ txn[w].pc = "idle"
    /\ \E value \in Values, asked \in Types \cup {Missing} :
          /\ Valid(Resolved(asked), value)
          /\ txn' = [txn EXCEPT ![w] =
                       [pc |-> IF config = Missing THEN "insert" ELSE "count",
                        type |-> Resolved(asked),
                        version |-> [number |-> 1,
                                     old |-> IF config = Missing THEN Missing ELSE config.value,
                                     new |-> value, asked |-> Resolved(asked),
                                     read |-> Len(history), seen |-> 0]]]
    /\ UNCHANGED <<config, history, overrides>>

\* A statement of its own: it counts what was committed since the entry was read.
CountVersions(w) ==
    /\ txn[w].pc = "count"
    /\ txn' = [txn EXCEPT ![w].pc = "update", ![w].version.number = NextNumber,
                          ![w].version.seen = Len(history)]
    /\ UNCHANGED <<config, history, overrides>>

\* uq_config_namespace_key
CommitInsert(w) ==
    LET t == txn[w]
    IN  /\ t.pc = "insert"
        /\ config = Missing
        /\ Len(history) < MaxVersions
        /\ config' = [type |-> t.type, value |-> t.version.new]
        /\ history' = Append(history, t.version)
        /\ txn' = [txn EXCEPT ![w] = NoTxn]
        /\ UNCHANGED overrides

WithoutVersion(w) ==    \* wrong on purpose: the history is not written
    /\ txn[w].pc = "update"
    /\ config' = [config EXCEPT !.value = txn[w].version.new]
    /\ txn' = [txn EXCEPT ![w] = NoTxn]
    /\ UNCHANGED <<history, overrides>>

\* The type of the entry stays.  A value equal to the one that was read makes
\* no UPDATE.
CommitUpdate(w) ==
    LET t == txn[w]
    IN  /\ t.pc = "update"
        /\ Len(history) < MaxVersions
        /\ config' = IF t.version.new = t.version.old THEN config
                     ELSE [config EXCEPT !.value = t.version.new]
        /\ history' = Append(history, t.version)
        /\ txn' = [txn EXCEPT ![w] = NoTxn]
        /\ UNCHANGED overrides

\* Values of overrides are not validated; uq_config_override_scope.
CreateOverride(w) ==
    /\ txn[w].pc = "idle"
    /\ config # Missing
    /\ \E scope \in Scopes, value \in Values :
          /\ \A o \in overrides : o.scope # scope
          /\ overrides' = overrides \cup {[scope |-> scope, value |-> value]}
    /\ UNCHANGED <<config, history, txn>>

\* An error, the unique key, a crash.
Rollback(w) ==
    /\ txn[w].pc # "idle"
    /\ txn' = [txn EXCEPT ![w] = NoTxn]
    /\ UNCHANGED <<config, history, overrides>>

Next ==
    \E w \in Workers :
        \/ BeginSet(w) \/ CountVersions(w) \/ CommitInsert(w) \/ CommitUpdate(w)
        \/ CreateOverride(w)
        \/ Rollback(w)

Spec == Init /\ [][Next]_vars

-----------------------------------------------------------------------------
\* What get_config answers for a scope.
Effective(scope) ==
    IF \E o \in overrides : o.scope = scope
    THEN (CHOOSE o \in overrides : o.scope = scope).value
    ELSE config.value

TypeOK ==
    /\ config = Missing \/ config \in [type : Types, value : Values]
    /\ history \in Seq(Version)
    /\ overrides \subseteq [scope : Scopes, value : Values]
    /\ \A w \in Workers :
          /\ txn[w].pc \in {"idle", "insert", "count", "update"}
          /\ txn[w].pc # "idle" => txn[w].version \in Version

\* The history of an entry explains its value: a change has a higher number
\* than those it counted, one that overlapped none since it read the entry
\* starts from the value the one before it left, and stays the value until the
\* next; and a reader gets a value of another type
\* than the entry's only through an override, or after a request that named
\* another type (services/configuration.py, set_config and get_config).
Apart(i) == history[i].read = i - 1
HistoryTellsValue ==
    /\ \A i, j \in DOMAIN history :
          i < j /\ history[j].seen >= i => history[j].number > history[i].number
    /\ \A j \in DOMAIN history :
          j > 1 /\ Apart(j) /\ Apart(j - 1) => history[j].old = history[j - 1].new
    /\ history # <<>> /\ Apart(Len(history)) => config.value = history[Len(history)].new
    /\ \A scope \in Scopes :
          config # Missing /\ ~Valid(config.type, Effective(scope)) =>
             \/ \E o \in overrides : o.scope = scope
             \/ \E i \in DOMAIN history : history[i].asked # config.type

=============================================================================
