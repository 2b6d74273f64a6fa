------------------------------- MODULE Access -------------------------------
(***************************************************************************)
(* One API client and its bearer tokens (src/src/services/auth_service.py, *)
(* api/auth.py, api/routers/auth.py).  A request checks the client in one  *)
(* transaction and stores the token it makes in another; the client may be *)
(* deactivated in between.  A token is judged by its signature and its     *)
(* hour alone.  Left out: the legacy key; the rotation of the secret, on   *)
(* which no token and no refresh depends; and the revocation of single     *)
(* tokens, which no endpoint offers and no check asks for.                 *)
(***************************************************************************)
EXTENDS Naturals, Sequences, FiniteSets

CONSTANTS
    Workers,      \* processes that serve requests
    Scopes,       \* VALID_SCOPES
    Lifetime,     \* how long a token lives
    Never,        \* not deactivated
    MaxTime,      \* bound: the clock
    MaxTokens     \* bound: tokens made

AccessAssumption ==
    /\ {"leads:read", "admin:all"} \subseteq Scopes
    /\ Lifetime \in Nat \ {0} /\ MaxTime \in Nat /\ Never \notin Nat
    /\ MaxTokens \in Nat /\ IsFiniteSet(Workers)

VARIABLES
    now,      \* the clock
    client,   \* the row of api_clients
    tokens,   \* tokens the client holds, rows of api_tokens
    txn       \* the request of each worker

vars == <<now, client, tokens, txn>>

\* deactivated: when; underway: requests that had found the client active then.
Client == [scopes : SUBSET Scopes, deactivated : Nat \cup {Never},
           underway : 0..Cardinality(Workers)]
\* late: made when the client was deactivated already; after: the token that was
\* refreshed was late.
Token == [scopes : SUBSET Scopes, expires : Nat, late : BOOLEAN, after : BOOLEAN]

NoTxn == [pc |-> "idle"]

Init ==
    /\ now = 0
    /\ client \in [scopes : SUBSET Scopes, deactivated : {Never}, underway : {0}]
    /\ tokens = <<>>
    /\ txn = [w \in Workers |-> NoTxn]

Step(w, t) == txn' = [txn EXCEPT ![w] = t]

Active == client.deactivated = Never

Tick ==
    /\ now < MaxTime
    /\ now' = now + 1
    /\ UNCHANGED <<client, tokens, txn>>

-----------------------------------------------------------------------------
\* verify_token, the bearer part of require_auth.
Accepted(token) == now < token.expires

Requested(requested) == IF requested = {} THEN client.scopes ELSE requested    \* wrong on purpose

\* What was asked for and is allowed, or all of it.
Effective(requested) == IF requested = {} THEN client.scopes ELSE requested \cap client.scopes

\* POST /token: authenticate_client, committed with last_used_at.
Authenticate(w) ==
    /\ txn[w].pc = "idle"
    /\ Active
    /\ \E requested \in SUBSET Scopes :
          Step(w, [pc |-> "persist", scopes |-> Effective(requested), after |-> FALSE])
    /\ UNCHANGED <<now, client, tokens>>

\* POST /token/refresh with a token that is still good.
Present(w) ==
    /\ txn[w].pc = "idle"
    /\ \E i \in {k \in DOMAIN tokens : Accepted(tokens[k])} :
          Step(w, [pc |-> "refresh", scopes |-> tokens[i].scopes, after |-> tokens[i].late])
    /\ UNCHANGED <<now, client, tokens>>

AnyClient == TRUE    \* wrong on purpose

\* Then the client is looked up.
MayRefresh == Active

CheckClient(w) ==
    /\ txn[w].pc = "refresh"
    /\ MayRefresh
    /\ Step(w, [txn[w] EXCEPT !.pc = "persist"])
    /\ UNCHANGED <<now, client, tokens>>

\* create_token and persist_token.
Persist(w) ==
    LET t == txn[w]
    IN  /\ t.pc = "persist"
        /\ Len(tokens) < MaxTokens
        /\ tokens' = Append(tokens, [scopes |-> t.scopes, expires |-> now + Lifetime,
                                     late |-> ~Active, after |-> t.after])
        /\ Step(w, NoTxn)
        /\ UNCHANGED <<now, client>>

\* Refused, an error, a crash: with or without the token stored, the caller
\* gets none.
Fail(w) ==
    /\ txn[w].pc # "idle"
    /\ Step(w, NoTxn)
    /\ UNCHANGED <<now, client, tokens>>

-----------------------------------------------------------------------------
\* By administrators.  The first one counts; nothing makes a client active
\* again.
Deactivate ==
    /\ Active
    /\ client' = [client EXCEPT
                    !.deactivated = now,
                    !.underway = Cardinality({w \in Workers : txn[w].pc = "persist"})]
    /\ UNCHANGED <<now, tokens, txn>>

Next ==
    \/ Tick \/ Deactivate
    \/ \E w \in Workers :
          \/ Authenticate(w) \/ Present(w) \/ CheckClient(w) \/ Persist(w)
          \/ Fail(w)

Spec == Init /\ [][Next]_vars

-----------------------------------------------------------------------------
TypeOK ==
    /\ now \in 0..MaxTime
    /\ client \in Client
    /\ tokens \in Seq(Token)
    /\ \A w \in Workers : txn[w].pc \in {"idle", "refresh", "persist"}

\* Deactivation ends a client's access: a token's life after it a request gets
\* through only with a token of a request that had found the client active
\* before, there are no more of these than requests that were under way, and
\* none of them is refreshed; and no chain of refreshes carries a scope the
\* client does not have (api/routers/auth.py, issue_token and refresh_token).
DeactivationEnds ==
    /\ ~Active =>
          /\ \A i \in DOMAIN tokens :
                Accepted(tokens[i]) /\ now >= client.deactivated + Lifetime =>
                   tokens[i].late /\ ~tokens[i].after
          /\ Cardinality({i \in DOMAIN tokens : tokens[i].late}) <= client.underway
    /\ \A i \in DOMAIN tokens : tokens[i].scopes \subseteq client.scopes

=============================================================================
