--------------------------- MODULE MerchantGraph ---------------------------
(***************************************************************************)
(* The merchant graph (src/src/services/merchant_graph.py,                 *)
(* api/routers/merchant_graph.py): an entity for a restaurant, and edges   *)
(* from it to the entities that are there and share its zip code, a        *)
(* cuisine or its chain.  A request builds one restaurant or a zip code;   *)
(* it sees what is committed and what it has written itself, and the       *)
(* unique keys of both tables make one of two requests wait for the other, *)
(* then fail.                                                              *)
(***************************************************************************)
EXTENDS Naturals, Sequences, FiniteSets

CONSTANTS
    Workers,       \* requests that may be open at once
    Restaurants,
    Zips,          \* sets of restaurants of one zip code
    TypeOf,        \* the relationships the searches for peers make, in their order
    Related,       \* for each search the pairs <<a, b>>: b is found for a
    MaxPeers,      \* peers a search returns at most
    MaxBuilds      \* bound: builds that were committed

GraphAssumption ==
    /\ IsFiniteSet(Workers) /\ IsFiniteSet(Restaurants) /\ Zips \subseteq SUBSET Restaurants
    /\ Len(TypeOf) \in Nat /\ DOMAIN TypeOf = 1..Len(TypeOf)
    /\ DOMAIN Related = DOMAIN TypeOf
    /\ \A q \in DOMAIN TypeOf : Related[q] \subseteq Restaurants \X Restaurants
    /\ MaxPeers \in Nat \ {0} /\ MaxBuilds \in Nat

VARIABLES
    entities,   \* restaurants with a row of merchant_entities
    edges,      \* rows of merchant_relationships: <<source, target, type>>
    apart,      \* pairs whose last builds overlapped
    limited,    \* restaurants whose last build reached the limit
    builds,     \* builds that were committed
    txn         \* the open transaction of each worker

vars == <<entities, edges, apart, limited, builds, txn>>

Edge == Restaurants \X Restaurants \X {TypeOf[q] : q \in DOMAIN TypeOf}

NoTxn == [pc |-> "idle"]

Init ==
    /\ entities = {} /\ edges = {} /\ apart = {} /\ limited = {} /\ builds = 0
    /\ txn = [w \in Workers |-> NoTxn]

Step(w, t) == txn' = [txn EXCEPT ![w] = t]

\* Rows of the other open transactions, which a flush of the same key waits for.
Others(w) == {v \in Workers \ {w} : txn[v].pc # "idle"}
HeldEntities(w) == UNION {txn[v].entities : v \in Others(w)}
HeldEdges(w)    == UNION {txn[v].edges : v \in Others(w)}

-----------------------------------------------------------------------------
\* build_entity or build_zip_graph.
Begin(w) ==
    /\ txn[w].pc = "idle"
    /\ builds < MaxBuilds
    /\ \E rs \in Zips \cup {{r} : r \in Restaurants} :
          Step(w, [pc |-> "next", todo |-> rs, now |-> {}, query |-> 1, built |-> rs,
                   start |-> entities, entities |-> {}, edges |-> {}, limited |-> {}])
    /\ UNCHANGED <<entities, edges, apart, limited, builds>>

\* ensure_entity of a restaurant, in the order the database returns them.  Its
\* entity is as it was made when it is there.
Find(w) ==
    LET t == txn[w]
    IN  /\ t.pc = "next"
        /\ \E r \in t.todo :
              Step(w, [t EXCEPT !.pc = IF r \in entities \cup t.entities THEN "link" ELSE "make",
                                !.todo = @ \ {r}, !.now = {r}, !.query = 1])
        /\ UNCHANGED <<entities, edges, apart, limited, builds>>

\* With a row of the restaurant committed since, the flush fails.
Make(w) ==
    LET t == txn[w]
    IN  /\ t.pc = "make"
        /\ t.now \cap (entities \cup HeldEntities(w)) = {}
        /\ Step(w, [t EXCEPT !.pc = "link", !.entities = @ \cup t.now])
        /\ UNCHANGED <<entities, edges, apart, limited, builds>>

CommittedOnly(t) == entities    \* wrong on purpose

\* The entities a search of the transaction sees.
Visible(t) == entities \cup t.entities

Found(t, r, q) == {p \in Visible(t) \ {r} : <<r, p>> \in Related[q]}

\* What a search may return: a limit without an order.
Returned(found) ==
    {ps \in SUBSET found :
        Cardinality(ps) = IF Cardinality(found) > MaxPeers THEN MaxPeers
                          ELSE Cardinality(found)}

\* build_relationships_for_entity: the searches, one after the other, and the
\* edges that are not there.
Link(w) ==
    LET t == txn[w]
        q == t.query
    IN  /\ t.pc = "link" /\ q <= Len(TypeOf)
        /\ \E r \in t.now :
           \E peers \in Returned(Found(t, r, q)) :
              LET new == {<<r, p, TypeOf[q]>> : p \in peers} \ (edges \cup t.edges)
              IN  /\ new \cap HeldEdges(w) = {}
                  /\ Step(w, [t EXCEPT !.query = q + 1, !.edges = @ \cup new,
                                       !.limited = IF peers = Found(t, r, q) THEN @
                                                   ELSE @ \cup {r}])
        /\ UNCHANGED <<entities, edges, apart, limited, builds>>

\* On to the next restaurant of the zip code.
Linked(w) ==
    /\ txn[w].pc = "link" /\ txn[w].query > Len(TypeOf)
    /\ Step(w, [txn[w] EXCEPT !.pc = "next"])
    /\ UNCHANGED <<entities, edges, apart, limited, builds>>

Commit(w) ==
    LET t == txn[w]
        pairs(others) == {{a, b} : a \in t.built, b \in others}
    IN  /\ t.pc = "next" /\ t.todo = {}
        /\ entities' = entities \cup t.entities
        /\ edges' = edges \cup t.edges
        /\ apart' = (apart \ pairs(t.start)) \cup pairs(entities \ t.start)
        /\ limited' = (limited \ t.built) \cup t.limited
        /\ builds' = builds + 1
        /\ Step(w, NoTxn)

\* A key that was committed meanwhile, a deadlock, or any other error.
Rollback(w) ==
    /\ txn[w].pc # "idle"
    /\ Step(w, NoTxn)
    /\ UNCHANGED <<entities, edges, apart, limited, builds>>

Next ==
    \E w \in Workers :
        \/ Begin(w) \/ Find(w) \/ Make(w) \/ Link(w) \/ Linked(w)
        \/ Commit(w) \/ Rollback(w)

Spec == Init /\ [][Next]_vars

-----------------------------------------------------------------------------
TypeOK ==
    /\ entities \subseteq Restaurants /\ limited \subseteq Restaurants
    /\ edges \subseteq Edge
    /\ apart \subseteq SUBSET Restaurants
    /\ builds \in 0..(MaxBuilds + Cardinality(Workers))
    /\ \A w \in Workers : txn[w].pc \in {"idle", "next", "make", "link"}

\* query_graph: the edges in both directions.
Connected(a, b, type) == {<<a, b, type>>, <<b, a, type>>} \cap edges # {}

\* An edge leads from one entity to another, and two entities that find each
\* other are connected, whichever was built first, unless their last builds
\* overlapped or the search was cut off
\* (services/merchant_graph.py, build_relationships_for_entity).
GraphLinksPeers ==
    /\ \A e \in edges : {e[1], e[2]} \subseteq entities /\ e[1] # e[2]
    /\ \A q \in DOMAIN TypeOf : \A a, b \in entities :
          a # b /\ {<<a, b>>, <<b, a>>} \subseteq Related[q] =>
              \/ Connected(a, b, TypeOf[q])
              \/ {a, b} \in apart
              \/ {a, b} \cap limited # {}

=============================================================================
