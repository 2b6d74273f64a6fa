-------------------------- MODULE DerivedDataProofs --------------------------
(***************************************************************************)
(* Proofs about what is made of the crawled restaurants and of visits, for *)
(* every value of the constants: first of each service by itself, then of  *)
(* their composition.                                                      *)
(***************************************************************************)
EXTENDS DerivedData, SequenceTheorems, FiniteSetTheorems, WellFoundedInduction, TLAPS

-----------------------------------------------------------------------------
(* The merchant graph.                                                     *)

Build == [pc : {"next", "make", "link"}, todo : SUBSET Merchants, now : SUBSET Merchants,
          query : Nat \ {0}, built : SUBSET Merchants, start : SUBSET Merchants,
          entities : SUBSET Merchants, edges : SUBSET Graph!Edge,
          limited : SUBSET Merchants]

Searches == DOMAIN TypeOf

\* The restaurants of a build whose searches have been made.
Ready(t) == t.built \ (t.todo \cup IF t.pc = "next" THEN {} ELSE t.now)

\* The edge from a to b is there, or the search for the peers of a was cut off.
LeadsTo(t, a, b, q) == <<a, b, TypeOf[q]>> \in edges \cup t.edges \/ a \in t.limited

\* A build has linked what is ready to what was there when it began, and to
\* one another; and what it has at hand by the searches it has made.
Sound(t) ==
    /\ t.entities \cup t.todo \subseteq t.built /\ t.start \subseteq entities
    /\ Ready(t) \subseteq entities \cup t.entities
    /\ \A e \in t.edges : {e[1], e[2]} \subseteq entities \cup t.entities /\ e[1] # e[2]
    /\ t.pc # "next" => t.now \subseteq t.built /\ \E r \in Merchants : t.now = {r}
    /\ t.pc = "make" => t.query = 1
    /\ t.pc = "link" => t.now \subseteq entities \cup t.entities
    /\ \A a \in Ready(t), b \in t.start, q \in Searches :
          a # b /\ <<a, b>> \in Related[q] => LeadsTo(t, a, b, q)
    /\ \A a, b \in Ready(t), q \in Searches :
          a # b /\ {<<a, b>>, <<b, a>>} \subseteq Related[q]
              => LeadsTo(t, a, b, q) \/ LeadsTo(t, b, a, q)
    /\ t.pc = "link" =>
          \A a \in t.now, b \in t.start \cup Ready(t), q \in Searches :
              q < t.query /\ a # b /\ <<a, b>> \in Related[q] => LeadsTo(t, a, b, q)

GraphInv ==
    /\ entities \subseteq Merchants
    /\ graphTxn \in [Workers -> Build \cup {Graph!NoTxn}]
    /\ \A w \in Workers : graphTxn[w].pc # "idle" => Sound(graphTxn[w])
    /\ Graph!GraphLinksPeers

\* Rows that others add leave a build sound.
LEMMA SoundKept ==
    ASSUME NEW t, Sound(t), entities \subseteq entities', edges \subseteq edges'
    PROVE  Sound(t)'
  <1>1. Ready(t)' = Ready(t)
    BY DEF Ready
  <1>2. \A a, b, q : LeadsTo(t, a, b, q) => LeadsTo(t, a, b, q)'
    BY DEF LeadsTo
  <1>3. \A a, b, q : <<a, b, TypeOf[q]>> \in edges \cup t.edges
                        => <<a, b, TypeOf[q]>> \in edges' \cup t.edges
    OBVIOUS
  <1>4. \A a \in Ready(t), b \in t.start, q \in Searches :
           a # b /\ <<a, b>> \in Related[q] => LeadsTo(t, a, b, q)'
    BY <1>2 DEF Sound
  <1>5. \A a, b \in Ready(t), q \in Searches :
           a # b /\ {<<a, b>>, <<b, a>>} \subseteq Related[q]
               => LeadsTo(t, a, b, q)' \/ LeadsTo(t, b, a, q)'
    BY <1>2 DEF Sound
  <1>6. t.pc = "link" =>
          \A a \in t.now, b \in t.start \cup Ready(t), q \in Searches :
              q < t.query /\ a # b /\ <<a, b>> \in Related[q] => LeadsTo(t, a, b, q)'
    BY <1>2 DEF Sound
  <1>7. QED
    BY <1>1, <1>4, <1>5, <1>6 DEF Sound, Searches

LEMMA GraphInit == Graph!Init => GraphInv
  BY DEF Graph!Init, GraphInv, Graph!NoTxn, Graph!GraphLinksPeers

\* A build that goes on, begins or ends commits nothing.
LEMMA GraphMoves ==
    ASSUME GraphInv, NEW w \in Workers, NEW t \in Build \cup {Graph!NoTxn},
           t.pc # "idle" => Sound(t),
           graphTxn' = [graphTxn EXCEPT ![w] = t],
           UNCHANGED <<entities, edges, apart, limited, builds>>
    PROVE  GraphInv'
  <1>1. /\ graphTxn' \in [Workers -> Build \cup {Graph!NoTxn}] /\ graphTxn'[w] = t
        /\ \A v \in Workers \ {w} : graphTxn'[v] = graphTxn[v]
    BY DEF GraphInv
  <1>2. ASSUME NEW v \in Workers, graphTxn'[v].pc # "idle"
        PROVE  Sound(graphTxn[v])'
    <2>1. PICK u : u = graphTxn'[v]
      OBVIOUS
    <2>2. Sound(u)
      BY <1>1, <1>2, <2>1 DEF GraphInv
    <2>3. Sound(u)'
      BY <2>2, SoundKept
    <2>4. QED
      BY <2>1, <2>3 DEF Sound, Ready, LeadsTo
  <1>3. Graph!GraphLinksPeers'
    BY DEF GraphInv, Graph!GraphLinksPeers, Graph!Connected
  <1>4. QED
    BY <1>1, <1>2, <1>3 DEF GraphInv

LEMMA BeginGraph ==
    ASSUME Graph!GraphAssumption, GraphInv, NEW w \in Workers, Graph!Begin(w)
    PROVE  GraphInv'
  <1>1. PICK rs \in Areas \cup {{r} : r \in Merchants} :
            Graph!Step(w, [pc |-> "next", todo |-> rs, now |-> {}, query |-> 1, built |-> rs,
                   start |-> entities, entities |-> {}, edges |-> {}, limited |-> {}])
    BY DEF Graph!Begin
  <1>2. PICK t : t = [pc |-> "next", todo |-> rs, now |-> {}, query |-> 1, built |-> rs,
                   start |-> entities, entities |-> {}, edges |-> {}, limited |-> {}]
    OBVIOUS
  <1>3. rs \subseteq Merchants
    BY DEF Graph!GraphAssumption
  <1>4. t \in Build
    BY <1>2, <1>3 DEF Build, GraphInv
  <1>5. Ready(t) = {}
    BY <1>2 DEF Ready
  <1>6. Sound(t)
    BY <1>2, <1>5 DEF Sound
  <1>7. graphTxn' = [graphTxn EXCEPT ![w] = t]
        /\ UNCHANGED <<entities, edges, apart, limited, builds>>
    BY <1>1, <1>2 DEF Graph!Step, Graph!Begin
  <1>8. QED
    BY <1>4, <1>6, <1>7, GraphMoves

LEMMA FindGraph ==
    ASSUME Graph!GraphAssumption, GraphInv, NEW w \in Workers, Graph!Find(w)
    PROVE  GraphInv'
  <1>1. PICK t : t = graphTxn[w]
    OBVIOUS
  <1>2. t \in Build /\ t.pc = "next" /\ Sound(t)
    BY <1>1 DEF GraphInv, Graph!Find, Graph!NoTxn
  <1>3. PICK r \in t.todo :
            Graph!Step(w, [t EXCEPT !.pc = IF r \in entities \cup t.entities THEN "link"
                                           ELSE "make",
                                    !.todo = @ \ {r}, !.now = {r}, !.query = 1])
    BY <1>1 DEF Graph!Find
  <1>4. PICK at, u :
            /\ at = IF r \in entities \cup t.entities THEN "link" ELSE "make"
            /\ u = [t EXCEPT !.pc = at, !.todo = @ \ {r}, !.now = {r}, !.query = 1]
    OBVIOUS
  <1>5. /\ at \in {"next", "make", "link"} /\ r \in Merchants
        /\ t.todo \ {r} \in SUBSET Merchants /\ {r} \in SUBSET Merchants
        /\ 1 \in Nat \ {0}
    BY <1>2, <1>4 DEF Build
  <1>6. /\ u \in Build /\ u.pc = at
        /\ u.todo = t.todo \ {r} /\ u.now = {r} /\ u.query = 1
        /\ u.built = t.built /\ u.start = t.start /\ u.entities = t.entities
        /\ u.edges = t.edges /\ u.limited = t.limited
    <2>1. u = [t EXCEPT !.pc = at, !.todo = t.todo \ {r}, !.now = {r}, !.query = 1]
      BY <1>4
    <2>2. QED
      BY <1>2, <1>5, <2>1 DEF Build
  <1>7. /\ u \in Build /\ u.pc = (IF r \in entities \cup t.entities THEN "link" ELSE "make")
        /\ u.todo = t.todo \ {r} /\ u.now = {r} /\ u.query = 1
        /\ u.built = t.built /\ u.start = t.start /\ u.entities = t.entities
        /\ u.edges = t.edges /\ u.limited = t.limited /\ r \in Merchants
    BY <1>4, <1>5, <1>6
  <1>8. Ready(u) = Ready(t)
    BY <1>2, <1>7 DEF Ready
  <1>9. \A a, b, q : LeadsTo(u, a, b, q) <=> LeadsTo(t, a, b, q)
    BY <1>7 DEF LeadsTo
  <1>10. \A q \in Searches : ~(q < u.query)
    BY <1>7 DEF Graph!GraphAssumption, Searches
  <1>11. Sound(u)
    BY <1>2, <1>7, <1>8, <1>9, <1>10 DEF Sound
  <1>12. graphTxn' = [graphTxn EXCEPT ![w] = u]
         /\ UNCHANGED <<entities, edges, apart, limited, builds>>
    BY <1>3, <1>4 DEF Graph!Step, Graph!Find
  <1>13. QED
    BY <1>7, <1>11, <1>12, GraphMoves

LEMMA MakeGraph ==
    ASSUME Graph!GraphAssumption, GraphInv, NEW w \in Workers, Graph!Make(w)
    PROVE  GraphInv'
  <1>1. PICK t : t = graphTxn[w]
    OBVIOUS
  <1>2. t \in Build /\ t.pc = "make" /\ Sound(t)
    BY <1>1 DEF GraphInv, Graph!Make, Graph!NoTxn
  <1>3. PICK u : u = [t EXCEPT !.pc = "link", !.entities = @ \cup t.now]
    OBVIOUS
  <1>4. /\ u \in Build /\ u.pc = "link" /\ u.entities = t.entities \cup t.now
        /\ u.todo = t.todo /\ u.now = t.now /\ u.query = t.query
        /\ u.built = t.built /\ u.start = t.start
        /\ u.edges = t.edges /\ u.limited = t.limited
    BY <1>2, <1>3 DEF Build
  <1>5. Ready(u) = Ready(t)
    BY <1>2, <1>4 DEF Ready
  <1>6. \A a, b, q : LeadsTo(u, a, b, q) <=> LeadsTo(t, a, b, q)
    BY <1>4 DEF LeadsTo
  <1>7. \A q \in Searches : ~(q < u.query)
    BY <1>2, <1>4 DEF Graph!GraphAssumption, Searches, Sound
  <1>8. t.now \subseteq t.built
    BY <1>2 DEF Sound
  <1>9. Sound(u)
    BY <1>2, <1>4, <1>5, <1>6, <1>7, <1>8 DEF Sound
  <1>10. graphTxn' = [graphTxn EXCEPT ![w] = u]
         /\ UNCHANGED <<entities, edges, apart, limited, builds>>
    BY <1>1, <1>3 DEF Graph!Step, Graph!Make
  <1>11. QED
    BY <1>4, <1>9, <1>10, GraphMoves

\* One search: the peers it returns are linked, or it was cut off.
LEMMA LinkGraph ==
    ASSUME Graph!GraphAssumption, GraphInv, NEW w \in Workers, Graph!Link(w)
    PROVE  GraphInv'
  <1> DEFINE t == graphTxn[w]
             q == t.query
  <1>1. UNCHANGED <<entities, edges, apart, limited, builds>>
    BY DEF Graph!Link
  <1>2. \E r \in t.now : \E peers \in Graph!Returned(Graph!Found(t, r, q)) :
            LET new == {<<r, p, TypeOf[q]>> : p \in peers} \ (edges \cup t.edges)
            IN  /\ new \cap Graph!HeldEdges(w) = {}
                /\ Graph!Step(w, [t EXCEPT !.query = q + 1, !.edges = @ \cup new,
                                       !.limited = IF peers = Graph!Found(t, r, q) THEN @
                                                   ELSE @ \cup {r}])
    BY DEF Graph!Link
  <1>3. t \in Build /\ t.pc = "link" /\ Sound(t) /\ q <= Len(TypeOf) /\ q \in Nat \ {0}
    BY DEF GraphInv, Graph!Link, Graph!NoTxn, Build
  <1>4. PICK r \in t.now : \E peers \in Graph!Returned(Graph!Found(t, r, q)) :
            LET new == {<<r, p, TypeOf[q]>> : p \in peers} \ (edges \cup t.edges)
            IN  /\ new \cap Graph!HeldEdges(w) = {}
                /\ Graph!Step(w, [t EXCEPT !.query = q + 1, !.edges = @ \cup new,
                                       !.limited = IF peers = Graph!Found(t, r, q) THEN @
                                                   ELSE @ \cup {r}])
    BY <1>2
  <1>5. PICK peers \in Graph!Returned(Graph!Found(t, r, q)) :
            LET new == {<<r, p, TypeOf[q]>> : p \in peers} \ (edges \cup t.edges)
            IN  /\ new \cap Graph!HeldEdges(w) = {}
                /\ Graph!Step(w, [t EXCEPT !.query = q + 1, !.edges = @ \cup new,
                                       !.limited = IF peers = Graph!Found(t, r, q) THEN @
                                                   ELSE @ \cup {r}])
    BY <1>4
  <1>6. PICK new, cut : /\ new = {<<r, p, TypeOf[q]>> : p \in peers} \ (edges \cup t.edges)
                        /\ cut = IF peers = Graph!Found(t, r, q) THEN t.limited
                                 ELSE t.limited \cup {r}
    OBVIOUS
  <1>7. PICK u : u = [t EXCEPT !.query = q + 1, !.edges = @ \cup new, !.limited = cut]
    OBVIOUS
  <1>8. graphTxn' = [graphTxn EXCEPT ![w] = u]
    BY <1>5, <1>6, <1>7 DEF Graph!Step
  <1> HIDE DEF t, q
  <1>9. /\ peers \subseteq Graph!Found(t, r, q)
        /\ t.now = {r} /\ r \in Merchants /\ r \in entities \cup t.entities
    BY <1>3 DEF Graph!Returned, Sound
  <1>10. /\ \A p \in peers : p \in entities \cup t.entities /\ p # r /\ p \in Merchants
         /\ q \in Searches /\ TypeOf[q] \in {TypeOf[k] : k \in DOMAIN TypeOf}
    <2>1. peers \subseteq (entities \cup t.entities) \ {r}
      BY <1>9 DEF Graph!Found, Graph!Visible
    <2>2. entities \cup t.entities \subseteq Merchants
      BY <1>3 DEF Build, GraphInv
    <2>3. q \in Searches
      BY <1>3 DEF Graph!GraphAssumption, Searches
    <2>4. QED
      BY <2>1, <2>2, <2>3 DEF Searches
  <1>11. \A e \in new : \E p \in peers : e = <<r, p, TypeOf[q]>>
    BY <1>6
  <1>12. new \subseteq Graph!Edge
    BY <1>9, <1>10, <1>11 DEF Graph!Edge
  <1>13. cut \subseteq Merchants /\ t.limited \subseteq cut
        /\ (peers # Graph!Found(t, r, q) => r \in cut)
    BY <1>3, <1>6, <1>9 DEF Build
  <1>14. /\ t.edges \cup new \subseteq Graph!Edge /\ q + 1 \in Nat \ {0}
    BY <1>3, <1>12 DEF Build
  <1>15. /\ u \in Build /\ u.pc = "link" /\ u.entities = t.entities
        /\ u.todo = t.todo /\ u.now = t.now /\ u.query = q + 1
        /\ u.built = t.built /\ u.start = t.start
        /\ u.edges = t.edges \cup new /\ u.limited = cut
    BY <1>3, <1>7, <1>13, <1>14 DEF Build
  <1>16. /\ u \in Build /\ u.pc = "link" /\ u.entities = t.entities
         /\ u.todo = t.todo /\ u.now = t.now /\ u.query = q + 1
         /\ u.built = t.built /\ u.start = t.start
         /\ u.edges = t.edges \cup new
         /\ t.limited \subseteq u.limited
         /\ peers # Graph!Found(t, r, q) => r \in u.limited
    BY <1>13, <1>15
  <1>17. Ready(u) = Ready(t)
    BY <1>3, <1>16 DEF Ready
  <1>18. \A a, b, k : LeadsTo(t, a, b, k) => LeadsTo(u, a, b, k)
    BY <1>16 DEF LeadsTo
  <1>19. \A b \in t.start \cup Ready(t) : r # b /\ <<r, b>> \in Related[q]
            => LeadsTo(u, r, b, q)
    <2> SUFFICES ASSUME NEW b \in t.start \cup Ready(t), r # b, <<r, b>> \in Related[q],
                        r \notin u.limited
                 PROVE  <<r, b, TypeOf[q]>> \in edges \cup u.edges
      BY DEF LeadsTo
    <2>1. b \in Graph!Found(t, r, q)
      BY <1>3 DEF Sound, Graph!Found, Graph!Visible
    <2>2. b \in peers
      BY <1>16, <2>1
    <2>3. QED
      BY <1>6, <1>16, <2>2
  <1>20. \A a \in u.now, b \in u.start \cup Ready(u), k \in Searches :
            k < u.query /\ a # b /\ <<a, b>> \in Related[k] => LeadsTo(u, a, b, k)
    <2> SUFFICES ASSUME NEW b \in t.start \cup Ready(t), NEW k \in Searches,
                        k < q + 1, r # b, <<r, b>> \in Related[k]
                 PROVE  LeadsTo(u, r, b, k)
      BY <1>9, <1>16, <1>17
    <2>1. CASE k = q
      BY <1>19, <2>1
    <2>2. CASE k # q
      <3>1. k < q
        BY <1>3, <2>2 DEF Graph!GraphAssumption, Searches
      <3>2. QED
        BY <1>3, <1>9, <1>18, <3>1 DEF Sound, q
    <2>3. QED
      BY <2>1, <2>2
  <1>21. \A e \in u.edges : {e[1], e[2]} \subseteq entities \cup u.entities /\ e[1] # e[2]
    <2>1. ASSUME NEW e \in new
          PROVE  {e[1], e[2]} \subseteq entities \cup t.entities /\ e[1] # e[2]
      <3>1. PICK p \in peers : e = <<r, p, TypeOf[q]>>
        BY <1>11
      <3>2. e[1] = r /\ e[2] = p
        BY <3>1
      <3>3. QED
        BY <1>9, <1>10, <3>2
    <2>2. QED
      BY <1>3, <1>16, <2>1 DEF Sound
  <1>22. /\ \A a \in Ready(u), b \in u.start, k \in Searches :
              a # b /\ <<a, b>> \in Related[k] => LeadsTo(u, a, b, k)
         /\ \A a, b \in Ready(u), k \in Searches :
              a # b /\ {<<a, b>>, <<b, a>>} \subseteq Related[k]
                  => LeadsTo(u, a, b, k) \/ LeadsTo(u, b, a, k)
    BY <1>3, <1>16, <1>17, <1>18 DEF Sound
  <1>23. Sound(u)
    BY <1>3, <1>16, <1>17, <1>20, <1>21, <1>22 DEF Sound
  <1>24. QED
    BY <1>1, <1>8, <1>16, <1>23, GraphMoves

LEMMA LinkedGraph ==
    ASSUME Graph!GraphAssumption, GraphInv, NEW w \in Workers, Graph!Linked(w)
    PROVE  GraphInv'
  <1>1. PICK t : t = graphTxn[w]
    OBVIOUS
  <1>2. t \in Build /\ t.pc = "link" /\ Sound(t) /\ t.query > Len(TypeOf) /\ t.query \in Nat
    BY <1>1 DEF GraphInv, Graph!Linked, Graph!NoTxn, Build
  <1>3. PICK u : u = [t EXCEPT !.pc = "next"]
    OBVIOUS
  <1>4. /\ u \in Build /\ u.pc = "next" /\ u.entities = t.entities
        /\ u.todo = t.todo /\ u.built = t.built /\ u.start = t.start
        /\ u.edges = t.edges /\ u.limited = t.limited
    BY <1>2, <1>3 DEF Build
  <1>5. \A a, b, q : LeadsTo(u, a, b, q) <=> LeadsTo(t, a, b, q)
    BY <1>4 DEF LeadsTo
  <1>6. \A q \in Searches : q < t.query
    BY <1>2 DEF Graph!GraphAssumption, Searches
  <1>7. Ready(u) \subseteq Ready(t) \cup t.now
    BY <1>2, <1>4 DEF Ready
  <1>8. Ready(u) \subseteq entities \cup u.entities
    BY <1>2, <1>4, <1>7 DEF Sound
  <1>9. \A a \in Ready(u), b \in u.start, q \in Searches :
            a # b /\ <<a, b>> \in Related[q] => LeadsTo(u, a, b, q)
    BY <1>2, <1>4, <1>5, <1>6, <1>7 DEF Sound
  <1>10. ASSUME NEW a \in Ready(u), NEW b \in Ready(u), NEW q \in Searches, a # b,
                {<<a, b>>, <<b, a>>} \subseteq Related[q]
         PROVE  LeadsTo(u, a, b, q) \/ LeadsTo(u, b, a, q)
    <2>1. CASE a \in t.now /\ b \notin t.now
      BY <1>2, <1>5, <1>6, <1>7, <1>10, <2>1 DEF Sound
    <2>2. CASE b \in t.now /\ a \notin t.now
      BY <1>2, <1>5, <1>6, <1>7, <1>10, <2>2 DEF Sound
    <2>3. CASE a \notin t.now /\ b \notin t.now
      BY <1>2, <1>5, <1>7, <1>10, <2>3 DEF Sound
    <2>4. ~(a \in t.now /\ b \in t.now)
      BY <1>2, <1>10 DEF Sound
    <2>5. QED
      BY <2>1, <2>2, <2>3, <2>4
  <1>11. Sound(u)
    BY <1>2, <1>4, <1>8, <1>9, <1>10 DEF Sound
  <1>12. graphTxn' = [graphTxn EXCEPT ![w] = u]
         /\ UNCHANGED <<entities, edges, apart, limited, builds>>
    BY <1>1, <1>3 DEF Graph!Step, Graph!Linked
  <1>13. QED
    BY <1>4, <1>11, <1>12, GraphMoves

\* What a build commits keeps every two restaurants that find each other
\* connected: it has linked those it built to what was there when it began; the
\* others are counted as an overlap.
LEMMA CommitGraph ==
    ASSUME Graph!GraphAssumption, GraphInv, NEW w \in Workers, Graph!Commit(w)
    PROVE  GraphInv'
  <1> DEFINE Pairs(T, R) == {{a, b} : a \in T.built, b \in R}
  <1>1. PICK t : t = graphTxn[w]
    OBVIOUS
  <1>2. t \in Build /\ t.pc = "next" /\ t.todo = {} /\ Sound(t)
    BY <1>1 DEF GraphInv, Graph!Commit, Graph!NoTxn
  <1>3. /\ entities' = entities \cup t.entities
        /\ edges' = edges \cup t.edges
        /\ apart' = (apart \ Pairs(t, t.start)) \cup Pairs(t, entities \ t.start)
        /\ limited' = (limited \ t.built) \cup t.limited
        /\ graphTxn' = [graphTxn EXCEPT ![w] = Graph!NoTxn]
    BY <1>1 DEF Graph!Commit, Graph!Step
  <1>4. Ready(t) = t.built
    BY <1>2 DEF Ready
  <1>5. /\ graphTxn' \in [Workers -> Build \cup {Graph!NoTxn}]
        /\ graphTxn'[w] = Graph!NoTxn
        /\ \A v \in Workers \ {w} : graphTxn'[v] = graphTxn[v]
        /\ entities' \subseteq Merchants
    BY <1>2, <1>3 DEF GraphInv, Build
  <1>6. ASSUME NEW v \in Workers, graphTxn'[v].pc # "idle" PROVE Sound(graphTxn[v])'
    <2>1. PICK u : u = graphTxn'[v]
      OBVIOUS
    <2>2. Sound(u)
      BY <1>5, <1>6, <2>1 DEF GraphInv, Graph!NoTxn
    <2>3. Sound(u)'
      BY <1>3, <2>2, SoundKept
    <2>4. QED
      BY <2>1, <2>3 DEF Sound, Ready, LeadsTo
  <1>7. \A e \in edges' : {e[1], e[2]} \subseteq entities' /\ e[1] # e[2]
    BY <1>2, <1>3 DEF GraphInv, Graph!GraphLinksPeers, Sound
  \* A restaurant of the build and another one are accounted for anew.
  <1>8. ASSUME NEW q \in Searches, NEW a \in t.built, NEW b \in entities', a # b,
               {<<a, b>>, <<b, a>>} \subseteq Related[q]
        PROVE  \/ {<<a, b, TypeOf[q]>>, <<b, a, TypeOf[q]>>} \cap edges' # {}
               \/ {a, b} \in apart'
               \/ {a, b} \cap limited' # {}
    <2>1. CASE b \in t.built
      <3>1. LeadsTo(t, a, b, q) \/ LeadsTo(t, b, a, q)
        BY <1>2, <1>4, <1>8, <2>1 DEF Sound
      <3>2. QED
        BY <1>3, <3>1 DEF LeadsTo
    <2>2. CASE b \in t.start
      <3>1. LeadsTo(t, a, b, q)
        BY <1>2, <1>4, <1>8, <2>2 DEF Sound
      <3>2. QED
        BY <1>3, <3>1 DEF LeadsTo
    <2>3. CASE b \in entities \ t.start
      <3>1. {a, b} \in Pairs(t, entities \ t.start)
        BY <2>3
      <3>2. QED
        BY <1>3, <3>1
    <2>4. QED
      BY <1>2, <1>3, <2>1, <2>2, <2>3 DEF Sound
  <1>9. ASSUME NEW q \in Searches, NEW a \in entities', NEW b \in entities', a # b,
               {<<a, b>>, <<b, a>>} \subseteq Related[q]
        PROVE  \/ {<<a, b, TypeOf[q]>>, <<b, a, TypeOf[q]>>} \cap edges' # {}
               \/ {a, b} \in apart'
               \/ {a, b} \cap limited' # {}
    <2>1. CASE a \in t.built
      BY <1>8, <1>9, <2>1
    <2>2. CASE b \in t.built
      <3>1. {a, b} = {b, a}
        OBVIOUS
      <3>2. \/ {<<b, a, TypeOf[q]>>, <<a, b, TypeOf[q]>>} \cap edges' # {}
            \/ {b, a} \in apart'
            \/ {b, a} \cap limited' # {}
        BY <1>8, <1>9, <2>2
      <3>3. QED
        BY <3>1, <3>2
    <2>3. CASE a \notin t.built /\ b \notin t.built
      <3>1. a \in entities /\ b \in entities
        BY <1>2, <1>3, <2>3 DEF Sound
      <3>2. \/ {<<a, b, TypeOf[q]>>, <<b, a, TypeOf[q]>>} \cap edges # {}
            \/ {a, b} \in apart
            \/ {a, b} \cap limited # {}
        BY <1>9, <3>1 DEF GraphInv, Graph!GraphLinksPeers, Graph!Connected, Searches
      <3>3. {a, b} \notin Pairs(t, t.start)
        BY <2>3
      <3>4. QED
        BY <1>3, <2>3, <3>2, <3>3
    <2>4. QED
      BY <2>1, <2>2, <2>3
  <1>10. Graph!GraphLinksPeers'
    BY <1>7, <1>9 DEF Graph!GraphLinksPeers, Graph!Connected, Searches
  <1>11. QED
    BY <1>5, <1>6, <1>10 DEF GraphInv

LEMMA GraphKept ==
    ASSUME Graph!GraphAssumption, GraphInv, [Graph!Next]_(Graph!vars)
    PROVE  GraphInv'
  <1>1. CASE UNCHANGED Graph!vars
    <2>1. \A w \in Workers : Sound(graphTxn[w]) => Sound(graphTxn[w])'
      BY <1>1 DEF Graph!vars, Sound, Ready, LeadsTo, Searches
    <2>2. QED
      BY <1>1, <2>1 DEF Graph!vars, GraphInv, Graph!GraphLinksPeers, Graph!Connected
  <1>2. ASSUME NEW w \in Workers, Graph!Rollback(w) PROVE GraphInv'
    <2>1. /\ graphTxn' = [graphTxn EXCEPT ![w] = Graph!NoTxn]
          /\ UNCHANGED <<entities, edges, apart, limited, builds>>
      BY <1>2 DEF Graph!Rollback, Graph!Step
    <2>2. Graph!NoTxn.pc = "idle"
      BY DEF Graph!NoTxn
    <2>3. QED
      BY <2>1, <2>2, GraphMoves
  <1>3. QED
    BY <1>1, <1>2, BeginGraph, FindGraph, MakeGraph, LinkGraph, LinkedGraph, CommitGraph
       DEF Graph!Next

\* Entities that find each other are connected whichever was built first, for
\* any restaurants, searches and limits, unless their last builds overlapped or
\* a search was cut off; and an edge leads from one entity to another
\* (services/merchant_graph.py, build_relationships_for_entity).
THEOREM PeersAreLinked ==
    ASSUME Graph!GraphAssumption
    PROVE  Graph!Spec => []Graph!GraphLinksPeers
  <1>1. GraphInv => Graph!GraphLinksPeers
    BY DEF GraphInv
  <1>2. GraphInv /\ [Graph!Next]_(Graph!vars) => GraphInv'
    BY GraphKept
  <1>3. QED
    BY <1>1, <1>2, GraphInit, PTL DEF Graph!Spec

\* The builds that are open.
OpenBuilds == {w \in Workers : graphTxn[w].pc # "idle"}

\* A build begins as long as the bound is not reached: those that are open then
\* may still be committed.
GraphTypes ==
    /\ edges \subseteq Graph!Edge /\ limited \subseteq Merchants /\ apart \subseteq SUBSET Merchants
    /\ builds \in Nat
    /\ builds + Cardinality(OpenBuilds) <= MaxBuilds + Cardinality(Workers)

LEMMA WorkersCount ==
    ASSUME Graph!GraphAssumption
    PROVE  /\ IsFiniteSet(Workers) /\ Graph!Cardinality(Workers) = Cardinality(Workers)
           /\ Cardinality(Workers) \in Nat
  <1>1. IsFiniteSet(Workers)
    BY DEF Graph!GraphAssumption, Graph!IsFiniteSet, IsFiniteSet
  <1>2. Graph!Cardinality(Workers) = Cardinality(Workers)
    BY DEF Graph!Cardinality, Cardinality, Graph!IsFiniteSet, IsFiniteSet
  <1> QED BY <1>1, <1>2, FS_CardinalityType

LEMMA OpenBuildsCount ==
    ASSUME Graph!GraphAssumption
    PROVE  /\ IsFiniteSet(OpenBuilds) /\ Cardinality(OpenBuilds) \in Nat
           /\ Cardinality(OpenBuilds) <= Cardinality(Workers)
  <1>1. OpenBuilds \subseteq Workers
    BY DEF OpenBuilds
  <1> QED BY <1>1, WorkersCount, FS_Subset, FS_CardinalityType

LEMMA GraphTypesInit == ASSUME Graph!GraphAssumption, Graph!Init PROVE GraphTypes
  <1>1. OpenBuilds = {}
    BY DEF OpenBuilds, Graph!Init, Graph!NoTxn
  <1>2. Cardinality(OpenBuilds) = 0
    BY <1>1, FS_EmptySet
  <1>3. MaxBuilds \in Nat
    BY DEF Graph!GraphAssumption
  <1> QED BY <1>2, <1>3, WorkersCount DEF GraphTypes, Graph!Init

LEMMA GraphTypesKept ==
    ASSUME Graph!GraphAssumption, GraphInv, GraphTypes, [Graph!Next]_(Graph!vars)
    PROVE  GraphTypes'
  <1>1. MaxBuilds \in Nat
    BY DEF Graph!GraphAssumption
  <1>2. CASE UNCHANGED Graph!vars
    <2>1. OpenBuilds' = OpenBuilds
      BY <1>2 DEF OpenBuilds, Graph!vars
    <2> QED BY <1>2, <2>1 DEF GraphTypes, Graph!vars
  <1>3. ASSUME NEW w \in Workers, Graph!Begin(w)
        PROVE  GraphTypes'
    <2>1. builds < MaxBuilds /\ UNCHANGED <<edges, apart, limited, builds>>
      BY <1>3 DEF Graph!Begin
    <2>2. Cardinality(OpenBuilds') \in Nat /\ Cardinality(OpenBuilds') <= Cardinality(Workers)
      <3>1. OpenBuilds' \subseteq Workers
        BY DEF OpenBuilds
      <3> QED BY <3>1, WorkersCount, FS_Subset, FS_CardinalityType
    <2> QED BY <1>1, <2>1, <2>2, WorkersCount DEF GraphTypes
  <1>4. ASSUME NEW w \in Workers,
               Graph!Find(w) \/ Graph!Make(w) \/ Graph!Link(w) \/ Graph!Linked(w)
        PROVE  GraphTypes'
    <2>1. UNCHANGED <<edges, apart, limited, builds>>
      BY <1>4 DEF Graph!Find, Graph!Make, Graph!Link, Graph!Linked
    <2>2. graphTxn[w].pc # "idle"
      BY <1>4 DEF Graph!Find, Graph!Make, Graph!Link, Graph!Linked
    <2>3. \A v \in Workers \ {w} : graphTxn'[v] = graphTxn[v]
      BY <1>4 DEF Graph!Find, Graph!Make, Graph!Link, Graph!Linked, Graph!Step, GraphInv
    <2>4. OpenBuilds' \subseteq OpenBuilds
      BY <2>2, <2>3 DEF OpenBuilds
    <2>5. Cardinality(OpenBuilds') \in Nat
          /\ Cardinality(OpenBuilds') <= Cardinality(OpenBuilds)
      BY <2>4, OpenBuildsCount, FS_Subset, FS_CardinalityType
    <2> QED BY <1>1, <2>1, <2>5, OpenBuildsCount, WorkersCount DEF GraphTypes
  <1>5. ASSUME NEW w \in Workers, Graph!Commit(w) \/ Graph!Rollback(w)
        PROVE  GraphTypes'
    <2>1. graphTxn[w].pc # "idle" /\ graphTxn' = [graphTxn EXCEPT ![w] = Graph!NoTxn]
      BY <1>5 DEF Graph!Commit, Graph!Rollback, Graph!Step
    <2>2. graphTxn'[w].pc = "idle" /\ \A v \in Workers \ {w} : graphTxn'[v] = graphTxn[v]
      BY <2>1 DEF GraphInv, Graph!NoTxn
    <2>3. OpenBuilds' = OpenBuilds \ {w} /\ w \in OpenBuilds
      BY <2>1, <2>2 DEF OpenBuilds
    <2>4. Cardinality(OpenBuilds') = Cardinality(OpenBuilds) - 1
      BY <2>3, OpenBuildsCount, FS_RemoveElement
    <2>5. builds' \in {builds, builds + 1}
      BY <1>5 DEF Graph!Commit, Graph!Rollback
    <2>6. /\ builds' \in Nat
          /\ builds' + Cardinality(OpenBuilds') <= MaxBuilds + Cardinality(Workers)
      BY <1>1, <2>4, <2>5, OpenBuildsCount, WorkersCount DEF GraphTypes
    <2>7. edges' \subseteq Graph!Edge /\ limited' \subseteq Merchants /\ apart' \subseteq SUBSET Merchants
      <3>1. CASE Graph!Rollback(w)
        BY <3>1 DEF Graph!Rollback, GraphTypes
      <3>2. CASE Graph!Commit(w)
        <4>1. PICK t : t = graphTxn[w]
          OBVIOUS
        <4>2. t \in Build
          BY <2>1, <4>1 DEF GraphInv, Graph!NoTxn
        <4>3. /\ t.edges \subseteq Graph!Edge /\ t.limited \subseteq Merchants
              /\ t.built \subseteq Merchants
          BY <4>2 DEF Build
        <4>4. edges' = edges \cup t.edges /\ limited' = (limited \ t.built) \cup t.limited
          BY <3>2, <4>1 DEF Graph!Commit
        <4>5. apart' = (apart \ {{a, b} : a \in t.built, b \in t.start})
                          \cup {{a, b} : a \in t.built, b \in entities \ t.start}
          BY <3>2, <4>1 DEF Graph!Commit
        <4>6. \A p \in apart' : p \subseteq Merchants
          BY <4>3, <4>5 DEF GraphInv, GraphTypes
        <4> QED BY <4>3, <4>4, <4>6 DEF GraphTypes
      <3> QED BY <1>5, <3>1, <3>2
    <2> QED BY <2>6, <2>7 DEF GraphTypes
  <1> QED BY <1>2, <1>3, <1>4, <1>5 DEF Graph!Next

LEMMA GraphTyped ==
    ASSUME Graph!GraphAssumption
    PROVE  Graph!Spec => []Graph!TypeOK
  <1>1. GraphInv /\ GraphTypes => Graph!TypeOK
    <2> SUFFICES ASSUME GraphInv, GraphTypes
                 PROVE  Graph!TypeOK
      OBVIOUS
    <2>1. builds \in 0..(MaxBuilds + Graph!Cardinality(Workers))
      BY OpenBuildsCount, WorkersCount DEF GraphTypes, Graph!GraphAssumption
    <2>2. \A w \in Workers : graphTxn[w].pc \in {"idle", "next", "make", "link"}
      BY DEF GraphInv, Build, Graph!NoTxn
    <2> QED BY <2>1, <2>2 DEF GraphInv, GraphTypes, Graph!TypeOK
  <1>2. GraphInv /\ GraphTypes /\ [Graph!Next]_(Graph!vars) => (GraphInv /\ GraphTypes)'
    BY GraphKept, GraphTypesKept
  <1> QED BY <1>1, <1>2, GraphInit, GraphTypesInit, PTL DEF Graph!Spec

-----------------------------------------------------------------------------
(* Tracked links and pixels.                                               *)

Visit == Nat \X Tokens

\* A task that has found an event of its token still finds it, or the lead was
\* erased since.
Remembers(t) ==
    t.pc = "insert" /\ t.found =>
        LeadOf[t.visit[2]] \notin reachable \/ \E e \in seen : e[2] = t.visit[2]

LinkInv ==
    /\ queue \cup seen \subseteq Visit
    /\ visits \in Nat
    /\ visitTxn \in [Workers -> [pc : {"insert"}, visit : Visit, found : BOOLEAN]
                                   \cup {Links!NoTxn}]
    /\ \A w \in Workers : Remembers(visitTxn[w])
    /\ Links!VisitsAccounted

LEMMA LinkInit == Links!Init => LinkInv
  BY DEF Links!Init, LinkInv, Links!NoTxn, Links!VisitsAccounted, Remembers

\* The visits of a token are still accounted for if what is taken from the
\* queue or a task goes back, is lost, is stored, or was stored before.
LEMMA StillComing ==
    ASSUME LinkInv, NEW w \in Workers, NEW t \in [pc : {"insert"}, visit : Visit,
                                                 found : BOOLEAN] \cup {Links!NoTxn},
           visitTxn' = [visitTxn EXCEPT ![w] = t],
           lost \subseteq lost', reachable' = reachable, seen \subseteq seen',
           visited' = visited,
           \A m \in queue \ queue' : t.pc = "insert" /\ t.visit = m,
           visitTxn[w].pc = "insert" =>
               \/ visitTxn[w].visit \in queue'
               \/ visitTxn[w].visit[2] \in lost'
               \/ LeadOf[visitTxn[w].visit[2]] \notin reachable
               \/ \E e \in seen' : e[2] = visitTxn[w].visit[2]
    PROVE  \A k \in visited' :
              \/ Links!Coming(k)' \/ k \in lost' \/ LeadOf[k] \notin reachable'
              \/ \E e \in seen' : e[2] = k
  <1>1. /\ visitTxn'[w] = t
        /\ \A v \in Workers \ {w} : visitTxn'[v] = visitTxn[v]
    BY DEF LinkInv
  <1> SUFFICES ASSUME NEW k \in visited, k \notin lost', LeadOf[k] \notin reachable => FALSE,
                      ~\E e \in seen' : e[2] = k
               PROVE  Links!Coming(k)'
    OBVIOUS
  <1>2. \/ \E m \in queue : m[2] = k
        \/ \E v \in Workers : visitTxn[v].pc = "insert" /\ visitTxn[v].visit[2] = k
    BY DEF LinkInv, Links!VisitsAccounted, Links!Coming
  <1>3. CASE \E m \in queue : m[2] = k
    BY <1>1, <1>3 DEF Links!Coming
  <1>4. ASSUME NEW v \in Workers, visitTxn[v].pc = "insert", visitTxn[v].visit[2] = k
        PROVE  Links!Coming(k)'
    <2>1. CASE v = w
      BY <1>4, <2>1 DEF Links!Coming
    <2>2. CASE v # w
      BY <1>1, <1>4, <2>2 DEF Links!Coming
    <2>3. QED
      BY <2>1, <2>2
  <1>5. QED
    BY <1>2, <1>3, <1>4

LEMMA TakeLink ==
    ASSUME LinkInv, NEW w \in Workers, Links!Take(w)
    PROVE  LinkInv'
  <1>1. PICK m \in queue :
            /\ queue' = queue \ {m}
            /\ Links!Step(w, [pc |-> "insert", visit |-> m,
                              found |-> \E e \in seen : Links!Same(e, m[2])])
    BY DEF Links!Take
  <1>2. PICK t : t = [pc |-> "insert", visit |-> m,
                      found |-> \E e \in seen : Links!Same(e, m[2])]
    OBVIOUS
  <1>3. /\ t \in [pc : {"insert"}, visit : Visit, found : BOOLEAN]
        /\ t.pc = "insert" /\ t.visit = m
    BY <1>2 DEF LinkInv
  <1>4. t.found = \E e \in seen : Links!Same(e, m[2])
    BY <1>2, Zenon
  <1>5. t.found => \E e \in seen : e[2] = m[2]
    BY <1>4 DEF Links!Same
  <1>6. /\ visitTxn' = [visitTxn EXCEPT ![w] = t]
        /\ UNCHANGED <<stored, visits, visited, lost, reachable, seen>>
        /\ visitTxn[w].pc = "idle"
    BY <1>1, <1>2 DEF Links!Take, Links!Step
  <1>7. \A k \in visited' :
           \/ Links!Coming(k)' \/ k \in lost' \/ LeadOf[k] \notin reachable'
           \/ \E e \in seen' : e[2] = k
    BY <1>1, <1>3, <1>6, StillComing
  <1>8. Links!VisitsAccounted'
    BY <1>6, <1>7 DEF LinkInv, Links!VisitsAccounted
  <1>9. \A v \in Workers : Remembers(visitTxn[v])'
    BY <1>3, <1>5, <1>6 DEF LinkInv, Remembers
  <1>10. QED
    BY <1>1, <1>3, <1>6, <1>8, <1>9 DEF LinkInv

\* The other steps of a task end it.
LEMMA TaskEnds ==
    ASSUME LinkInv, NEW w \in Workers, visitTxn[w].pc = "insert",
           Links!Skip(w) \/ Links!Insert(w) \/ Links!Fail(w)
    PROVE  LinkInv'
  <1>1. PICK t : t = visitTxn[w]
    OBVIOUS
  <1>2. /\ t \in [pc : {"insert"}, visit : Visit, found : BOOLEAN]
        /\ t.visit \in Visit
    BY <1>1 DEF LinkInv, Links!NoTxn
  <1>3. /\ visitTxn' = [visitTxn EXCEPT ![w] = Links!NoTxn]
        /\ visited' = visited /\ reachable' = reachable /\ visits' = visits
    BY DEF Links!Skip, Links!Insert, Links!Fail, Links!Step
  <1>4. /\ lost \subseteq lost' /\ seen \subseteq seen' /\ queue \subseteq queue'
        /\ queue' \subseteq queue \cup {t.visit} /\ seen' \subseteq seen \cup {t.visit}
    BY <1>1 DEF Links!Skip, Links!Insert, Links!Fail
  <1>5. \/ t.visit \in queue' \/ t.visit[2] \in lost'
        \/ LeadOf[t.visit[2]] \notin reachable
        \/ \E e \in seen' : e[2] = t.visit[2]
    <2>1. CASE Links!Skip(w)
      BY <1>1, <2>1 DEF Links!Skip, Links!Refused, LinkInv, Remembers
    <2>2. CASE Links!Insert(w)
      BY <1>1, <2>2 DEF Links!Insert
    <2>3. CASE Links!Fail(w)
      BY <1>1, <2>3 DEF Links!Fail
    <2>4. QED
      BY <2>1, <2>2, <2>3
  <1>6. seen' # seen => ~Links!Refused(t.visit[2])
    BY <1>1 DEF Links!Skip, Links!Insert, Links!Fail
  <1>7. /\ \A e, f \in seen' : e[2] = f[2] => e = f
        /\ \A e \in seen' : LeadOf[e[2]] \in reachable' \/ e[2] \notin Targeted
    BY <1>3, <1>4, <1>6 DEF LinkInv, Links!VisitsAccounted, Links!Refused
  <1>8. Links!NoTxn.pc = "idle"
    BY DEF Links!NoTxn
  <1>9. \A k \in visited' :
           \/ Links!Coming(k)' \/ k \in lost' \/ LeadOf[k] \notin reachable'
           \/ \E e \in seen' : e[2] = k
    BY <1>1, <1>3, <1>4, <1>5, StillComing
  <1>10. \A v \in Workers : Remembers(visitTxn[v])'
    BY <1>3, <1>4, <1>8 DEF LinkInv, Remembers
  <1>11. QED
    BY <1>2, <1>3, <1>4, <1>7, <1>9, <1>10 DEF LinkInv, Links!VisitsAccounted

LEMMA LinkKept ==
    ASSUME LinkInv, [Links!Next]_(Links!vars)
    PROVE  LinkInv'
  <1>1. CASE UNCHANGED Links!vars
    BY <1>1 DEF Links!vars, LinkInv, Links!VisitsAccounted, Links!Coming, Remembers
  <1>2. ASSUME NEW k \in Tokens, Links!Wrap(k) \/ Links!Expire(k) PROVE LinkInv'
    BY <1>2 DEF Links!Wrap, Links!Expire, LinkInv, Links!VisitsAccounted, Links!Coming, Remembers
  <1>3. ASSUME NEW k \in Tokens, Links!Visit(k) PROVE LinkInv'
    <2>1. /\ visits' = visits + 1 /\ visited' = visited \cup {k}
          /\ \/ queue' = queue \cup {<<visits', k>>} /\ lost' = lost
             \/ lost' = lost \cup {k} /\ queue' = queue
          /\ UNCHANGED <<stored, reachable, seen, visitTxn>>
      BY <1>3 DEF Links!Visit
    <2>2. <<visits', k>> \in Visit /\ <<visits', k>>[2] = k /\ visits' \in Nat
      BY <2>1 DEF LinkInv, Visit
    <2>3. \A c \in visited' :
             \/ Links!Coming(c)' \/ c \in lost' \/ LeadOf[c] \notin reachable'
             \/ \E e \in seen' : e[2] = c
      BY <2>1, <2>2 DEF LinkInv, Links!VisitsAccounted, Links!Coming
    <2>4. QED
      BY <2>1, <2>2, <2>3 DEF LinkInv, Links!VisitsAccounted, Remembers
  <1>4. ASSUME NEW l \in Leads, Links!Erase(l) PROVE LinkInv'
    <2>1. /\ reachable' = reachable \ {l} /\ seen' = {e \in seen : LeadOf[e[2]] # l}
          /\ UNCHANGED <<stored, queue, visits, visited, lost, visitTxn>>
      BY <1>4 DEF Links!Erase
    <2>2. \A k \in visited' :
             \/ Links!Coming(k)' \/ k \in lost' \/ LeadOf[k] \notin reachable'
             \/ \E e \in seen' : e[2] = k
      BY <2>1 DEF LinkInv, Links!VisitsAccounted, Links!Coming
    <2>3. \A v \in Workers : Remembers(visitTxn[v])'
      BY <2>1 DEF LinkInv, Remembers
    <2>4. /\ \A e, f \in seen' : e[2] = f[2] => e = f
          /\ \A e \in seen' : LeadOf[e[2]] \in reachable' \/ e[2] \notin Targeted
      BY <2>1 DEF LinkInv, Links!VisitsAccounted
    <2>5. QED
      BY <2>1, <2>2, <2>3, <2>4 DEF LinkInv, Links!VisitsAccounted
  <1>5. CASE Links!Redeliver
    <2>1. PICK e \in seen : queue' = queue \cup {e}
      BY <1>5 DEF Links!Redeliver
    <2>2. UNCHANGED <<stored, visits, visited, lost, reachable, seen, visitTxn>>
      BY <1>5 DEF Links!Redeliver
    <2>3. QED
      BY <2>1, <2>2 DEF LinkInv, Links!VisitsAccounted, Links!Coming, Remembers
  <1>6. ASSUME NEW w \in Workers, Links!Skip(w) \/ Links!Insert(w) \/ Links!Fail(w)
        PROVE  LinkInv'
    BY <1>6, TaskEnds DEF Links!Skip, Links!Insert, Links!Fail
  <1>7. QED
    BY <1>1, <1>2, <1>3, <1>4, <1>5, <1>6, TakeLink DEF Links!Next

\* Every visit that was not lost leaves one event of its token, or will,
\* however often the broker delivers it and whatever is erased meanwhile, for
\* any workers, leads and tokens (tasks/tracking_tasks.py, log_tracker_event).
THEOREM VisitsLeaveEvents == Links!Spec => []Links!VisitsAccounted
  <1>1. LinkInv => Links!VisitsAccounted
    BY DEF LinkInv
  <1>2. LinkInv /\ [Links!Next]_(Links!vars) => LinkInv'
    BY LinkKept
  <1>3. QED
    BY <1>1, <1>2, LinkInit, PTL DEF Links!Spec

LinkTypes == DOMAIN visitTxn = Workers /\ Links!TypeOK

LEMMA LinkTypesKept ==
    ASSUME Links!TrackingAssumption, LinkTypes, [Links!Next]_(Links!vars)
    PROVE  LinkTypes'
  <1>1. ASSUME NEW w \in Workers, NEW t, Links!Step(w, t),
               t = Links!NoTxn \/ t \in [pc : {"insert"}, visit : Links!Visits, found : BOOLEAN]
        PROVE  /\ DOMAIN visitTxn' = Workers
               /\ \A v \in Workers :
                     \/ visitTxn'[v] = Links!NoTxn
                     \/ visitTxn'[v] \in [pc : {"insert"}, visit : Links!Visits, found : BOOLEAN]
    BY <1>1 DEF Links!Step, LinkTypes, Links!TypeOK
  <1>2. CASE UNCHANGED Links!vars
    BY <1>2 DEF Links!vars, LinkTypes, Links!TypeOK
  <1>3. ASSUME NEW k \in Tokens, Links!Wrap(k) \/ Links!Expire(k)
        PROVE  LinkTypes'
    BY <1>3 DEF Links!Wrap, Links!Expire, LinkTypes, Links!TypeOK
  <1>4. ASSUME NEW k \in Tokens, Links!Visit(k)
        PROVE  LinkTypes'
    <2>1. visits' = visits + 1 /\ visits' \in 0..MaxVisits
      BY <1>4 DEF Links!Visit, LinkTypes, Links!TypeOK, Links!TrackingAssumption
    <2>2. <<visits', k>> \in Links!Visits
      BY <2>1 DEF Links!Visits
    <2> QED BY <1>4, <2>1, <2>2 DEF Links!Visit, LinkTypes, Links!TypeOK
  <1>5. ASSUME NEW w \in Workers, Links!Take(w)
        PROVE  LinkTypes'
    <2>1. PICK m \in queue :
            /\ queue' = queue \ {m}
            /\ Links!Step(w, [pc |-> "insert", visit |-> m,
                              found |-> \E e \in seen : Links!Same(e, m[2])])
      BY <1>5 DEF Links!Take
    <2>2. PICK t : t = [pc |-> "insert", visit |-> m,
                        found |-> \E e \in seen : Links!Same(e, m[2])]
      OBVIOUS
    <2>3. t \in [pc : {"insert"}, visit : Links!Visits, found : BOOLEAN]
      BY <2>2 DEF LinkTypes, Links!TypeOK
    <2> QED BY <1>1, <1>5, <2>1, <2>2, <2>3 DEF Links!Take, LinkTypes, Links!TypeOK
  <1>6. ASSUME NEW w \in Workers, Links!Skip(w) \/ Links!Insert(w) \/ Links!Fail(w)
        PROVE  LinkTypes'
    <2>1. visitTxn[w].pc = "insert" /\ Links!Step(w, Links!NoTxn)
      BY <1>6 DEF Links!Skip, Links!Insert, Links!Fail
    <2>2. visitTxn[w].visit \in Links!Visits /\ visitTxn[w].visit[2] \in Tokens
      BY <2>1 DEF LinkTypes, Links!TypeOK, Links!NoTxn, Links!Visits
    <2>3. /\ queue' \cup seen' \subseteq Links!Visits
          /\ lost' \subseteq Tokens
      BY <1>6, <2>2 DEF Links!Skip, Links!Insert, Links!Fail, LinkTypes, Links!TypeOK
    <2>4. UNCHANGED <<stored, visits, visited, reachable>>
      BY <1>6 DEF Links!Skip, Links!Insert, Links!Fail
    <2> QED BY <1>1, <2>1, <2>3, <2>4 DEF LinkTypes, Links!TypeOK
  <1>7. ASSUME NEW l \in Leads, Links!Erase(l)
        PROVE  LinkTypes'
    BY <1>7 DEF Links!Erase, LinkTypes, Links!TypeOK
  <1>8. CASE Links!Redeliver
    <2>1. PICK e \in seen : queue' = queue \cup {e}
      BY <1>8 DEF Links!Redeliver
    <2> QED BY <1>8, <2>1 DEF Links!Redeliver, LinkTypes, Links!TypeOK
  <1> QED BY <1>2, <1>3, <1>4, <1>5, <1>6, <1>7, <1>8 DEF Links!Next

LEMMA LinksTyped ==
    ASSUME Links!TrackingAssumption
    PROVE  Links!Spec => []Links!TypeOK
  <1>1. Links!Init => LinkTypes
    BY DEF Links!Init, LinkTypes, Links!TypeOK, Links!TrackingAssumption
  <1>2. LinkTypes /\ [Links!Next]_(Links!vars) => LinkTypes'
    BY LinkTypesKept
  <1>3. LinkTypes => Links!TypeOK
    BY DEF LinkTypes
  <1> QED BY <1>1, <1>2, <1>3, PTL DEF Links!Spec

-----------------------------------------------------------------------------
(* The reviews of qualification results.                                   *)

Points == 0..10000

Dates == Nat \cup {None}

Review == [decision : Reviews!Decisions, seen : Nat]

Row == [confidence : Points, status : Reviews!Statuses, decision : Reviews!Decisions \cup {None},
        qualified : Dates, expires : Dates, reviews : Seq(Review)]

\* What the property says of one row.
Tells(row) ==
    LET n == Len(row.reviews)
    IN  /\ n = 0 => row.status = Reviews!Verdict(row.confidence)
        /\ n > 0 => \/ row.status = Reviews!NewStatus(row.reviews[n].decision)
                    \/ row.reviews[n].seen < n - 1
        /\ row.status = "qualified" => row.qualified # None
        /\ row.qualified # None => row.expires = row.qualified + Expiry

Evaluation == [pc : {"insert"}, rows : Seq(Row)]

Reviewing == [pc : {"review"}, result : Nat, decision : Reviews!Decisions,
              read : Reviews!Statuses, dated : BOOLEAN, day : Nat, seen : Nat]

\* A review that has read all the reviews there are has read the row's status;
\* and an approval sets the dates unless they are set, which they stay.
Knows(t, row) ==
    /\ t.seen <= Len(row.reviews)
    /\ t.seen = Len(row.reviews) => t.read = row.status
    /\ t.dated => t.decision = "approved"
    /\ t.decision = "approved" /\ ~ t.dated => row.qualified # None

Underway(t, rows) ==
    \/ t = Reviews!NoTxn
    \/ t \in Evaluation /\ \A i \in DOMAIN t.rows : Tells(t.rows[i])
    \/ t \in Reviewing /\ t.result \in DOMAIN rows /\ Knows(t, rows[t.result])

ReviewInv ==
    /\ day \in Nat /\ day <= MaxDay
    /\ results \in Seq(Row)
    /\ \A i \in DOMAIN results : Tells(results[i])
    /\ DOMAIN reviewTxn = Workers
    /\ \A w \in Workers : Underway(reviewTxn[w], results)

LEMMA VerdictStatus == ASSUME NEW c \in Int PROVE Reviews!Verdict(c) \in Reviews!Statuses
  <1>1. CASE c >= 7000
    BY <1>1 DEF Reviews!Verdict, Reviews!Statuses
  <1>2. CASE c \in 4500..6999
    BY <1>2 DEF Reviews!Verdict, Reviews!Statuses
  <1>3. CASE c < 4500
    BY <1>3 DEF Reviews!Verdict, Reviews!Statuses
  <1> QED BY <1>1, <1>2, <1>3

LEMMA PointsAreNumbers == \A p \in Points : p \in Int
  BY DEF Points

\* The weights of the signals add up to one: confidence is a share of ten thousand.
LEMMA ConfidenceRange ==
    ASSUME NEW f \in Reviews!Fact
    PROVE  Reviews!Confidence(f) \in Points
  <1>1. /\ f.score \in 0..100 /\ f.platforms \in 0..3 /\ f.reviews \in Nat
    BY DEF Reviews!Fact
  <1>2. Reviews!ScoreSignal(f) \in Nat /\ Reviews!ScoreSignal(f) <= 3500
    BY <1>1, SMT DEF Reviews!ScoreSignal
  <1>3. Reviews!DeliverySignal(f) \in 0..2000
    <2>1. (2000 * f.platforms + 1) \div 3 \in 0..2000
      <3>1. f.platforms = 0 \/ f.platforms = 1 \/ f.platforms = 2 \/ f.platforms = 3
        BY <1>1
      <3> QED BY <3>1, SMT
    <2> QED BY <2>1, SMT DEF Reviews!DeliverySignal
  <1>4. Reviews!IndependenceSignal(f) \in 0..2500
    BY SMT DEF Reviews!IndependenceSignal
  <1>5. Reviews!ReviewSignal(f) \in 0..2000
    BY <1>1, SMT DEF Reviews!ReviewSignal
  <1>6. PICK a \in Nat : a = Reviews!ScoreSignal(f) /\ a <= 3500
    BY <1>2, SMT
  <1>7. PICK b \in Nat : b = Reviews!DeliverySignal(f) /\ b <= 2000
    BY <1>3, SMT
  <1>8. PICK c \in Nat : c = Reviews!IndependenceSignal(f) /\ c <= 2500
    BY <1>4, SMT
  <1>9. PICK d \in Nat : d = Reviews!ReviewSignal(f) /\ d <= 2000
    BY <1>5, SMT
  <1>10. Reviews!Confidence(f) = a + b + c + d
    BY <1>6, <1>7, <1>8, <1>9, SMT DEF Reviews!Confidence
  <1>11. /\ a \in Nat /\ b \in Nat /\ c \in Nat /\ d \in Nat
         /\ a <= 3500 /\ b <= 2000 /\ c <= 2500 /\ d <= 2000
    BY <1>6, <1>7, <1>8, <1>9, SMT
  <1>12. PICK n \in Nat : n = a + b + c + d /\ n <= 10000
    BY <1>11, SMT
  <1>13. n \in Points
    BY <1>12, SMT DEF Points
  <1> QED BY <1>10, <1>12, <1>13, SMT

\* An evaluation makes a row that tells its verdict.
LEMMA EvaluatedTells ==
    ASSUME Reviews!QualificationAssumption, day \in Nat, NEW f \in Facts
    PROVE  Reviews!Evaluated(f) \in Row /\ Tells(Reviews!Evaluated(f))
  <1> DEFINE c == Reviews!Confidence(f)
             row == Reviews!Evaluated(f)
  <1>1. c \in Points
    BY ConfidenceRange DEF Reviews!QualificationAssumption
  <1> HIDE DEF c
  <1>2. PICK s : s = Reviews!Verdict(c)
    OBVIOUS
  <1>3. s \in Reviews!Statuses
    BY <1>1, <1>2, PointsAreNumbers, VerdictStatus
  <1>4. row = [confidence |-> c, status |-> s, decision |-> None,
               qualified |-> IF s = "qualified" THEN day ELSE None,
               expires |-> IF s = "qualified" THEN day + Expiry ELSE None,
               reviews |-> <<>>]
    BY <1>2, Zenon DEF row, c, Reviews!Evaluated
  <1> HIDE DEF row
  <1>5. day + Expiry \in Nat
    BY DEF Reviews!QualificationAssumption
  <1>6. <<>> \in Seq(Review) /\ Len(<<>>) = 0
    OBVIOUS
  <1>7. row \in Row
    BY <1>1, <1>3, <1>4, <1>5, <1>6 DEF Row, Dates
  <1>8. row.reviews = <<>> /\ row.status = Reviews!Verdict(row.confidence)
    BY <1>2, <1>4
  <1>9. row.status = "qualified" => row.qualified = day
    BY <1>4
  <1>10. row.qualified # None => row.expires = row.qualified + Expiry
    BY <1>4
  <1>11. day # None
    BY DEF Reviews!QualificationAssumption
  <1> QED BY <1>6, <1>7, <1>8, <1>9, <1>10, <1>11 DEF Tells, row

LEMMA ReviewInit ==
    ASSUME Reviews!QualificationAssumption, Reviews!Init
    PROVE  ReviewInv
  BY DEF Reviews!QualificationAssumption, Reviews!Init, ReviewInv, Reviews!NoTxn, Underway

\* A step of one worker after which the transactions of the others stand.
LEMMA ReviewMoves ==
    ASSUME ReviewInv, NEW w \in Workers, NEW t, Reviews!Step(w, t), day' = day,
           Underway(t, results'), results' \in Seq(Row),
           \A i \in DOMAIN results' : Tells(results'[i]),
           \A v \in Workers \ {w} : Underway(reviewTxn[v], results) => Underway(reviewTxn[v], results')
    PROVE  ReviewInv'
  <1>1. DOMAIN reviewTxn' = Workers
    BY DEF ReviewInv, Reviews!Step
  <1>2. ASSUME NEW v \in Workers
        PROVE  Underway(reviewTxn'[v], results')
    <2>1. CASE v = w
      <3>1. reviewTxn'[v] = t
        BY <2>1 DEF ReviewInv, Reviews!Step
      <3> QED BY <3>1
    <2>2. CASE v # w
      <3>1. reviewTxn'[v] = reviewTxn[v]
        BY <2>2 DEF ReviewInv, Reviews!Step
      <3> QED BY <2>2, <3>1 DEF ReviewInv
    <2> QED BY <2>1, <2>2
  <1> QED BY <1>1, <1>2 DEF ReviewInv

\* Rows that tell go on telling whatever comes after them.
LEMMA Inserted ==
    ASSUME ReviewInv, NEW w \in Workers, Reviews!CommitEvaluate(w)
    PROVE  ReviewInv'
  <1> DEFINE rows == reviewTxn[w].rows
  <1>1. rows \in Seq(Row) /\ \A i \in DOMAIN rows : Tells(rows[i])
    <2>1. Underway(reviewTxn[w], results) /\ reviewTxn[w].pc = "insert"
      BY DEF ReviewInv, Reviews!CommitEvaluate
    <2> QED BY <2>1 DEF Underway, Reviews!NoTxn, Reviewing, Evaluation
  <1> HIDE DEF rows
  <1>2. results \in Seq(Row) /\ results' = results \o rows /\ day' = day
    BY DEF ReviewInv, Reviews!CommitEvaluate, rows
  <1>3. results' \in Seq(Row) /\ Len(results') = Len(results) + Len(rows)
    BY <1>1, <1>2
  <1>4. ASSUME NEW i \in DOMAIN results
        PROVE  i \in DOMAIN results' /\ results'[i] = results[i]
    BY <1>1, <1>2, <1>3, <1>4
  <1>5. ASSUME NEW i \in DOMAIN results'
        PROVE  Tells(results'[i])
    <2>1. CASE i \in DOMAIN results
      BY <1>4, <2>1 DEF ReviewInv
    <2>2. CASE i \notin DOMAIN results
      <3>1. i - Len(results) \in DOMAIN rows /\ results'[i] = rows[i - Len(results)]
        BY <1>1, <1>2, <1>3, <1>5, <2>2
      <3> QED BY <1>1, <3>1
    <2> QED BY <2>1, <2>2
  <1>6. ASSUME NEW u, Underway(u, results)
        PROVE  Underway(u, results')
    BY <1>4, <1>6 DEF Underway
  <1>7. Underway(Reviews!NoTxn, results')
    BY DEF Underway
  <1>8. Reviews!Step(w, Reviews!NoTxn)
    BY DEF Reviews!CommitEvaluate
  <1> QED BY <1>2, <1>3, <1>5, <1>6, <1>7, <1>8, ReviewMoves

\* What a review makes of the row as it finds it.
Revised(row, t) ==
    [row EXCEPT
       !.status    = IF Reviews!NewStatus(t.decision) = t.read
                     THEN row.status ELSE Reviews!NewStatus(t.decision),
       !.decision  = t.decision,
       !.qualified = IF t.dated THEN t.day ELSE row.qualified,
       !.expires   = IF t.dated THEN t.day + Expiry ELSE row.expires,
       !.reviews   = Append(row.reviews, [decision |-> t.decision, seen |-> t.seen])]

\* It tells, as the review knows what it has read: the status it does not write
\* is the one it stands for, or another review came between.
LEMMA Reviewed ==
    ASSUME Reviews!QualificationAssumption,
           NEW row \in Row, Tells(row), NEW t \in Reviewing, Knows(t, row),
           NEW new, new = Revised(row, t)
    PROVE  /\ new \in Row /\ Tells(new)
           /\ Len(new.reviews) = Len(row.reviews) + 1
           /\ row.qualified # None => new.qualified # None
  <1>1. PICK s : s = IF Reviews!NewStatus(t.decision) = t.read
                     THEN row.status ELSE Reviews!NewStatus(t.decision)
    OBVIOUS
  <1>2. PICK q : q = IF t.dated THEN t.day ELSE row.qualified
    OBVIOUS
  <1>3. PICK e : e = IF t.dated THEN t.day + Expiry ELSE row.expires
    OBVIOUS
  <1>4. PICK r : r = Append(row.reviews, [decision |-> t.decision, seen |-> t.seen])
    OBVIOUS
  <1>5. new = [row EXCEPT !.status = s, !.decision = t.decision, !.qualified = q,
                          !.expires = e, !.reviews = r]
    BY <1>1, <1>2, <1>3, <1>4, Zenon DEF Revised
  <1>6. Reviews!NewStatus(t.decision) \in Reviews!Statuses
    BY DEF Reviews!NewStatus, Reviews!Statuses
  <1>7. s \in Reviews!Statuses /\ q \in Dates /\ e \in Dates
    BY <1>1, <1>2, <1>3, <1>6 DEF Row, Reviewing, Dates, Reviews!QualificationAssumption
  <1>8. [decision |-> t.decision, seen |-> t.seen] \in Review
    BY DEF Review, Reviewing
  <1>9. row.reviews \in Seq(Review)
    BY DEF Row
  <1>10. /\ r \in Seq(Review) /\ Len(r) = Len(row.reviews) + 1
         /\ r[Len(r)].decision = t.decision /\ r[Len(r)].seen = t.seen
    BY <1>4, <1>8, <1>9
  <1>11. t.decision \in Reviews!Decisions
    BY DEF Reviewing
  <1>12. new \in Row
    BY <1>5, <1>7, <1>10, <1>11 DEF Row
  <1>13. /\ new.status = s /\ new.qualified = q /\ new.expires = e /\ new.reviews = r
    BY <1>5 DEF Row
  <1>14. row.qualified # None => q # None
    BY <1>2 DEF Reviewing, Reviews!QualificationAssumption
  <1>15. Len(r) > 0 /\ Len(r) # 0
    BY <1>9, <1>10
  <1>16. s = Reviews!NewStatus(r[Len(r)].decision) \/ r[Len(r)].seen < Len(r) - 1
    <2>1. CASE t.seen = Len(row.reviews)
      BY <1>1, <1>10, <2>1 DEF Knows
    <2>2. CASE t.seen # Len(row.reviews)
      BY <1>9, <1>10, <2>2 DEF Knows, Reviewing
    <2> QED BY <2>1, <2>2
  <1>17. s = "qualified" => q # None
    <2>1. CASE s = row.status
      BY <1>9, <1>14, <2>1 DEF Tells
    <2>2. CASE s = Reviews!NewStatus(t.decision)
      <3> SUFFICES ASSUME s = "qualified"
                   PROVE  q # None
        OBVIOUS
      <3>1. t.decision = "approved"
        BY <2>2 DEF Reviews!NewStatus
      <3>2. CASE t.dated
        BY <1>2, <3>2 DEF Reviewing, Reviews!QualificationAssumption
      <3>3. CASE ~ t.dated
        BY <1>14, <3>1, <3>3 DEF Knows
      <3> QED BY <3>2, <3>3
    <2> QED BY <1>1, <2>1, <2>2
  <1>18. q # None => e = q + Expiry
    <2>1. row.qualified # None => row.expires = row.qualified + Expiry
      BY DEF Tells
    <2> QED BY <1>2, <1>3, <2>1
  <1>19. Tells(new)
    BY <1>13, <1>15, <1>16, <1>17, <1>18 DEF Tells
  <1> QED BY <1>10, <1>12, <1>13, <1>14, <1>19

LEMMA ReviewStored ==
    ASSUME Reviews!QualificationAssumption, ReviewInv, NEW w \in Workers, Reviews!CommitReview(w)
    PROVE  ReviewInv'
  <1>1. PICK t : t = reviewTxn[w]
    OBVIOUS
  <1>2. t \in Reviewing /\ t.result \in DOMAIN results /\ Knows(t, results[t.result])
    <2>1. Underway(t, results) /\ t.pc = "review"
      BY <1>1 DEF ReviewInv, Reviews!CommitReview
    <2> QED BY <2>1 DEF Underway, Reviews!NoTxn, Evaluation
  <1>3. PICK k : k = t.result
    OBVIOUS
  <1>4. PICK row : row = results[k]
    OBVIOUS
  <1>5. row \in Row /\ Tells(row) /\ Knows(t, row) /\ k \in DOMAIN results
    BY <1>2, <1>3, <1>4 DEF ReviewInv
  <1>6. PICK new : new = Revised(row, t)
    OBVIOUS
  <1>7. results' = [results EXCEPT ![k] = new]
    BY <1>1, <1>3, <1>4, <1>6, Zenon DEF Reviews!CommitReview, Revised
  <1>8. /\ new \in Row /\ Tells(new)
        /\ Len(new.reviews) = Len(row.reviews) + 1
        /\ row.qualified # None => new.qualified # None
    BY <1>2, <1>5, <1>6, Reviewed
  <1>9. results \in Seq(Row) /\ \A i \in DOMAIN results : Tells(results[i])
    BY DEF ReviewInv
  <1>10. results' \in Seq(Row) /\ DOMAIN results' = DOMAIN results
    BY <1>5, <1>7, <1>8, <1>9
  <1>11. \A i \in DOMAIN results : results'[i] = IF i = k THEN new ELSE results[i]
    BY <1>7, <1>9
  <1>12. \A i \in DOMAIN results' : Tells(results'[i])
    BY <1>8, <1>9, <1>10, <1>11
  <1>13. ASSUME NEW u \in Reviewing, Knows(u, row)
         PROVE  Knows(u, new)
    <2>1. row.reviews \in Seq(Review)
      BY <1>5 DEF Row
    <2>2. u.seen \in Nat /\ Len(row.reviews) \in Nat
      BY <2>1 DEF Reviewing
    <2> QED BY <1>8, <1>13, <2>2 DEF Knows
  <1>14. ASSUME NEW u, Underway(u, results)
         PROVE  Underway(u, results')
    BY <1>4, <1>10, <1>11, <1>13, <1>14 DEF Underway
  <1>15. Underway(Reviews!NoTxn, results')
    BY DEF Underway
  <1>16. Reviews!Step(w, Reviews!NoTxn) /\ day' = day
    BY DEF Reviews!CommitReview
  <1> QED BY <1>10, <1>12, <1>14, <1>15, <1>16, ReviewMoves

LEMMA ReviewKept ==
    ASSUME Reviews!QualificationAssumption, ReviewInv, [Reviews!Next]_(Reviews!vars)
    PROVE  ReviewInv'
  <1>1. ASSUME NEW w \in Workers, NEW t, Reviews!Step(w, t), UNCHANGED <<day, results>>,
               Underway(t, results)
        PROVE  ReviewInv'
    <2>1. /\ results' = results /\ day' = day
          /\ results \in Seq(Row) /\ \A i \in DOMAIN results : Tells(results[i])
      BY <1>1 DEF ReviewInv
    <2> QED BY <1>1, <2>1, ReviewMoves
  <1>2. CASE Reviews!Tomorrow
    BY <1>2 DEF Reviews!Tomorrow, ReviewInv, Reviews!QualificationAssumption
  <1>3. ASSUME NEW w \in Workers, Reviews!BeginEvaluate(w)
        PROVE  ReviewInv'
    <2>1. PICK f \in Facts : Reviews!Step(w, [pc |-> "insert", rows |-> <<Reviews!Evaluated(f)>>])
      BY <1>3 DEF Reviews!BeginEvaluate
    <2>2. PICK t : t = [pc |-> "insert", rows |-> <<Reviews!Evaluated(f)>>]
      OBVIOUS
    <2>3. Reviews!Evaluated(f) \in Row /\ Tells(Reviews!Evaluated(f))
      BY EvaluatedTells DEF ReviewInv
    <2>4. t.rows = <<Reviews!Evaluated(f)>> /\ t \in Evaluation
      BY <2>2, <2>3 DEF Evaluation
    <2>5. Underway(t, results)
      BY <2>3, <2>4 DEF Underway
    <2>6. UNCHANGED <<day, results>> /\ Reviews!Step(w, t)
      BY <1>3, <2>1, <2>2 DEF Reviews!BeginEvaluate
    <2> QED BY <1>1, <2>5, <2>6
  <1>4. ASSUME NEW w \in Workers, Reviews!EvaluateMore(w)
        PROVE  ReviewInv'
    <2>1. PICK f \in Facts :
            Reviews!Step(w, [pc |-> "insert", rows |-> Append(reviewTxn[w].rows, Reviews!Evaluated(f))])
      BY <1>4 DEF Reviews!EvaluateMore
    <2>2. PICK rows : rows = Append(reviewTxn[w].rows, Reviews!Evaluated(f))
      OBVIOUS
    <2>3. Reviews!Evaluated(f) \in Row /\ Tells(Reviews!Evaluated(f))
      BY EvaluatedTells DEF ReviewInv
    <2>4. reviewTxn[w] \in Evaluation /\ \A i \in DOMAIN reviewTxn[w].rows : Tells(reviewTxn[w].rows[i])
      <3>1. Underway(reviewTxn[w], results) /\ reviewTxn[w].pc = "insert"
        BY <1>4 DEF ReviewInv, Reviews!EvaluateMore
      <3> QED BY <3>1 DEF Underway, Reviews!NoTxn, Reviewing
    <2>5. reviewTxn[w].rows \in Seq(Row)
      BY <2>4 DEF Evaluation
    <2>6. rows \in Seq(Row) /\ \A i \in DOMAIN rows : Tells(rows[i])
      BY <2>2, <2>3, <2>4, <2>5
    <2>7. PICK t : t = [pc |-> "insert", rows |-> rows]
      OBVIOUS
    <2>8. t \in Evaluation /\ t.rows = rows
      BY <2>6, <2>7 DEF Evaluation
    <2>9. Underway(t, results)
      BY <2>6, <2>8 DEF Underway
    <2>10. UNCHANGED <<day, results>> /\ Reviews!Step(w, t)
      BY <1>4, <2>1, <2>2, <2>7 DEF Reviews!EvaluateMore
    <2> QED BY <1>1, <2>9, <2>10
  <1>5. ASSUME NEW w \in Workers, Reviews!BeginReview(w)
        PROVE  ReviewInv'
    <2>1. PICK i \in DOMAIN results, decision \in Reviews!Decisions :
            Reviews!Step(w, [pc |-> "review", result |-> i, decision |-> decision,
                           read |-> results[i].status,
                           dated |-> Reviews!DatesSet(decision, results[i]),
                           day |-> day, seen |-> Len(results[i].reviews)])
      BY <1>5, Zenon DEF Reviews!BeginReview
    <2>2. PICK t : t = [pc |-> "review", result |-> i, decision |-> decision,
                        read |-> results[i].status,
                        dated |-> Reviews!DatesSet(decision, results[i]),
                        day |-> day, seen |-> Len(results[i].reviews)]
      OBVIOUS
    <2>3. results[i] \in Row /\ i \in Nat /\ day \in Nat
      BY DEF ReviewInv
    <2>4. PICK d : d = Reviews!DatesSet(decision, results[i])
      OBVIOUS
    <2>5. d \in BOOLEAN /\ (d <=> decision = "approved" /\ results[i].qualified = None)
      BY <2>4, Zenon DEF Reviews!DatesSet
    <2>6. results[i].reviews \in Seq(Review) /\ results[i].status \in Reviews!Statuses
      BY <2>3 DEF Row
    <2>7. t = [pc |-> "review", result |-> i, decision |-> decision, read |-> results[i].status,
               dated |-> d, day |-> day, seen |-> Len(results[i].reviews)]
      BY <2>2, <2>4, Zenon
    <2>8. t \in Reviewing
      BY <2>3, <2>5, <2>6, <2>7 DEF Reviewing
    <2>9. t.result = i /\ t.seen = Len(results[i].reviews) /\ t.read = results[i].status
          /\ t.decision = decision
      BY <2>7
    <2>10. t.dated = d
      BY <2>7, Zenon
    <2>11. Knows(t, results[i])
      BY <2>5, <2>6, <2>9, <2>10 DEF Knows
    <2>12. Underway(t, results)
      BY <2>8, <2>9, <2>11 DEF Underway
    <2>13. UNCHANGED <<day, results>> /\ Reviews!Step(w, t)
      BY <1>5, <2>1, <2>2, Zenon DEF Reviews!BeginReview
    <2> QED BY <1>1, <2>12, <2>13
  <1>6. ASSUME NEW w \in Workers, Reviews!Rollback(w)
        PROVE  ReviewInv'
    BY <1>1, <1>6 DEF Reviews!Rollback, Underway
  <1>7. CASE UNCHANGED Reviews!vars
    BY <1>7 DEF Reviews!vars, ReviewInv
  <1> QED BY <1>2, <1>3, <1>4, <1>5, <1>6, <1>7, Inserted, ReviewStored DEF Reviews!Next

\* Whatever reviews overlap, the status of a qualification result is that of
\* the last decision about it, or of its verdict when there is none, and
\* differs only if that review had not seen the one before; and what is
\* qualified has the dates it is qualified by (services/qualification.py,
\* review_qualification).
THEOREM StatusTellsReviews ==
    ASSUME Reviews!QualificationAssumption
    PROVE  Reviews!Spec => [](Reviews!TypeOK /\ Reviews!ReviewsTellStatus)
  <1>1. Reviews!Init => ReviewInv
    BY ReviewInit
  <1>2. ReviewInv /\ [Reviews!Next]_(Reviews!vars) => ReviewInv'
    BY ReviewKept
  <1>3. ReviewInv => Reviews!ReviewsTellStatus
    BY DEF ReviewInv, Tells, Reviews!ReviewsTellStatus
  <1>4. ReviewInv => Reviews!TypeOK
    <2> SUFFICES ASSUME ReviewInv
                 PROVE  Reviews!TypeOK
      OBVIOUS
    <2>1. Row = Reviews!Result
      BY DEF Row, Reviews!Result, Points, Dates, Review
    <2>2. \A w \in Workers : reviewTxn[w].pc \in {"idle", "insert", "review"}
      BY DEF ReviewInv, Underway, Reviews!NoTxn, Evaluation, Reviewing
    <2>3. day \in 0..MaxDay
      BY DEF ReviewInv, Reviews!QualificationAssumption
    <2> QED BY <2>1, <2>2, <2>3 DEF ReviewInv, Reviews!TypeOK
  <1> QED BY <1>1, <1>2, <1>3, <1>4, PTL DEF Reviews!Spec

-----------------------------------------------------------------------------
(* The crawls.  Their invariants are proved in CrawlJobsProofs, which is      *)
(* instantiated here as the composition instantiates CrawlJobs: what the      *)
(* instance says is the same of both.                                         *)

Proved == INSTANCE CrawlJobsProofs WITH
             row <- jobs, rows <- restaurants, pos <- nth, tx <- held

LEMMA SameCount == \A S : Crawls!Cardinality(S) = Proved!Cardinality(S)
  BY DEF Crawls!Cardinality, Proved!Cardinality

LEMMA SameFound == Crawls!AllFound = Proved!AllFound
  BY DEF Crawls!AllFound, Proved!AllFound, Crawls!Found, Proved!Found, Crawls!Asked,
         Proved!Asked, Crawls!Range, Proved!Range

LEMMA SameAssumption == Crawls!CrawlAssumption => Proved!CrawlAssumption
  BY SameFound
     DEF Crawls!CrawlAssumption, Proved!CrawlAssumption, Crawls!Several, Proved!Several

LEMMA SameInit == Crawls!Init => Proved!Init
  BY SameFound DEF Crawls!Init, Proved!Init

LEMMA SameNext == Crawls!Next => Proved!Next
  <1>1. ASSUME NEW j \in Jobs, Crawls!Create(j) PROVE Proved!Create(j)
    BY <1>1
       DEF Crawls!Create, Proved!Create, Crawls!data, Proved!data, Crawls!at, Proved!at,
           Crawls!Fault, Proved!Fault
  <1>2. ASSUME NEW j \in Jobs, Crawls!CreateCity(j) PROVE Proved!CreateCity(j)
    BY <1>2
       DEF Crawls!CreateCity, Proved!CreateCity, Crawls!data, Proved!data, Crawls!at,
           Proved!at, Crawls!Asked, Proved!Asked
  <1>3. ASSUME NEW j \in Jobs, Crawls!Begin(j) PROVE Proved!Begin(j)
    BY <1>3
       DEF Crawls!Begin, Proved!Begin, Crawls!data, Proved!data, Crawls!Asked, Proved!Asked,
           Crawls!SetRow, Proved!SetRow, Crawls!HasRow, Proved!HasRow
  <1>4. ASSUME NEW j \in Jobs, Crawls!UnknownSource(j) PROVE Proved!UnknownSource(j)
    BY <1>4
       DEF Crawls!UnknownSource, Proved!UnknownSource, Crawls!data, Proved!data, Crawls!at,
           Proved!at, Crawls!Asked, Proved!Asked, Crawls!SetRow, Proved!SetRow, Crawls!HasRow,
           Proved!HasRow
  <1>5. ASSUME NEW j \in Jobs, Crawls!Upsert(j) PROVE Proved!Upsert(j)
    BY <1>5
       DEF Crawls!Upsert, Proved!Upsert, Crawls!job, Proved!job, Crawls!data, Proved!data,
           Crawls!More, Proved!More, Crawls!Blocked, Proved!Blocked, Crawls!TwoRows,
           Proved!TwoRows, Crawls!Here, Proved!Here, Crawls!Batch, Proved!Batch
  <1>6. ASSUME NEW j \in Jobs, Crawls!CommitRecords(j) PROVE Proved!CommitRecords(j)
    BY <1>6, SameCount, SameFound
       DEF Crawls!CommitRecords, Proved!CommitRecords, Crawls!job, Proved!job, Crawls!More,
           Proved!More, Crawls!Batch, Proved!Batch, Crawls!Times, Proved!Times, Crawls!Advance,
           Proved!Advance, Crawls!at, Proved!at
  <1>7. ASSUME NEW j \in Jobs, Crawls!Finish(j) PROVE Proved!Finish(j)
    BY <1>7
       DEF Crawls!Finish, Proved!Finish, Crawls!data, Proved!data, Crawls!at, Proved!at,
           Crawls!SetRow, Proved!SetRow, Crawls!HasRow, Proved!HasRow
  <1>8. ASSUME NEW j \in Jobs, Crawls!AddressMissing(j) PROVE Proved!AddressMissing(j)
    BY <1>8
       DEF Crawls!AddressMissing, Proved!AddressMissing, Crawls!job, Proved!job, Crawls!data,
           Proved!data, Crawls!More, Proved!More, Crawls!TwoRows, Proved!TwoRows, Crawls!Here,
           Proved!Here, Crawls!Batch, Proved!Batch, Crawls!Raise, Proved!Raise,
           Crawls!Holding, Proved!Holding, Crawls!RollBack, Proved!RollBack, Crawls!Several,
           Proved!Several, Crawls!Advance, Proved!Advance, Crawls!at, Proved!at
  <1>9. ASSUME NEW j \in Jobs, Crawls!RowGone(j) PROVE Proved!RowGone(j)
    BY <1>9
       DEF Crawls!RowGone, Proved!RowGone, Crawls!job, Proved!job, Crawls!data, Proved!data,
           Crawls!HasRow, Proved!HasRow, Crawls!Raise, Proved!Raise,
           Crawls!Holding, Proved!Holding, Crawls!RollBack, Proved!RollBack, Crawls!Several,
           Proved!Several, Crawls!Advance, Proved!Advance, Crawls!at, Proved!at
  <1>10. ASSUME NEW j \in Jobs, Crawls!MarkFailed(j) PROVE Proved!MarkFailed(j)
    BY <1>10
       DEF Crawls!MarkFailed, Proved!MarkFailed, Crawls!data, Proved!data, Crawls!at,
           Proved!at, Crawls!SetRow, Proved!SetRow, Crawls!HasRow, Proved!HasRow
  <1>11. ASSUME NEW j \in Jobs, Crawls!Error(j) PROVE Proved!Error(j)
    BY <1>11
       DEF Crawls!Error, Proved!Error, Crawls!job, Proved!job, Crawls!data, Proved!data,
           Crawls!Fault, Proved!Fault, Crawls!Raise, Proved!Raise,
           Crawls!Holding, Proved!Holding, Crawls!RollBack, Proved!RollBack, Crawls!Several,
           Proved!Several, Crawls!Advance, Proved!Advance, Crawls!at, Proved!at
  <1>12. ASSUME NEW j \in Jobs, Crawls!DeadlockVictim(j) PROVE Proved!DeadlockVictim(j)
    BY <1>12
       DEF Crawls!DeadlockVictim, Proved!DeadlockVictim, Crawls!job, Proved!job, Crawls!data,
           Proved!data, Crawls!Deadlocked, Proved!Deadlocked, Crawls!WaitsFor, Proved!WaitsFor,
           Crawls!More, Proved!More, Crawls!Blocked, Proved!Blocked, Crawls!Here, Proved!Here,
           Crawls!Batch, Proved!Batch, Crawls!Raise, Proved!Raise,
           Crawls!Holding, Proved!Holding, Crawls!RollBack, Proved!RollBack, Crawls!Several,
           Proved!Several, Crawls!Advance, Proved!Advance, Crawls!at, Proved!at
  <1>13. ASSUME NEW j \in Jobs, Crawls!Crash(j) PROVE Proved!Crash(j)
    BY <1>13
       DEF Crawls!Crash, Proved!Crash, Crawls!job, Proved!job, Crawls!data, Proved!data,
           Crawls!at, Proved!at, Crawls!Fault, Proved!Fault, Crawls!Active, Proved!Active,
           Crawls!RollBack, Proved!RollBack
  <1>14. ASSUME Crawls!Tick PROVE Proved!Tick
    BY <1>14
       DEF Crawls!Tick, Proved!Tick, Crawls!data, Proved!data, Crawls!run, Proved!run,
           Crawls!at, Proved!at, Crawls!Active, Proved!Active, Crawls!Older, Proved!Older
  <1>15. ASSUME Crawls!Cleanup PROVE Proved!Cleanup
    BY <1>15
       DEF Crawls!Cleanup, Proved!Cleanup, Crawls!data, Proved!data, Crawls!run, Proved!run,
           Crawls!at, Proved!at, Crawls!Old, Proved!Old, Crawls!Stale, Proved!Stale
  <1>16. ASSUME NEW j \in Jobs, Crawls!LeaveBlock(j) PROVE Proved!LeaveBlock(j)
    BY <1>16
       DEF Crawls!LeaveBlock, Proved!LeaveBlock, Crawls!job, Proved!job, Crawls!data,
           Proved!data, Crawls!at, Proved!at, Crawls!RollBack, Proved!RollBack
  <1> QED BY <1>1, <1>2, <1>3, <1>4, <1>5, <1>6, <1>7, <1>8, <1>9, <1>10, <1>11, <1>12,
             <1>13, <1>14, <1>15, <1>16
          DEF Crawls!Next, Proved!Next, Crawls!Step, Proved!Step

LEMMA SameVars == UNCHANGED Crawls!vars => UNCHANGED Proved!vars
  BY DEF Crawls!vars, Proved!vars, Crawls!job, Proved!job, Crawls!data, Proved!data,
         Crawls!at, Proved!at, Crawls!run, Proved!run

LEMMA SameSpec == Crawls!Spec => Proved!Spec
  <1>1. [Crawls!Next]_(Crawls!vars) => [Proved!Next]_(Proved!vars)
    BY SameNext, SameVars
  <1> QED BY <1>1, SameInit, PTL DEF Crawls!Spec, Proved!Spec

\* A job's row tells its records and copies are faults, also beside the
\* services that use what it stores (tasks/crawl_tasks.py, crawl_source).
LEMMA CrawlsTell ==
    ASSUME Crawls!CrawlAssumption
    PROVE  Crawls!Spec => [](Crawls!TypeOK /\ Crawls!JobTellsRecords /\ Crawls!CopiesAreFaults)
  <1>1. Proved!Spec => []Proved!TypeOK
    BY Proved!TypeCorrect, SameAssumption
  <1>2. Proved!Spec => []Proved!JobTellsRecords
    BY Proved!RowsTellRecords, SameAssumption
  <1>3. Proved!Spec => []Proved!CopiesAreFaults
    BY Proved!CopiesOnlyByFault, SameAssumption
  <1>4. Proved!TypeOK => Crawls!TypeOK
    BY SameFound
       DEF Crawls!TypeOK, Proved!TypeOK, Crawls!Asked, Proved!Asked, Crawls!Batch, Proved!Batch
  <1>5. Proved!JobTellsRecords => Crawls!JobTellsRecords
    BY SameFound
       DEF Crawls!JobTellsRecords, Proved!JobTellsRecords, Crawls!DoneHasRecords,
           Proved!DoneHasRecords, Crawls!FailedStoresNothing, Proved!FailedStoresNothing,
           Crawls!Several, Proved!Several, Crawls!Found, Proved!Found, Crawls!Asked,
           Proved!Asked, Crawls!Range, Proved!Range
  <1>6. Proved!CopiesAreFaults => Crawls!CopiesAreFaults
    BY SameCount, SameFound
       DEF Crawls!CopiesAreFaults, Proved!CopiesAreFaults, Crawls!Listed, Proved!Listed,
           Crawls!Asked, Proved!Asked
  <1> QED BY <1>1, <1>2, <1>3, <1>4, <1>5, <1>6, SameSpec, PTL

-----------------------------------------------------------------------------
(* The engagement scores.                                                  *)

\* Whom the score of a run of this kind is about.
Audience(kind) == IF kind = "daily" THEN Leads ELSE Signals!Having(TRUE)

RunKinds == {"hourly", "daily"}

Counting == [pc : {"count"}, kind : RunKinds, leads : SUBSET Leads, version : Nat]

Writing == [pc : {"write"}, kind : RunKinds, version : Nat, new : Points,
            read : Points \cup {None}, runs : Nat]

\* As long as nothing has changed since a run began, it counts the audience as it
\* is now; and as long as no run was committed, it has read the score there is.
Current(t) ==
    /\ t.pc = "count" => /\ t.version <= happened
                         /\ t.version = happened => t.leads = Audience(t.kind)
    /\ t.pc = "write" => /\ t.version <= happened /\ t.runs <= runs
                         /\ t.version = happened =>
                                t.new = Signals!Engagement(Audience(t.kind))
                         /\ t.runs = runs => t.read = score

SignalTypes ==
    /\ events \subseteq Signals!Event
    /\ activities \subseteq Leads \X Signals!Activities
    /\ happened \in 0..MaxSignals /\ runs \in 0..MaxRuns
    /\ score \in Points \cup {None}
    /\ last \in Signals!Run \cup {None}
    /\ runTxn \in [Workers -> Counting \cup Writing \cup {Signals!NoTxn}]

SignalInv ==
    /\ SignalTypes
    /\ \A w \in Workers : Current(runTxn[w])
    /\ last # None => last.version <= happened
    /\ last # None /\ last.calm /\ last.version = happened =>
           score = Signals!Engagement(Audience(last.kind))

\* The quotient of what is less than the divisor's next multiple.
LEMMA Quotient ==
    ASSUME NEW n \in Nat, NEW d \in Nat \ {0}, NEW q \in Nat, n < (q + 1) * d
    PROVE  n \div d \in 0..q
  <1> DEFINE k == n \div d
  <1>1. k \in Int /\ d * k <= n /\ n < d * k + d
    BY Z3
  <1> HIDE DEF k
  <1>2. k >= 0
    <2> SUFFICES ASSUME k <= -1 PROVE FALSE
      BY <1>1
    <2>1. d * k <= d * (-1)
      BY <1>1, Z3
    <2> QED BY <1>1, <2>1
  <1>3. k <= q
    <2> SUFFICES ASSUME k >= q + 1 PROVE FALSE
      BY <1>1
    <2>1. d * k >= d * (q + 1)
      BY <1>1, Z3
    <2>2. d * (q + 1) = (q + 1) * d
      BY Z3
    <2> QED BY <1>1, <2>1, <2>2
  <1> QED BY <1>1, <1>2, <1>3 DEF k

\* A greater factor makes no smaller product.
LEMMA Product == ASSUME NEW a \in Nat, NEW b \in Nat, NEW c \in Nat, a <= b
    PROVE a * c <= b * c /\ a * c \in Nat /\ c * a = a * c
  BY Z3

\* Rates of at most 1, weighted and rounded, make a score in its range.
LEMMA PointsBound ==
    ASSUME NEW o \in Nat, NEW c \in Nat, NEW r \in Nat, NEW m \in Nat, NEW s \in Nat \ {0},
           NEW a \in Nat \ {0}, o <= s, c <= s, r + m <= a, NEW n, NEW d,
           n = 2 * (3000 * (o + c) * a + (2500 * r + 1500 * m) * s) + s * a, d = 2 * s * a
    PROVE  n \in Nat /\ d \in Nat \ {0} /\ n < (10000 + 1) * d
  <1>1. PICK p : p = s * a
    OBVIOUS
  <1>2. p \in Nat \ {0}
    BY <1>1, Z3
  <1>3. 3000 * (o + c) * a <= 6000 * p /\ 3000 * (o + c) * a \in Nat
    <2>1. 3000 * (o + c) <= 6000 * s
      OBVIOUS
    <2>2. 3000 * (o + c) \in Nat /\ 6000 * s \in Nat
      OBVIOUS
    <2>3. (3000 * (o + c)) * a <= (6000 * s) * a /\ (3000 * (o + c)) * a \in Nat
      BY <2>1, <2>2, Product
    <2>4. (6000 * s) * a = 6000 * (s * a)
      BY Z3
    <2> QED BY <1>1, <2>3, <2>4
  <1>4. (2500 * r + 1500 * m) * s <= 2500 * p /\ (2500 * r + 1500 * m) * s \in Nat
    <2>1. 2500 * r + 1500 * m <= 2500 * a
      OBVIOUS
    <2>2. 2500 * r + 1500 * m \in Nat /\ 2500 * a \in Nat
      OBVIOUS
    <2>3. (2500 * r + 1500 * m) * s <= (2500 * a) * s /\ (2500 * r + 1500 * m) * s \in Nat
      BY <2>1, <2>2, Product
    <2>4. (2500 * a) * s = 2500 * (s * a)
      BY Z3
    <2> QED BY <1>1, <2>3, <2>4
  <1>5. 2 * s * a = 2 * p
    BY <1>1, Z3
  <1>6. PICK x, y : x = 3000 * (o + c) * a /\ y = (2500 * r + 1500 * m) * s
    OBVIOUS
  <1>7. n = 2 * (x + y) + p /\ d = 2 * p
    BY <1>1, <1>5, <1>6
  <1> QED BY <1>2, <1>3, <1>4, <1>6, <1>7

LEMMA FourAreFinite == \A a, b, c, d : IsFiniteSet({a, b, c, d})
  <1> TAKE a, b, c, d
  <1>1. IsFiniteSet({a} \cup {b})
    BY FS_Singleton, FS_AddElement
  <1>2. IsFiniteSet(({a} \cup {b}) \cup {c})
    BY <1>1, FS_AddElement
  <1>3. IsFiniteSet((({a} \cup {b}) \cup {c}) \cup {d})
    BY <1>2, FS_AddElement
  <1>4. {a, b, c, d} = (({a} \cup {b}) \cup {c}) \cup {d}
    OBVIOUS
  <1> QED BY <1>3, <1>4

LEMMA SignalsCount == \A S : Signals!Cardinality(S) = Cardinality(S)
  BY DEF Signals!Cardinality, Cardinality

\* Whoever has an event is a lead, there are finitely many events of a type and
\* of what was done, and what was done is at most all that was done.
LEMMA Counts ==
    ASSUME Signals!EngagementAssumption, SignalTypes, NEW leads \in SUBSET Leads
    PROVE  /\ \A kind : Signals!Cardinality({a \in activities : a[1] \in leads /\ a[2] = kind}) \in Nat
           /\ \A type \in Signals!Types :
                 Signals!Cardinality({e \in events : e.lead \in leads /\ e.type = type}) \in Nat
  <1>1. IsFiniteSet(Leads)
    BY DEF Signals!EngagementAssumption, Signals!IsFiniteSet, IsFiniteSet
  <1>2. IsFiniteSet(Signals!Activities) /\ IsFiniteSet(Signals!Types) /\ IsFiniteSet(BOOLEAN)
    <2>1. IsFiniteSet({"reply", "meeting", "other", "other"})
      BY FourAreFinite
    <2>2. IsFiniteSet({"delivery", "open", "click", "bounce"})
      BY FourAreFinite
    <2>3. IsFiniteSet({TRUE, FALSE, FALSE, FALSE})
      BY FourAreFinite
    <2>4. /\ {"reply", "meeting", "other", "other"} = Signals!Activities
          /\ {"delivery", "open", "click", "bounce"} = Signals!Types
          /\ {TRUE, FALSE, FALSE, FALSE} = BOOLEAN
      BY DEF Signals!Activities, Signals!Types
    <2> QED BY <2>1, <2>2, <2>3, <2>4
  <1>3. IsFiniteSet(activities)
    <2>1. IsFiniteSet(Leads \X Signals!Activities)
      BY <1>1, <1>2, FS_Product
    <2> QED BY <2>1, FS_Subset DEF SignalTypes
  <1>4. IsFiniteSet(events)
    <2>1. IsFiniteSet((Leads \X Signals!Types) \X BOOLEAN)
      BY <1>1, <1>2, FS_Product
    <2>2. PICK f : f = [p \in (Leads \X Signals!Types) \X BOOLEAN |->
                           [lead |-> p[1][1], type |-> p[1][2], recent |-> p[2]]]
      OBVIOUS
    <2>3. events \subseteq {f[p] : p \in DOMAIN f}
      <3> SUFFICES ASSUME NEW e \in events
                   PROVE  \E p \in DOMAIN f : e = f[p]
        OBVIOUS
      <3>1. e \in Signals!Event
        BY DEF SignalTypes
      <3>2. e = [lead |-> e.lead, type |-> e.type, recent |-> e.recent]
            /\ <<<<e.lead, e.type>>, e.recent>> \in (Leads \X Signals!Types) \X BOOLEAN
        BY <3>1 DEF Signals!Event
      <3> QED BY <2>2, <3>2
    <2>4. IsFiniteSet({f[p] : p \in DOMAIN f})
      <3>1. PICK T, S : T = {f[p] : p \in DOMAIN f} /\ S = DOMAIN f
        OBVIOUS
      <3>2. f \in Surjection(S, T)
        BY <2>2, <3>1 DEF Surjection
      <3>3. IsFiniteSet(S)
        BY <2>1, <2>2, <3>1
      <3> QED BY <3>1, <3>2, <3>3, FS_Surjection
    <2> QED BY <2>3, <2>4, FS_Subset
  <1>5. ASSUME NEW kind
        PROVE  Cardinality({a \in activities : a[1] \in leads /\ a[2] = kind}) \in Nat
    <2>1. {a \in activities : a[1] \in leads /\ a[2] = kind} \subseteq activities
      OBVIOUS
    <2> QED BY <1>3, <2>1, FS_Subset, FS_CardinalityType
  <1>6. ASSUME NEW type
        PROVE  Cardinality({e \in events : e.lead \in leads /\ e.type = type}) \in Nat
    <2>1. {e \in events : e.lead \in leads /\ e.type = type} \subseteq events
      OBVIOUS
    <2> QED BY <1>4, <2>1, FS_Subset, FS_CardinalityType
  <1> QED BY <1>5, <1>6, SignalsCount

LEMMA EngagementRange ==
    ASSUME Signals!EngagementAssumption, SignalTypes, NEW leads \in SUBSET Leads
    PROVE  Signals!Engagement(leads) \in 0..10000
  <1> DEFINE of(type)  == Signals!Cardinality({e \in events : e.lead \in leads /\ e.type = type})
             did(kind) == Signals!Cardinality({a \in activities : a[1] \in leads /\ a[2] = kind})
             total  == did("reply") + did("meeting") + did("other")
             sends  == Signals!Greatest(Signals!Greatest(of("delivery"), total), 1)
             acts   == Signals!Greatest(total, 1)
             o      == Signals!Least(of("open"), sends)
             c      == Signals!Least(of("click"), sends)
             r      == did("reply")
             m      == did("meeting")
             points == 3000 * (o + c) * acts + (2500 * r + 1500 * m) * sends
             n      == 2 * points + sends * acts
             d      == 2 * sends * acts
  <1>1. Signals!Engagement(leads) = n \div d
    BY DEF Signals!Engagement
  <1>2. /\ did("reply") \in Nat /\ did("meeting") \in Nat /\ did("other") \in Nat
        /\ of("delivery") \in Nat /\ of("open") \in Nat /\ of("click") \in Nat
    BY Counts DEF Signals!Types
  <1> HIDE DEF of, did
  <1>3. total \in Nat /\ r + m <= total /\ r \in Nat /\ m \in Nat
    BY <1>2
  <1> HIDE DEF total, r, m
  <1>4. sends \in Nat \ {0} /\ acts \in Nat \ {0} /\ r + m <= acts
    BY <1>2, <1>3 DEF Signals!Greatest
  <1> HIDE DEF sends, acts
  <1>5. o \in Nat /\ c \in Nat /\ o <= sends /\ c <= sends
    BY <1>2, <1>4 DEF Signals!Least
  <1> HIDE DEF o, c
  <1>6. /\ n = 2 * (3000 * (o + c) * acts + (2500 * r + 1500 * m) * sends) + sends * acts
        /\ d = 2 * sends * acts
    OBVIOUS
  <1> HIDE DEF n, d
  <1>7. PICK q \in Nat : q = 10000
    OBVIOUS
  <1>8. n \in Nat /\ d \in Nat \ {0} /\ n < (10000 + 1) * d
    BY <1>3, <1>4, <1>5, <1>6, PointsBound
  <1>9. n < (q + 1) * d
    BY <1>7, <1>8
  <1>10. n \div d \in 0..q
    BY <1>8, <1>9, Quotient
  <1>11. Signals!Engagement(leads) \in 0..q
    BY <1>1, <1>10, Zenon
  <1> QED BY <1>7, <1>11


\* Who runs is of one of three kinds, and each kind tells its fields.
LEMMA SignalSteps ==
    ASSUME SignalTypes, NEW w \in Workers
    PROVE  /\ runTxn[w] \in Counting \cup Writing \cup {Signals!NoTxn}
           /\ runTxn[w].pc = "count" => runTxn[w] \in Counting
           /\ runTxn[w].pc = "write" => runTxn[w] \in Writing
           /\ Signals!NoTxn.pc = "idle"
  <1>1. runTxn[w] \in Counting \cup Writing \cup {Signals!NoTxn}
    BY DEF SignalTypes
  <1>2. \A t \in Counting : t.pc = "count"
    BY DEF Counting
  <1>3. \A t \in Writing : t.pc = "write"
    BY DEF Writing
  <1>4. Signals!NoTxn.pc = "idle"
    BY DEF Signals!NoTxn
  <1> QED BY <1>1, <1>2, <1>3, <1>4

LEMMA SignalInit == ASSUME Signals!EngagementAssumption, Signals!Init PROVE SignalInv
  <1>1. SignalTypes
    BY DEF Signals!Init, SignalTypes, Signals!EngagementAssumption
  <1>2. ASSUME NEW w \in Workers PROVE Current(runTxn[w])
    <2>1. runTxn[w].pc = "idle"
      BY DEF Signals!Init, Signals!NoTxn
    <2> QED BY <2>1 DEF Current
  <1> QED BY <1>1, <1>2 DEF SignalInv, Signals!Init

\* Whatever changes events or activities makes every run that is on its way, and
\* the last one that was committed, one of an earlier version.
LEMMA SignalChange ==
    ASSUME SignalInv, Signals!Change, events' \subseteq Signals!Event,
           activities' \subseteq Leads \X Signals!Activities, Signals!EngagementAssumption
    PROVE  SignalInv'
  <1>1. /\ SignalTypes /\ happened \in Nat /\ MaxSignals \in Nat /\ happened < MaxSignals
        /\ happened' = happened + 1
        /\ UNCHANGED <<score, last, runs, runTxn>>
    BY DEF SignalInv, SignalTypes, Signals!Change, Signals!EngagementAssumption
  <1>2. SignalTypes'
    BY <1>1 DEF SignalTypes
  <1>3. ASSUME NEW w \in Workers PROVE Current(runTxn[w])'
    <2>1. Current(runTxn[w]) /\ runTxn'[w] = runTxn[w]
      BY <1>1 DEF SignalInv
    <2>2. /\ runTxn[w].pc = "count" => runTxn[w].version \in Nat
          /\ runTxn[w].pc = "write" => runTxn[w].version \in Nat /\ runTxn[w].runs \in Nat
      <3>1. \A t \in Counting : t.version \in Nat
        BY DEF Counting
      <3>2. \A t \in Writing : t.version \in Nat /\ t.runs \in Nat
        BY DEF Writing
      <3> QED BY <1>1, <3>1, <3>2, SignalSteps
    <2> QED BY <1>1, <2>1, <2>2 DEF Current
  <1>4. last # None => last \in Signals!Run /\ last.version <= happened
    BY <1>1 DEF SignalInv, SignalTypes
  <1>5. last # None => last.version \in Nat
    BY <1>4 DEF Signals!Run
  <1>6. last # None => last.version <= happened' /\ last.version # happened'
    BY <1>1, <1>4, <1>5
  <1> QED BY <1>1, <1>2, <1>3, <1>6 DEF SignalInv

LEMMA SignalChanges ==
    ASSUME SignalInv, Signals!EngagementAssumption,
           \/ \E l \in Leads : Signals!AddEvent(l) \/ Signals!LogActivity(l) \/ Signals!Erase(l)
           \/ Signals!Tomorrow
    PROVE  SignalInv'
  <1>1. events \subseteq Signals!Event /\ activities \subseteq Leads \X Signals!Activities
    BY DEF SignalInv, SignalTypes
  <1>2. ASSUME NEW l \in Leads, Signals!AddEvent(l) PROVE SignalInv'
    <2>1. PICK type \in Signals!Types :
             events' = events \cup {[lead |-> l, type |-> type, recent |-> TRUE]}
      BY <1>2 DEF Signals!AddEvent
    <2>2. events' \subseteq Signals!Event
      <3>1. [lead |-> l, type |-> type, recent |-> TRUE] \in Signals!Event
        BY DEF Signals!Event
      <3> QED BY <1>1, <2>1, <3>1
    <2> QED BY <1>1, <1>2, <2>2, SignalChange DEF Signals!AddEvent
  <1>3. ASSUME NEW l \in Leads, Signals!LogActivity(l) PROVE SignalInv'
    <2>1. activities' \subseteq Leads \X Signals!Activities /\ events' = events
      BY <1>1, <1>3 DEF Signals!LogActivity
    <2> QED BY <1>1, <1>3, <2>1, SignalChange DEF Signals!LogActivity
  <1>4. ASSUME NEW l \in Leads, Signals!Erase(l) PROVE SignalInv'
    <2>1. events' \subseteq Signals!Event /\ activities' \subseteq Leads \X Signals!Activities
      BY <1>1, <1>4 DEF Signals!Erase
    <2> QED BY <1>4, <2>1, SignalChange DEF Signals!Erase
  <1>5. ASSUME Signals!Tomorrow PROVE SignalInv'
    <2>1. events' = {[e EXCEPT !.recent = FALSE] : e \in events}
      BY <1>5 DEF Signals!Tomorrow
    <2>2. \A e \in events : [e EXCEPT !.recent = FALSE] \in Signals!Event
      BY <1>1 DEF Signals!Event
    <2>3. events' \subseteq Signals!Event
      <3> SUFFICES ASSUME NEW x \in events' PROVE x \in Signals!Event
        OBVIOUS
      <3>1. PICK e \in events : x = [e EXCEPT !.recent = FALSE]
        BY <2>1
      <3> QED BY <2>2, <3>1
    <2> QED BY <1>1, <1>5, <2>3, SignalChange DEF Signals!Tomorrow
  <1> QED BY <1>2, <1>3, <1>4, <1>5

\* A step of a worker that leaves the data alone keeps the invariant if what it
\* opens is as a transaction should be.
LEMMA SignalOpens ==
    ASSUME SignalInv, NEW w \in Workers, NEW t \in Counting \cup Writing \cup {Signals!NoTxn},
           Current(t), Signals!Step(w, t),
           UNCHANGED <<events, activities, happened, score, last, runs>>
    PROVE  SignalInv'
  <1>1. SignalTypes /\ runTxn' = [runTxn EXCEPT ![w] = t]
    BY DEF SignalInv, Signals!Step
  <1>2. SignalTypes'
    BY <1>1 DEF SignalTypes
  <1>3. \A kind : Audience(kind)' = Audience(kind)
    BY DEF Audience, Signals!Having
  <1>4. \A leads : Signals!Engagement(leads)' = Signals!Engagement(leads)
    BY DEF Signals!Engagement
  <1>5. ASSUME NEW v \in Workers PROVE Current(runTxn[v])'
    <2>1. PICK u : u = IF v = w THEN t ELSE runTxn[v]
      OBVIOUS
    <2>2. runTxn'[v] = u /\ Current(u)
      BY <1>1, <2>1 DEF SignalTypes, SignalInv
    <2>3. Current(u) => Current(runTxn[v])'
      BY <1>3, <1>4, <2>2 DEF Current
    <2> QED BY <2>2, <2>3
  <1> QED BY <1>2, <1>3, <1>4, <1>5 DEF SignalInv

LEMMA SignalBegin ==
    ASSUME SignalInv, NEW w \in Workers, Signals!BeginRun(w)
    PROVE  SignalInv'
  <1>1. PICK kind \in RunKinds :
           /\ Signals!Counted(kind) # {}
           /\ Signals!Step(w, [pc |-> "count", kind |-> kind, leads |-> Signals!Counted(kind),
                               version |-> happened])
    BY DEF Signals!BeginRun, RunKinds
  <1>2. Signals!Counted(kind) = Audience(kind) /\ Audience(kind) \subseteq Leads
    BY <1>1 DEF Signals!Counted, Audience, RunKinds, Signals!Having
  <1>3. PICK t : t = [pc |-> "count", kind |-> kind, leads |-> Signals!Counted(kind),
                      version |-> happened]
    OBVIOUS
  <1>4. happened \in Nat
    BY DEF SignalInv, SignalTypes
  <1>5. t \in Counting /\ Current(t)
    BY <1>2, <1>3, <1>4 DEF Counting, Current
  <1> QED BY <1>1, <1>3, <1>5, SignalOpens DEF Signals!BeginRun

LEMMA SignalCount ==
    ASSUME SignalInv, Signals!EngagementAssumption, NEW w \in Workers, Signals!Count(w)
    PROVE  SignalInv'
  <1>1. PICK u : u = runTxn[w]
    OBVIOUS
  <1>2. u \in Counting /\ Current(u) /\ u.pc = "count"
    BY <1>1, SignalSteps DEF Signals!Count, SignalInv
  <1>3. /\ u.kind \in RunKinds /\ u.leads \in SUBSET Leads /\ u.version \in Nat
        /\ u.version <= happened /\ (u.version = happened => u.leads = Audience(u.kind))
    BY <1>2 DEF Counting, Current
  <1>4. PICK n : n = Signals!Engagement(u.leads)
    OBVIOUS
  <1>5. n \in Points
    BY <1>3, <1>4, EngagementRange DEF SignalInv, Points
  <1>6. PICK t : t = [pc |-> "write", kind |-> u.kind, version |-> u.version,
                      new |-> n, read |-> score, runs |-> runs]
    OBVIOUS
  <1>7. score \in Points \cup {None} /\ runs \in Nat
    BY DEF SignalInv, SignalTypes
  <1>8. t \in Writing
    BY <1>3, <1>5, <1>6, <1>7 DEF Writing
  <1>9. Current(t)
    BY <1>3, <1>4, <1>6, <1>7 DEF Current
  <1>10. Signals!Step(w, t)
    BY <1>1, <1>4, <1>6 DEF Signals!Count
  <1> QED BY <1>8, <1>9, <1>10, SignalOpens DEF Signals!Count

LEMMA SignalCommit ==
    ASSUME SignalInv, Signals!EngagementAssumption, NEW w \in Workers, Signals!CommitRun(w)
    PROVE  SignalInv'
  <1>1. PICK t : t = runTxn[w]
    OBVIOUS
  <1>2. SignalTypes /\ t \in Writing /\ Current(t) /\ t.pc = "write"
    BY <1>1, SignalSteps DEF Signals!CommitRun, SignalInv
  <1>3. /\ t.kind \in RunKinds /\ t.version \in Nat /\ t.new \in Points /\ t.runs \in Nat
        /\ t.version <= happened
        /\ t.version = happened => t.new = Signals!Engagement(Audience(t.kind))
        /\ t.runs = runs => t.read = score
    <2>1. t.kind \in RunKinds /\ t.version \in Nat /\ t.new \in Points /\ t.runs \in Nat
      BY <1>2 DEF Writing
    <2> QED BY <1>2, <2>1 DEF Current
  <1>4. /\ runs < MaxRuns /\ runs' = runs + 1
        /\ score' = IF t.new = t.read THEN score ELSE t.new
        /\ last' = [kind |-> t.kind, version |-> t.version, calm |-> t.runs = runs]
        /\ runTxn' = [runTxn EXCEPT ![w] = Signals!NoTxn]
        /\ UNCHANGED <<events, activities, happened>>
    BY <1>1 DEF Signals!CommitRun, Signals!Step
  <1>5. /\ runs \in Nat /\ MaxRuns \in Nat /\ score \in Points \cup {None}
        /\ happened \in Nat
    BY <1>2 DEF SignalTypes, Signals!EngagementAssumption
  <1>6. score' \in Points \cup {None} /\ runs' \in 0..MaxRuns
    BY <1>3, <1>4, <1>5
  <1>7. last' \in Signals!Run
    BY <1>3, <1>4 DEF Signals!Run, RunKinds
  <1>8. SignalTypes'
    BY <1>2, <1>4, <1>6, <1>7 DEF SignalTypes
  <1>9. \A kind : Audience(kind)' = Audience(kind)
    BY <1>4 DEF Audience, Signals!Having
  <1>10. \A leads : Signals!Engagement(leads)' = Signals!Engagement(leads)
    BY <1>4 DEF Signals!Engagement
  <1>11. ASSUME NEW v \in Workers PROVE Current(runTxn[v])'
    <2>1. CASE v = w
      <3>1. runTxn'[v].pc = "idle"
        BY <1>2, <1>4, <2>1, SignalSteps DEF SignalTypes
      <3> QED BY <3>1 DEF Current
    <2>2. CASE v # w
      <3>1. PICK u : u = runTxn[v]
        OBVIOUS
      <3>2. runTxn'[v] = u /\ Current(u) /\ (u.pc = "write" => u.runs \in Nat)
        <4>1. runTxn'[v] = u /\ Current(u)
          BY <1>2, <1>4, <2>2, <3>1 DEF SignalTypes, SignalInv
        <4>2. \A a \in Writing : a.runs \in Nat
          BY DEF Writing
        <4> QED BY <1>2, <3>1, <4>1, <4>2, SignalSteps
      <3>3. u.pc = "write" => u.runs <= runs' /\ u.runs # runs'
        BY <1>4, <1>5, <3>2 DEF Current
      <3> QED BY <1>4, <1>9, <1>10, <3>2, <3>3 DEF Current
    <2> QED BY <2>1, <2>2
  <1>12. last'.version <= happened'
    BY <1>3, <1>4
  <1>13. last'.calm /\ last'.version = happened' => score' = Signals!Engagement(Audience(t.kind))
    <2>1. last'.calm = (t.runs = runs) /\ last'.version = t.version
      BY <1>4
    <2> SUFFICES ASSUME t.runs = runs, t.version = happened
                 PROVE  score' = Signals!Engagement(Audience(t.kind))
      BY <1>4, <2>1
    <2>2. score' = t.new
      BY <1>3, <1>4
    <2> QED BY <1>3, <2>2
  <1>14. last'.kind = t.kind
    BY <1>4
  <1> QED BY <1>8, <1>9, <1>10, <1>11, <1>12, <1>13, <1>14 DEF SignalInv

LEMMA SignalGiveUp ==
    ASSUME SignalInv, NEW w \in Workers, Signals!GiveUp(w)
    PROVE  SignalInv'
  <1>1. Current(Signals!NoTxn)
    BY DEF Current, Signals!NoTxn
  <1> QED BY <1>1, SignalOpens DEF Signals!GiveUp

LEMMA SignalNext ==
    ASSUME SignalInv, Signals!EngagementAssumption, [Signals!Next]_(Signals!vars)
    PROVE  SignalInv'
  <1>1. CASE UNCHANGED Signals!vars
    <2>1. UNCHANGED <<events, activities, happened, score, last, runs, runTxn>>
      BY <1>1 DEF Signals!vars
    <2>2. \A kind : Audience(kind)' = Audience(kind)
      BY <2>1 DEF Audience, Signals!Having
    <2>3. \A leads : Signals!Engagement(leads)' = Signals!Engagement(leads)
      BY <2>1 DEF Signals!Engagement
    <2>4. SignalTypes'
      BY <2>1 DEF SignalTypes, SignalInv
    <2>5. ASSUME NEW w \in Workers PROVE Current(runTxn[w])'
      BY <2>1, <2>2, <2>3 DEF SignalInv, Current
    <2> QED BY <2>1, <2>2, <2>3, <2>4, <2>5 DEF SignalInv
  <1>2. CASE Signals!Next
    BY <1>2, SignalChanges, SignalBegin, SignalCount, SignalCommit, SignalGiveUp
       DEF Signals!Next
  <1> QED BY <1>1, <1>2

\* A score tells the events, unless something has changed since its run began or
\* another run was committed while it counted (tasks/engagement_tasks.py).
THEOREM EventsTold ==
    ASSUME Signals!EngagementAssumption
    PROVE  Signals!Spec => [](Signals!TypeOK /\ Signals!ScoreTellsEvents)
  <1>1. Signals!Init => SignalInv
    BY SignalInit
  <1>2. SignalInv /\ [Signals!Next]_(Signals!vars) => SignalInv'
    BY SignalNext
  <1>3. SignalInv => Signals!TypeOK
    <2> SUFFICES ASSUME SignalInv PROVE Signals!TypeOK
      OBVIOUS
    <2>1. \A t \in Counting \cup Writing : t.pc \in {"count", "write"}
      BY DEF Counting, Writing
    <2>2. \A w \in Workers : runTxn[w].pc \in {"idle", "count", "write"}
      BY <2>1, SignalSteps DEF SignalInv
    <2> QED BY <2>2 DEF SignalInv, SignalTypes, Signals!TypeOK, Points
  <1>4. SignalInv => Signals!ScoreTellsEvents
    BY DEF SignalInv, Audience, Signals!ScoreTellsEvents
  <1> QED BY <1>1, <1>2, <1>3, <1>4, PTL DEF Signals!Spec


-----------------------------------------------------------------------------
(* The scores of restaurants.                                              *)

LEMMA LogsGrow ==
    \A a, b \in Ratings!Reviews :
        /\ a \in Nat /\ Logs[a] \in Nat /\ Logs[a] <= 10000
        /\ a <= b => Logs[a] <= Logs[b]
  <1>1. /\ Ratings!Reviews \subseteq Nat /\ Logs \in [Ratings!Reviews -> Ratings!Share]
        /\ \A m, n \in Ratings!Reviews : m <= n => Logs[m] <= Logs[n]
    BY DerivedAssumption, Zenon DEF Ratings!ScoreAssumption
  <1>2. \A k \in Ratings!Share : k \in Nat /\ k <= 10000
    BY SMT DEF Ratings!Share
  <1> QED BY <1>1, <1>2

LEMMA ListingFields ==
    ASSUME NEW l \in Ratings!Listing
    PROVE  /\ l.chain \in BOOLEAN /\ l.reviews \in Ratings!Reviews /\ l.reviews \in Nat
           /\ l.rating \in {"low", "good", "top"} /\ l.cuisine \in {"unknown", "fine", "other"}
           /\ l.price \in 0..4 /\ l.located \in BOOLEAN
  <1>1. /\ l.chain \in BOOLEAN /\ l.reviews \in Ratings!Reviews
        /\ l.rating \in Ratings!Ratings /\ l.cuisine \in Ratings!Cuisines
        /\ l.price \in Ratings!Prices /\ l.located \in BOOLEAN
    BY DEF Ratings!Listing
  <1> QED BY <1>1, LogsGrow DEF Ratings!Ratings, Ratings!Cuisines, Ratings!Prices

LEMMA RecordFields ==
    ASSUME NEW s \in Ratings!Records
    PROVE  s.platforms \in 0..3 /\ s.pos \in {"none", "legacy", "unknown", "modern"}
  BY DEF Ratings!Records, Ratings!Platforms, Ratings!Pos

\* Every signal is of its range.
LEMMA ListingSignals ==
    ASSUME NEW l \in Ratings!Listing
    PROVE  /\ Ratings!IndependentSignal(l) \in Nat /\ Ratings!IndependentSignal(l) <= 10000
           /\ Ratings!VolumeSignal(l) \in Nat /\ Ratings!VolumeSignal(l) <= 10000
           /\ Ratings!CuisineSignal(l) \in Nat /\ Ratings!CuisineSignal(l) <= 10000
           /\ Ratings!PriceSignal(l) \in Nat /\ Ratings!PriceSignal(l) <= 10000
           /\ Ratings!EngagementSignal(l) \in Nat /\ Ratings!EngagementSignal(l) <= 10000
  <1>1. Ratings!IndependentSignal(l) \in Nat /\ Ratings!IndependentSignal(l) <= 10000
    BY DEF Ratings!IndependentSignal
  <1>2. PICK n \in Nat : n = l.reviews
    BY ListingFields
  <1>3. Ratings!VolumeSignal(l) \in Nat /\ Ratings!VolumeSignal(l) <= 10000
    <2>1. Logs[l.reviews] \in Nat /\ Logs[l.reviews] <= 10000
      BY ListingFields, LogsGrow
    <2>2. PICK g \in Nat : g = Logs[n]
      BY <1>2, <2>1
    <2> QED BY <1>2, <2>1, <2>2 DEF Ratings!VolumeSignal, Ratings!Capped
  <1>4. Ratings!CuisineSignal(l) \in Nat /\ Ratings!CuisineSignal(l) <= 10000
    BY ListingFields DEF Ratings!CuisineSignal
  <1>5. Ratings!PriceSignal(l) \in Nat /\ Ratings!PriceSignal(l) <= 10000
    BY ListingFields DEF Ratings!PriceSignal
  <1>6. Ratings!EngagementSignal(l) \in Nat /\ Ratings!EngagementSignal(l) <= 10000
    BY <1>2 DEF Ratings!EngagementSignal, Ratings!Capped
  <1> QED BY <1>1, <1>3, <1>4, <1>5, <1>6

LEMMA RecordSignals ==
    ASSUME NEW s \in Ratings!Records
    PROVE  /\ Ratings!PlatformSignal(s.platforms) \in Nat
           /\ Ratings!PlatformSignal(s.platforms) <= 10000
           /\ Ratings!PosSignal(s.pos) \in Nat /\ Ratings!PosSignal(s.pos) <= 10000
  <1>1. s.platforms \in 0..3 /\ s.pos \in {"none", "legacy", "unknown", "modern"}
    BY RecordFields
  <1> QED BY <1>1 DEF Ratings!PlatformSignal, Ratings!PosSignal

LEMMA Penalties ==
    ASSUME NEW l \in Ratings!Listing, NEW n \in Nat
    PROVE  Ratings!Penalty(l, n) \in Nat /\ Ratings!Penalty(l, n) <= 75
  <1>1. PICK k \in Nat : k = l.reviews
    BY ListingFields
  <1>2. PICK c \in Nat : c = Ratings!CuisineSignal(l)
    BY ListingSignals
  <1> QED BY <1>1, <1>2 DEF Ratings!Penalty

LEMMA WeightedRange ==
    ASSUME NEW i \in Nat, NEW p \in Nat, NEW o \in Nat, NEW d \in Nat, NEW v \in Nat,
           NEW c \in Nat, NEW r \in Nat, NEW e \in Nat
    PROVE  Ratings!Weighted(i, p, o, d, v, c, r, e) \in Nat
  BY DEF Ratings!Weighted

LEMMA RoundedGrow ==
    ASSUME NEW a \in Nat, NEW b \in Nat, NEW p \in Nat, NEW q \in Nat, a - p <= b - q
    PROVE  /\ (Ratings!AtLeast0(a, p) + 50) \div 100 \in Nat
           /\ (Ratings!AtLeast0(b, q) + 50) \div 100 \in Nat
           /\ (Ratings!AtLeast0(a, p) + 50) \div 100 <= (Ratings!AtLeast0(b, q) + 50) \div 100
  <1>1. Ratings!AtLeast0(a, p) \in Nat /\ Ratings!AtLeast0(b, q) \in Nat
        /\ Ratings!AtLeast0(a, p) <= Ratings!AtLeast0(b, q)
    BY DEF Ratings!AtLeast0
  <1>2. PICK x, y \in Nat : x = Ratings!AtLeast0(a, p) /\ y = Ratings!AtLeast0(b, q)
    BY <1>1
  <1>3. (x + 50) \div 100 \in Nat /\ (y + 50) \div 100 \in Nat
    OBVIOUS
  <1>4. (x + 50) \div 100 <= (y + 50) \div 100
    BY <1>1, <1>2
  <1> QED BY <1>2, <1>3, <1>4

\* What is no worse in any signal, and has no greater penalty, scores no lower.
LEMMA NoWorse ==
    ASSUME NEW l \in Ratings!Listing, NEW m \in Ratings!Listing,
           NEW s \in Ratings!Records, NEW u \in Ratings!Records, NEW d \in Nat,
           Ratings!IndependentSignal(m) >= Ratings!IndependentSignal(l),
           Ratings!PlatformSignal(u.platforms) >= Ratings!PlatformSignal(s.platforms),
           Ratings!PosSignal(u.pos) >= Ratings!PosSignal(s.pos),
           Ratings!VolumeSignal(m) >= Ratings!VolumeSignal(l),
           Ratings!CuisineSignal(m) = Ratings!CuisineSignal(l),
           Ratings!PriceSignal(m) = Ratings!PriceSignal(l),
           Ratings!EngagementSignal(m) >= Ratings!EngagementSignal(l),
           Ratings!Penalty(m, u.platforms) <= Ratings!Penalty(l, s.platforms)
    PROVE  Ratings!Total(m, u, d) >= Ratings!Total(l, s, d)
  <1> DEFINE i == Ratings!IndependentSignal(l)
             p == Ratings!PlatformSignal(s.platforms)
             o == Ratings!PosSignal(s.pos)
             v == Ratings!VolumeSignal(l)
             c == Ratings!CuisineSignal(l)
             r == Ratings!PriceSignal(l)
             e == Ratings!EngagementSignal(l)
             f == Ratings!Penalty(l, s.platforms)
             i2 == Ratings!IndependentSignal(m)
             p2 == Ratings!PlatformSignal(u.platforms)
             o2 == Ratings!PosSignal(u.pos)
             v2 == Ratings!VolumeSignal(m)
             e2 == Ratings!EngagementSignal(m)
             f2 == Ratings!Penalty(m, u.platforms)
             a  == Ratings!Weighted(i, p, o, d, v, c, r, e)
             b  == Ratings!Weighted(i2, p2, o2, d, v2, c, r, e2)
  <1>1. /\ i \in Nat /\ p \in Nat /\ o \in Nat /\ v \in Nat /\ c \in Nat /\ r \in Nat
        /\ e \in Nat /\ f \in Nat /\ i2 \in Nat /\ p2 \in Nat /\ o2 \in Nat /\ v2 \in Nat
        /\ e2 \in Nat /\ f2 \in Nat
    <2>1. s.platforms \in Nat /\ u.platforms \in Nat
      BY RecordFields
    <2> QED BY <2>1, ListingSignals, RecordSignals, Penalties
  <1>5. i <= i2 /\ p <= p2 /\ o <= o2 /\ v <= v2 /\ e <= e2 /\ f2 <= f
    BY <1>1
  <1>8. /\ Ratings!Total(l, s, d) = (Ratings!AtLeast0(a, 10000 * f) + 50) \div 100
        /\ Ratings!Total(m, u, d) = (Ratings!AtLeast0(b, 10000 * f2) + 50) \div 100
    BY DEF Ratings!Total
  <1> HIDE DEF i, p, o, v, c, r, e, f, i2, p2, o2, v2, e2, f2
  <1>6. a \in Nat /\ b \in Nat /\ a <= b
    BY <1>1, <1>5 DEF Ratings!Weighted
  <1> HIDE DEF a, b
  <1>7. a - 10000 * f <= b - 10000 * f2 /\ 10000 * f \in Nat /\ 10000 * f2 \in Nat
    BY <1>1, <1>5, <1>6
  <1>9. PICK x, y \in Nat : x = 10000 * f /\ y = 10000 * f2
    BY <1>7
  <1>10. /\ (Ratings!AtLeast0(a, x) + 50) \div 100 \in Nat
         /\ (Ratings!AtLeast0(b, y) + 50) \div 100 \in Nat
         /\ (Ratings!AtLeast0(a, x) + 50) \div 100 <= (Ratings!AtLeast0(b, y) + 50) \div 100
    BY <1>6, <1>7, <1>9, RoundedGrow
  <1> QED BY <1>8, <1>9, <1>10

LEMMA NoChain ==
    ASSUME NEW l \in Ratings!Listing PROVE [l EXCEPT !.chain = FALSE] \in Ratings!Listing
  <1>1. \A b \in BOOLEAN : [l EXCEPT !.chain = b] \in Ratings!Listing
    BY DEF Ratings!Listing
  <1>2. FALSE \in BOOLEAN
    OBVIOUS
  <1> QED BY <1>1, <1>2, Zenon

\* A better lead never scores less, whatever the density around it and for any
\* numbers of reviews (scoring/icp_scorer.py, score_restaurant).
THEOREM BetterScoresMore ==
    ASSUME NEW d \in Nat
    PROVE  Ratings!MonotoneAt(d)
  <1> SUFFICES ASSUME NEW l \in Ratings!Listing, NEW s \in Ratings!Records
               PROVE  /\ Ratings!Total([l EXCEPT !.chain = FALSE], s, d) >= Ratings!Total(l, s, d)
                      /\ \A n \in Ratings!Platforms : n > s.platforms =>
                            Ratings!Total(l, [s EXCEPT !.platforms = n], d)
                            >= Ratings!Total(l, s, d)
                      /\ \A p \in Ratings!Pos : Ratings!Rank(p) > Ratings!Rank(s.pos) =>
                            Ratings!Total(l, [s EXCEPT !.pos = p], d) >= Ratings!Total(l, s, d)
                      /\ \A n \in Ratings!Reviews : n > l.reviews =>
                            Ratings!Total([l EXCEPT !.reviews = n], s, d)
                            >= Ratings!Total(l, s, d)
                      /\ \A v \in Ratings!Ratings : Ratings!Rank(v) > Ratings!Rank(l.rating) =>
                            Ratings!Total([l EXCEPT !.rating = v], s, d)
                            >= Ratings!Total(l, s, d)
    BY Zenon DEF Ratings!MonotoneAt
  <1>1. d \in Nat
    OBVIOUS
  <1>2. /\ Ratings!IndependentSignal(l) \in Nat /\ Ratings!PlatformSignal(s.platforms) \in Nat
        /\ Ratings!PosSignal(s.pos) \in Nat /\ Ratings!VolumeSignal(l) \in Nat
        /\ Ratings!EngagementSignal(l) \in Nat /\ Ratings!CuisineSignal(l) \in Nat
        /\ Ratings!Penalty(l, s.platforms) \in Nat /\ s.platforms \in Nat
    BY ListingSignals, RecordSignals, Penalties, RecordFields
  <1>3. Ratings!Total([l EXCEPT !.chain = FALSE], s, d) >= Ratings!Total(l, s, d)
    <2> DEFINE m == [l EXCEPT !.chain = FALSE]
    <2>1. m \in Ratings!Listing
      BY NoChain
    <2>2. /\ m.chain = FALSE /\ m.reviews = l.reviews
          /\ m.rating = l.rating /\ m.cuisine = l.cuisine /\ m.price = l.price
      BY DEF Ratings!Listing
    <2> HIDE DEF m
    <2>3. /\ Ratings!VolumeSignal(m) = Ratings!VolumeSignal(l)
          /\ Ratings!CuisineSignal(m) = Ratings!CuisineSignal(l)
          /\ Ratings!PriceSignal(m) = Ratings!PriceSignal(l)
          /\ Ratings!EngagementSignal(m) = Ratings!EngagementSignal(l)
      BY <2>2 DEF Ratings!VolumeSignal, Ratings!CuisineSignal, Ratings!PriceSignal,
                  Ratings!EngagementSignal
    <2>4. Ratings!IndependentSignal(m) >= Ratings!IndependentSignal(l)
      BY <2>2 DEF Ratings!IndependentSignal
    <2>5. Ratings!Penalty(m, s.platforms) <= Ratings!Penalty(l, s.platforms)
      BY <1>2, <2>2, <2>3, ListingFields DEF Ratings!Penalty
    <2>9. Ratings!Total(m, s, d) >= Ratings!Total(l, s, d)
      BY <1>1, <1>2, <2>1, <2>2, <2>3, <2>4, <2>5, NoWorse
    <2> QED BY <2>9 DEF m
  <1>4. ASSUME NEW n \in Ratings!Platforms, n > s.platforms
        PROVE  Ratings!Total(l, [s EXCEPT !.platforms = n], d) >= Ratings!Total(l, s, d)
    <2> DEFINE u == [s EXCEPT !.platforms = n]
    <2>2. u \in Ratings!Records /\ u.platforms = n /\ u.pos = s.pos
      BY DEF Ratings!Records
    <2> HIDE DEF u
    <2>3. s.platforms \in 0..3 /\ n \in 0..3
      BY RecordFields DEF Ratings!Platforms
    <2>4. Ratings!PlatformSignal(u.platforms) >= Ratings!PlatformSignal(s.platforms)
      BY <1>4, <2>2, <2>3 DEF Ratings!PlatformSignal
    <2>5. Ratings!Penalty(l, u.platforms) <= Ratings!Penalty(l, s.platforms)
      BY <1>4, <2>2, <2>3 DEF Ratings!Penalty
    <2>9. Ratings!Total(l, u, d) >= Ratings!Total(l, s, d)
      BY <1>1, <1>2, <2>2, <2>4, <2>5, NoWorse
    <2> QED BY <2>9 DEF u
  <1>5. ASSUME NEW p \in Ratings!Pos, Ratings!Rank(p) > Ratings!Rank(s.pos)
        PROVE  Ratings!Total(l, [s EXCEPT !.pos = p], d) >= Ratings!Total(l, s, d)
    <2> DEFINE u == [s EXCEPT !.pos = p]
    <2>2. u \in Ratings!Records /\ u.platforms = s.platforms /\ u.pos = p
      BY DEF Ratings!Records
    <2> HIDE DEF u
    <2>3. Ratings!PosSignal(u.pos) >= Ratings!PosSignal(s.pos)
      BY <1>5, <2>2, RecordFields DEF Ratings!PosSignal, Ratings!Rank, Ratings!Pos
    <2>9. Ratings!Total(l, u, d) >= Ratings!Total(l, s, d)
      BY <1>1, <1>2, <2>2, <2>3, NoWorse
    <2> QED BY <2>9 DEF u
  <1>6. ASSUME NEW n \in Ratings!Reviews, n > l.reviews
        PROVE  Ratings!Total([l EXCEPT !.reviews = n], s, d) >= Ratings!Total(l, s, d)
    <2> DEFINE m == [l EXCEPT !.reviews = n]
    <2>2. /\ m \in Ratings!Listing /\ m.chain = l.chain /\ m.reviews = n
          /\ m.rating = l.rating /\ m.cuisine = l.cuisine /\ m.price = l.price
      BY DEF Ratings!Listing
    <2> HIDE DEF m
    <2>3. /\ l.reviews \in Nat /\ n \in Nat /\ Logs[l.reviews] <= Logs[n]
          /\ Logs[l.reviews] \in Nat /\ Logs[n] \in Nat
      BY <1>6, ListingFields, LogsGrow
    <2>4. /\ Ratings!IndependentSignal(m) = Ratings!IndependentSignal(l)
          /\ Ratings!CuisineSignal(m) = Ratings!CuisineSignal(l)
          /\ Ratings!PriceSignal(m) = Ratings!PriceSignal(l)
      BY <2>2 DEF Ratings!IndependentSignal, Ratings!CuisineSignal, Ratings!PriceSignal
    <2>5. Ratings!VolumeSignal(m) >= Ratings!VolumeSignal(l)
      BY <1>6, <2>2, <2>3 DEF Ratings!VolumeSignal, Ratings!Capped
    <2>6. Ratings!EngagementSignal(m) >= Ratings!EngagementSignal(l)
      BY <1>6, <2>2, <2>3 DEF Ratings!EngagementSignal, Ratings!Capped
    <2>7. Ratings!Penalty(m, s.platforms) <= Ratings!Penalty(l, s.platforms)
      BY <1>6, <2>2, <2>3, <2>4 DEF Ratings!Penalty
    <2>9. Ratings!Total(m, s, d) >= Ratings!Total(l, s, d)
      BY <1>1, <1>2, <2>2, <2>4, <2>5, <2>6, <2>7, NoWorse
    <2> QED BY <2>9 DEF m
  <1>7. ASSUME NEW v \in Ratings!Ratings, Ratings!Rank(v) > Ratings!Rank(l.rating)
        PROVE  Ratings!Total([l EXCEPT !.rating = v], s, d) >= Ratings!Total(l, s, d)
    <2> DEFINE m == [l EXCEPT !.rating = v]
    <2>2. /\ m \in Ratings!Listing /\ m.chain = l.chain /\ m.reviews = l.reviews
          /\ m.rating = v /\ m.cuisine = l.cuisine /\ m.price = l.price
      BY DEF Ratings!Listing
    <2> HIDE DEF m
    <2>3. /\ l.reviews \in Nat /\ Logs[l.reviews] \in Nat
          /\ l.rating = "low" \/ (l.rating = "good" /\ v = "top")
          /\ v # "low"
      BY <1>7, ListingFields, LogsGrow DEF Ratings!Rank, Ratings!Ratings
    <2>4. /\ Ratings!IndependentSignal(m) = Ratings!IndependentSignal(l)
          /\ Ratings!CuisineSignal(m) = Ratings!CuisineSignal(l)
          /\ Ratings!PriceSignal(m) = Ratings!PriceSignal(l)
          /\ Ratings!Penalty(m, s.platforms) = Ratings!Penalty(l, s.platforms)
      BY <2>2 DEF Ratings!IndependentSignal, Ratings!CuisineSignal, Ratings!PriceSignal,
                  Ratings!Penalty
    <2>5. Ratings!VolumeSignal(m) >= Ratings!VolumeSignal(l)
      BY <2>2, <2>3 DEF Ratings!VolumeSignal, Ratings!Capped
    <2>6. Ratings!EngagementSignal(m) >= Ratings!EngagementSignal(l)
      BY <2>2, <2>3 DEF Ratings!EngagementSignal, Ratings!Capped
    <2>9. Ratings!Total(m, s, d) >= Ratings!Total(l, s, d)
      BY <1>1, <1>2, <2>2, <2>4, <2>5, <2>6, NoWorse
    <2> QED BY <2>9 DEF m
  <1> QED BY <1>3, <1>4, <1>5, <1>6, <1>7


LEMMA Shares == ASSUME NEW n \in Nat, NEW d \in Nat \ {0} PROVE n \div d \in Nat
  <1> DEFINE k == n \div d
  <1>1. k \in Int /\ d * k <= n /\ n < d * k + d
    BY Z3
  <1> HIDE DEF k
  <1>2. k >= 0
    <2> SUFFICES ASSUME k <= -1 PROVE FALSE
      BY <1>1
    <2>1. d * k <= d * (-1)
      BY <1>1, Z3
    <2> QED BY <1>1, <2>1
  <1> QED BY <1>1, <1>2 DEF k


\* A set of naturals has a least, and a bounded one has a greatest.
LEMMA LeastExists == ASSUME NEW T \in SUBSET Nat, T # {} PROVE \E x \in T : \A y \in T : x <= y
  <1> DEFINE R == {s \in Nat \X Nat : s[1] < s[2]}
  <1>1. IsWellFoundedOn(R, Nat)
    BY NatLessThanWellFounded DEF OpToRel
  <1>2. \A x, y \in T : x <= y \/ <<y, x>> \in R
    OBVIOUS
  <1> HIDE DEF R
  <1>3. PICK x \in T : \A y \in T : ~(<<y, x>> \in R)
    BY <1>1, WFMin
  <1> QED BY <1>2, <1>3

LEMMA GreatestExists ==
    ASSUME NEW T \in SUBSET Nat, T # {}, NEW n \in Nat, \A x \in T : x <= n
    PROVE  \E x \in T : \A y \in T : y <= x
  <1>1. PICK U : U = {n - x : x \in T}
    OBVIOUS
  <1>2. U \in SUBSET Nat /\ U # {}
    <2>1. \A x \in T : n - x \in Nat
      OBVIOUS
    <2> QED BY <1>1, <2>1
  <1>3. PICK u \in U : \A v \in U : u <= v
    BY <1>2, LeastExists
  <1>4. PICK x \in T : u = n - x
    BY <1>1, <1>3
  <1>5. ASSUME NEW y \in T PROVE y <= x
    <2>1. n - y \in U
      BY <1>1
    <2>2. n - x <= n - y
      BY <1>3, <1>4, <2>1
    <2> QED BY <2>2
  <1> QED BY <1>4, <1>5

LEMMA RatingsCount == \A S : Ratings!Cardinality(S) = Cardinality(S)
  BY DEF Ratings!Cardinality, Cardinality

LEMMA NeighborsCount ==
    ASSUME NEW R, IsFiniteSet(R), NEW r
    PROVE  Ratings!Neighbors(R, r) \in Nat /\ Ratings!Neighbors(R, r) <= Cardinality(R)
  <1>1. PICK N : N = {q \in R \ {r} : <<q, r>> \in Close}
    OBVIOUS
  <1>2. N \subseteq R
    BY <1>1
  <1>3. Cardinality(N) \in Nat /\ Cardinality(N) <= Cardinality(R)
    BY <1>2, FS_Subset, FS_CardinalityType
  <1>4. Ratings!Neighbors(R, r) = Cardinality(N)
    BY <1>1, RatingsCount DEF Ratings!Neighbors
  <1> QED BY <1>3, <1>4

\* A part of the densest is of its range.
LEMMA DensityRange ==
    ASSUME Ratings!ScoreAssumption, NEW R \in SUBSET Rated, NEW bonus, NEW r
    PROVE  Ratings!Density(R, bonus, r) \in Nat /\ Ratings!Density(R, bonus, r) <= 10000
  <1> DEFINE T   == {Ratings!Neighbors(R, q) : q \in R}
             max == CHOOSE n \in T : \A q \in R : Ratings!Neighbors(R, q) <= n
             k   == Ratings!Neighbors(R, r)
             part == IF max = 0 THEN 0 ELSE (10000 * k) \div max
  <1>1. IsFiniteSet(R)
    BY FS_Subset DEF Ratings!ScoreAssumption, Ratings!IsFiniteSet, IsFiniteSet
  <1>2. CASE r \notin R
    BY <1>2 DEF Ratings!Density
  <1>3. CASE r \in R /\ Ratings!Cardinality(R) < MinCluster
    BY <1>3 DEF Ratings!Density
  <1>4. CASE r \in R /\ ~(Ratings!Cardinality(R) < MinCluster)
    <2>1. T \in SUBSET Nat /\ T # {} /\ Cardinality(R) \in Nat /\ \A x \in T : x <= Cardinality(R)
      BY <1>1, <1>4, NeighborsCount, FS_CardinalityType
    <2>2. \E n \in T : \A x \in T : x <= n
      BY <2>1, GreatestExists
    <2>3. \E n \in T : \A q \in R : Ratings!Neighbors(R, q) <= n
      BY <2>2
    <2>4. max \in T /\ \A q \in R : Ratings!Neighbors(R, q) <= max
      BY <2>3
    <2>5. max \in Nat /\ k \in Nat /\ k <= max
      BY <1>4, <2>1, <2>4
    <2>6. Ratings!Density(R, bonus, r)
            = Ratings!Capped(part + IF r \in bonus THEN 1000 ELSE 0)
      BY <1>4 DEF Ratings!Density
    <2> HIDE DEF max, k
    <2>7. part \in Nat
      <3>1. CASE max = 0
        BY <3>1
      <3>2. CASE max # 0
        <4>1. 10000 * k \in Nat /\ max \in Nat \ {0}
          BY <2>5, <3>2
        <4>2. PICK x \in Nat : x = 10000 * k
          BY <4>1
        <4>3. x \div max \in Nat
          BY <4>1, <4>2, Shares
        <4> QED BY <3>2, <4>2, <4>3
      <3> QED BY <3>1, <3>2
    <2> HIDE DEF part
    <2> QED BY <2>6, <2>7 DEF Ratings!Capped
  <1> QED BY <1>2, <1>3, <1>4

\* The rounding of a column moves a total by no more than a hundredth.
LEMMA RoundedVolume ==
    ASSUME NEW v \in Nat
    PROVE  /\ Ratings!Thousandths(v) \in Nat
           /\ v <= 10000 => Ratings!Thousandths(v) <= 10000
           /\ Ratings!Thousandths(v) <= v + 5 /\ v <= Ratings!Thousandths(v) + 5
  BY DEF Ratings!Thousandths

LEMMA RoundedNear ==
    ASSUME NEW a \in Nat, NEW b \in Nat, NEW p \in Nat, a <= b + 75, b <= a + 75
    PROVE  /\ (Ratings!AtLeast0(a, p) + 50) \div 100 \in Nat
           /\ (Ratings!AtLeast0(b, p) + 50) \div 100 \in Nat
           /\ (Ratings!AtLeast0(a, p) + 50) \div 100 <= (Ratings!AtLeast0(b, p) + 50) \div 100 + 1
           /\ (Ratings!AtLeast0(b, p) + 50) \div 100 <= (Ratings!AtLeast0(a, p) + 50) \div 100 + 1
  <1>1. /\ Ratings!AtLeast0(a, p) \in Nat /\ Ratings!AtLeast0(b, p) \in Nat
        /\ Ratings!AtLeast0(a, p) <= Ratings!AtLeast0(b, p) + 75
        /\ Ratings!AtLeast0(b, p) <= Ratings!AtLeast0(a, p) + 75
    BY DEF Ratings!AtLeast0
  <1>2. PICK x, y \in Nat : x = Ratings!AtLeast0(a, p) /\ y = Ratings!AtLeast0(b, p)
    BY <1>1
  <1>3. (x + 50) \div 100 \in Nat /\ (y + 50) \div 100 \in Nat
    OBVIOUS
  <1>4. (x + 50) \div 100 <= (y + 50) \div 100 + 1 /\ (y + 50) \div 100 <= (x + 50) \div 100 + 1
    BY <1>1, <1>2
  <1> QED BY <1>2, <1>3, <1>4

LEMMA TotalRange ==
    ASSUME NEW l \in Ratings!Listing, NEW s \in Ratings!Records, NEW d \in Nat, d <= 10000
    PROVE  Ratings!Total(l, s, d) \in Nat /\ Ratings!Total(l, s, d) <= 10000
  <1> DEFINE i == Ratings!IndependentSignal(l)
             p == Ratings!PlatformSignal(s.platforms)
             o == Ratings!PosSignal(s.pos)
             v == Ratings!VolumeSignal(l)
             c == Ratings!CuisineSignal(l)
             r == Ratings!PriceSignal(l)
             e == Ratings!EngagementSignal(l)
             f == Ratings!Penalty(l, s.platforms)
             a == Ratings!Weighted(i, p, o, d, v, c, r, e)
  <1>1. /\ i \in Nat /\ p \in Nat /\ o \in Nat /\ v \in Nat /\ c \in Nat /\ r \in Nat
        /\ e \in Nat /\ f \in Nat
        /\ i <= 10000 /\ p <= 10000 /\ o <= 10000 /\ v <= 10000 /\ c <= 10000 /\ r <= 10000
        /\ e <= 10000
    <2>1. s.platforms \in Nat
      BY RecordFields
    <2> QED BY <2>1, ListingSignals, RecordSignals, Penalties
  <1>2. Ratings!Total(l, s, d) = (Ratings!AtLeast0(a, 10000 * f) + 50) \div 100
    BY DEF Ratings!Total
  <1> HIDE DEF i, p, o, v, c, r, e, f
  <1>3. a \in Nat /\ a <= 1000000
    BY <1>1 DEF Ratings!Weighted
  <1> HIDE DEF a
  <1>4. PICK x \in Nat : x = 10000 * f
    BY <1>1
  <1>5. PICK y \in Nat : y = Ratings!AtLeast0(a, x) /\ y <= 1000000
    <2>1. Ratings!AtLeast0(a, x) \in Nat /\ Ratings!AtLeast0(a, x) <= 1000000
      BY <1>3 DEF Ratings!AtLeast0
    <2> QED BY <2>1
  <1>6. (y + 50) \div 100 \in Nat /\ (y + 50) \div 100 <= 10000
    BY <1>5
  <1> QED BY <1>2, <1>4, <1>5, <1>6

\* The columns of a row are those of a listing and of records.
Agrees(row, l, s, d) ==
    /\ row.columns.count = s.platforms
    /\ row.columns.volume = Ratings!Thousandths(Ratings!VolumeSignal(l))
    /\ row.columns.cuisine = Ratings!CuisineSignal(l)
    /\ row.columns.price = Ratings!PriceSignal(l)
    /\ row.columns.engagement = Ratings!EngagementSignal(l)
    /\ row.columns.penalty = Ratings!Penalty(l, s.platforms)
    /\ row.pos = s.pos /\ row.density = d
    /\ row.independent <=> ~l.chain
    /\ row.total = Ratings!Total(l, s, d)

LEMMA UpsertTells ==
    ASSUME NEW l, NEW s, NEW d, NEW r, NEW row, row = Ratings!Upsert(r, l, s, d, FALSE)
    PROVE  Agrees(row, l, s, d)
  <1>1. /\ row.columns = Ratings!NewBreakdown(l, s) /\ row.independent = ~l.chain
        /\ row.pos = s.pos /\ row.density = d /\ row.total = Ratings!Total(l, s, d)
    BY DEF Ratings!Upsert, Ratings!Columns
  <1>2. PICK k : k = row.columns
    OBVIOUS
  <1>3. k = Ratings!NewBreakdown(l, s)
    BY <1>1, <1>2
  <1>4. /\ k.count = s.platforms /\ k.volume = Ratings!Thousandths(Ratings!VolumeSignal(l))
        /\ k.cuisine = Ratings!CuisineSignal(l) /\ k.price = Ratings!PriceSignal(l)
        /\ k.engagement = Ratings!EngagementSignal(l)
        /\ k.penalty = Ratings!Penalty(l, s.platforms)
    BY <1>3 DEF Ratings!NewBreakdown
  <1>5. row.independent <=> ~l.chain
    BY <1>1, Zenon
  <1>6. /\ row.columns.count = k.count /\ row.columns.volume = k.volume
        /\ row.columns.cuisine = k.cuisine /\ row.columns.price = k.price
        /\ row.columns.engagement = k.engagement /\ row.columns.penalty = k.penalty
    BY <1>2
  <1> QED BY <1>1, <1>4, <1>5, <1>6, Zenon DEF Agrees

\* They add up to its total.
LEMMA AgreesAddsUp ==
    ASSUME NEW l \in Ratings!Listing, NEW s \in Ratings!Records, NEW d \in Nat,
           NEW row, Agrees(row, l, s, d)
    PROVE  Ratings!Sum(row) \in {row.total - 1, row.total, row.total + 1}
  <1>1. /\ Ratings!IndependentSignal(l) \in Nat /\ Ratings!PlatformSignal(s.platforms) \in Nat
        /\ Ratings!PosSignal(s.pos) \in Nat /\ Ratings!VolumeSignal(l) \in Nat
        /\ Ratings!CuisineSignal(l) \in Nat /\ Ratings!PriceSignal(l) \in Nat
        /\ Ratings!EngagementSignal(l) \in Nat /\ Ratings!Penalty(l, s.platforms) \in Nat
    <2>1. s.platforms \in Nat
      BY RecordFields
    <2> QED BY <2>1, ListingSignals, RecordSignals, Penalties
  <1>2. PICK i \in Nat : i = Ratings!IndependentSignal(l)
    BY <1>1
  <1>3. PICK p \in Nat : p = Ratings!PlatformSignal(s.platforms)
    BY <1>1
  <1>4. PICK o \in Nat : o = Ratings!PosSignal(s.pos)
    BY <1>1
  <1>5. PICK v \in Nat : v = Ratings!VolumeSignal(l)
    BY <1>1
  <1>6. PICK c \in Nat : c = Ratings!CuisineSignal(l)
    BY <1>1
  <1>7. PICK r \in Nat : r = Ratings!PriceSignal(l)
    BY <1>1
  <1>8. PICK e \in Nat : e = Ratings!EngagementSignal(l)
    BY <1>1
  <1>9. PICK f \in Nat : f = Ratings!Penalty(l, s.platforms)
    BY <1>1
  <1>10. Ratings!Thousandths(v) \in Nat
    BY RoundedVolume
  <1>11. PICK t \in Nat : t = Ratings!Thousandths(v)
    BY <1>10
  <1>12. PICK a : a = Ratings!Weighted(i, p, o, d, v, c, r, e)
    OBVIOUS
  <1>13. PICK b : b = Ratings!Weighted(i, p, o, d, t, c, r, e)
    OBVIOUS
  <1>14. PICK x \in Nat : x = 10000 * f
    OBVIOUS
  <1>15. t <= v + 5 /\ v <= t + 5
    BY <1>11, RoundedVolume
  <1>16. a \in Nat /\ b \in Nat /\ a <= b + 75 /\ b <= a + 75
    BY <1>12, <1>13, <1>15 DEF Ratings!Weighted
  <1>17. /\ Ratings!PlatformSignal(row.columns.count) = p /\ Ratings!PosSignal(row.pos) = o
         /\ row.density = d /\ row.columns.volume = t /\ row.columns.cuisine = c
         /\ row.columns.price = r /\ row.columns.engagement = e /\ row.columns.penalty = f
         /\ row.total = Ratings!Total(l, s, d) /\ (row.independent <=> ~l.chain)
    BY <1>3, <1>4, <1>5, <1>6, <1>7, <1>8, <1>9, <1>11 DEF Agrees
  <1>18. (~l.chain /\ i = 10000) \/ (l.chain /\ i = 0)
    BY <1>2 DEF Ratings!IndependentSignal
  <1>19. row.total = (Ratings!AtLeast0(a, x) + 50) \div 100
    BY <1>2, <1>3, <1>4, <1>5, <1>6, <1>7, <1>8, <1>9, <1>12, <1>14, <1>17 DEF Ratings!Total
  <1>20. Ratings!Sum(row) = (Ratings!AtLeast0(b, x) + 50) \div 100
    BY <1>13, <1>14, <1>17, <1>18 DEF Ratings!Sum
  <1>21. PICK m, n : /\ m = (Ratings!AtLeast0(a, x) + 50) \div 100
                     /\ n = (Ratings!AtLeast0(b, x) + 50) \div 100
    OBVIOUS
  <1>22. m \in Nat /\ n \in Nat /\ m <= n + 1 /\ n <= m + 1
    BY <1>16, <1>21, RoundedNear
  <1>23. n \in {m - 1, m, m + 1}
    BY <1>22
  <1> QED BY <1>19, <1>20, <1>21, <1>23


\* What a scoring holds: the listings it has read, then their records.
Scoring(t) ==
    \/ t = Ratings!NoTxn
    \/ /\ t.pc \in {"records", "write"} /\ t.task \in BOOLEAN
       /\ DOMAIN t.listings \subseteq Rated
       /\ \A r \in DOMAIN t.listings : t.listings[r] \in Ratings!Listing
       /\ t.pc = "write" => t.records \in [DOMAIN t.listings -> Ratings!Records]

AddsUp(row) == Ratings!Sum(row) \in {row.total - 1, row.total, row.total + 1}

Fine(row) == row \in Ratings!Row /\ (~row.task => AddsUp(row))

RatingInv ==
    /\ facts \in [Rated -> Known]
    /\ \A r \in Rated : scores[r] # None => Fine(scores[r])
    /\ scoreTxn = [w \in Workers |-> scoreTxn[w]]
    /\ \A w \in Workers : Scoring(scoreTxn[w])
    /\ changes \in 0..MaxChanges

\* The listing the task reads.
LEMMA TaskListing ==
    ASSUME NEW l \in Ratings!Listing
    PROVE  [l EXCEPT !.cuisine = "unknown", !.price = 0] \in Ratings!Listing
  <1>1. \A c \in Ratings!Cuisines, p \in Ratings!Prices :
           [l EXCEPT !.cuisine = c, !.price = p] \in Ratings!Listing
    BY DEF Ratings!Listing
  <1>2. "unknown" \in Ratings!Cuisines /\ 0 \in Ratings!Prices
    BY DEF Ratings!Cuisines, Ratings!Prices
  <1> QED BY <1>1, <1>2, Zenon

LEMMA Ranged == ASSUME NEW n \in Nat, n <= 10000 PROVE n \in Points
  BY SMT DEF Points

LEMMA PointsAre == \A n \in Points : n \in Nat /\ n <= 10000
  BY SMT DEF Points

LEMMA RowIs ==
    /\ Ratings!Breakdown = [count : Ratings!Platforms, volume : Points, cuisine : Points,
                            price : Points, engagement : Points, penalty : 0..75]
    /\ Ratings!Row = [independent : BOOLEAN, platforms : Ratings!Platforms, pos : Ratings!Pos,
                      density : Points, total : Points,
                      label : {"excellent", "good", "moderate", "poor"},
                      columns : Ratings!Breakdown, task : BOOLEAN]
  BY DEF Ratings!Breakdown, Ratings!Row, Points

LEMMA NewColumns ==
    ASSUME NEW l \in Ratings!Listing, NEW s \in Ratings!Records
    PROVE  Ratings!NewBreakdown(l, s) \in Ratings!Breakdown
  <1>1. s.platforms \in Ratings!Platforms
    BY DEF Ratings!Records
  <1>2. PICK c \in Nat : c = Ratings!CuisineSignal(l)
    BY ListingSignals, SMT
  <1>3. PICK p \in Nat : p = Ratings!PriceSignal(l)
    BY ListingSignals, SMT
  <1>4. PICK e \in Nat : e = Ratings!EngagementSignal(l)
    BY ListingSignals, SMT
  <1>5. PICK v \in Nat : v = Ratings!VolumeSignal(l)
    BY ListingSignals, SMT
  <1>6. PICK t \in Nat : t = Ratings!Thousandths(v)
    BY RoundedVolume, SMT
  <1>7. PICK f \in Nat : f = Ratings!Penalty(l, s.platforms)
    BY RecordFields, Penalties, SMT
  <1>8. c <= 10000 /\ p <= 10000 /\ e <= 10000 /\ v <= 10000
    BY <1>2, <1>3, <1>4, <1>5, ListingSignals, SMT
  <1>9. t <= 10000
    BY <1>6, <1>8, RoundedVolume, SMT
  <1>10. f <= 75
    BY <1>7, RecordFields, Penalties, SMT
  <1>11. c \in Points /\ p \in Points /\ e \in Points /\ t \in Points
    BY <1>8, <1>9, Ranged, SMT
  <1>12. f \in 0..75
    BY <1>10, SMT
  <1>13. Ratings!NewBreakdown(l, s)
           = [count |-> s.platforms, volume |-> t, cuisine |-> c, price |-> p,
              engagement |-> e, penalty |-> f]
    BY <1>2, <1>3, <1>4, <1>5, <1>6, <1>7, SMT DEF Ratings!NewBreakdown
  <1> QED BY <1>1, <1>11, <1>12, <1>13, RowIs, SMT

LEMMA Labels ==
    ASSUME NEW n \in Nat
    PROVE  Ratings!Label(n) \in {"excellent", "good", "moderate", "poor"}
  <1>1. CASE n >= 7500
    BY <1>1, SMT DEF Ratings!Label
  <1>2. CASE n \in 5500..7499
    BY <1>2, SMT DEF Ratings!Label
  <1>3. CASE n \in 3500..5499
    BY <1>3, SMT DEF Ratings!Label
  <1>4. CASE n < 3500
    BY <1>4, SMT DEF Ratings!Label
  <1>5. n >= 7500 \/ n \in 5500..7499 \/ n \in 3500..5499 \/ n < 3500
    BY SMT
  <1> QED BY <1>1, <1>2, <1>3, <1>4, <1>5, SMT

LEMMA ColumnsKept ==
    ASSUME NEW r \in Rated, scores[r] # None => Fine(scores[r]),
           NEW l \in Ratings!Listing, NEW s \in Ratings!Records, NEW task \in BOOLEAN
    PROVE  Ratings!Columns(task, r, l, s) \in Ratings!Breakdown
  <1>1. CASE task = FALSE
    BY <1>1, NewColumns DEF Ratings!Columns
  <1>2. CASE task = TRUE /\ scores[r] = None
    <2>1. Ratings!Unset \in Ratings!Breakdown
      BY DEF Ratings!Unset, Ratings!Breakdown, Ratings!Platforms
    <2> QED BY <1>2, <2>1 DEF Ratings!Columns
  <1>3. CASE task = TRUE /\ scores[r] # None
    <2>1. PICK row \in Ratings!Row : row = scores[r]
      BY <1>3 DEF Fine
    <2>2. row.columns \in Ratings!Breakdown
      BY <2>1, RowIs
    <2>3. Ratings!Columns(task, r, l, s) = row.columns
      BY <1>3, <2>1 DEF Ratings!Columns
    <2> QED BY <2>2, <2>3
  <1> QED BY <1>1, <1>2, <1>3

LEMMA UpsertRow ==
    ASSUME NEW r \in Rated, scores[r] # None => Fine(scores[r]),
           NEW l \in Ratings!Listing, NEW s \in Ratings!Records, NEW task \in BOOLEAN,
           NEW d \in Points
    PROVE  /\ Ratings!Upsert(r, l, s, d, task) \in Ratings!Row
           /\ Ratings!Upsert(r, l, s, d, task).task = task
  <1>1. PICK c \in Ratings!Breakdown : c = Ratings!Columns(task, r, l, s)
    BY ColumnsKept, SMT
  <1>2. PICK n \in Nat : n = Ratings!Total(l, s, d) /\ n <= 10000
    <2>1. Ratings!Total(l, s, d) \in Nat /\ Ratings!Total(l, s, d) <= 10000
      BY TotalRange, PointsAre
    <2> QED BY <2>1, SMT
  <1>3. n \in Points
    BY <1>2, Ranged, SMT
  <1>4. PICK g \in {"excellent", "good", "moderate", "poor"} : g = Ratings!Label(n)
    BY Labels, SMT
  <1>5. s.platforms \in Ratings!Platforms /\ s.pos \in Ratings!Pos
    BY DEF Ratings!Records
  <1>6. Ratings!Upsert(r, l, s, d, task)
          = [independent |-> ~l.chain, platforms |-> s.platforms, pos |-> s.pos, density |-> d,
             total |-> n, label |-> g, columns |-> c, task |-> task]
    BY <1>1, <1>2, <1>4, SMT DEF Ratings!Upsert
  <1> QED BY <1>3, <1>5, <1>6, RowIs, SMT

LEMMA UpsertAddsUp ==
    ASSUME NEW r, NEW l \in Ratings!Listing, NEW s \in Ratings!Records, NEW d \in Nat
    PROVE  AddsUp(Ratings!Upsert(r, l, s, d, FALSE))
  <1>1. PICK row : row = Ratings!Upsert(r, l, s, d, FALSE)
    OBVIOUS
  <1>2. Agrees(row, l, s, d)
    BY <1>1, UpsertTells, Zenon
  <1> QED BY <1>1, <1>2, AgreesAddsUp DEF AddsUp

LEMMA UpsertFine ==
    ASSUME NEW r \in Rated, scores[r] # None => Fine(scores[r]),
           NEW l \in Ratings!Listing, NEW s \in Ratings!Records, NEW task \in BOOLEAN,
           NEW d \in Points
    PROVE  Fine(Ratings!Upsert(r, l, s, d, task))
  <1>1. PICK row : row = Ratings!Upsert(r, l, s, d, task)
    OBVIOUS
  <1>2. row \in Ratings!Row /\ row.task = task
    BY <1>1, UpsertRow
  <1>3. CASE task = FALSE
    <2>1. d \in Nat
      BY PointsAre
    <2>2. AddsUp(row)
      BY <1>1, <1>3, <2>1, UpsertAddsUp
    <2> QED BY <1>1, <1>2, <2>2 DEF Fine
  <1>4. CASE task = TRUE
    <2>1. row.task = TRUE
      BY <1>2, <1>4
    <2>2. Fine(row)
      BY <1>2, <2>1 DEF Fine
    <2> QED BY <1>1, <2>2
  <1> QED BY <1>3, <1>4

LEMMA RatingInit == ASSUME Ratings!ScoreAssumption, Ratings!Init PROVE RatingInv
  BY DEF Ratings!Init, RatingInv, Scoring, Ratings!ScoreAssumption

LEMMA RatingBegin ==
    ASSUME Ratings!ScoreAssumption, RatingInv, NEW w \in Workers, NEW R \in SUBSET Rated,
           NEW task \in BOOLEAN, Ratings!Begin(w, R, task)
    PROVE  RatingInv'
  <1>1. PICK f : f = [r \in R |-> IF task THEN [facts[r][1] EXCEPT !.cuisine = "unknown", !.price = 0]
                                          ELSE facts[r][1]]
    OBVIOUS
  <1>2. PICK t : t = [pc |-> "records", task |-> task, listings |-> f]
    OBVIOUS
  <1>3. scoreTxn' = [scoreTxn EXCEPT ![w] = t] /\ UNCHANGED <<facts, scores, changes>>
    BY <1>1, <1>2 DEF Ratings!Begin
  <1>4. \A r \in R : f[r] \in Ratings!Listing
    <2> SUFFICES ASSUME NEW r \in R PROVE f[r] \in Ratings!Listing
      OBVIOUS
    <2>1. facts[r][1] \in Ratings!Listing
      BY DEF RatingInv, Ratings!ScoreAssumption
    <2>2. [facts[r][1] EXCEPT !.cuisine = "unknown", !.price = 0] \in Ratings!Listing
      BY <2>1, TaskListing
    <2> QED BY <1>1, <2>1, <2>2
  <1>5. Scoring(t)
    BY <1>1, <1>2, <1>4 DEF Scoring
  <1>6. ASSUME NEW v \in Workers PROVE Scoring(scoreTxn'[v])
    BY <1>3, <1>5 DEF RatingInv
  <1>7. scoreTxn' = [v \in Workers |-> scoreTxn'[v]]
    BY <1>3 DEF RatingInv
  <1> QED BY <1>3, <1>6, <1>7 DEF RatingInv

LEMMA RatingRead ==
    ASSUME Ratings!ScoreAssumption, RatingInv, NEW w \in Workers, Ratings!ReadRecords(w)
    PROVE  RatingInv'
  <1>1. PICK u : u = scoreTxn[w]
    OBVIOUS
  <1>2. PICK t : t = [pc |-> "write", task |-> u.task, listings |-> u.listings,
                      records |-> [r \in DOMAIN u.listings |-> facts[r][2]]]
    OBVIOUS
  <1>3. scoreTxn' = [scoreTxn EXCEPT ![w] = t] /\ UNCHANGED <<facts, scores, changes>>
    BY <1>1, <1>2 DEF Ratings!ReadRecords
  <1>4. Scoring(u) /\ u.pc = "records" /\ u # Ratings!NoTxn
    BY <1>1 DEF RatingInv, Ratings!ReadRecords, Ratings!NoTxn
  <1>5. /\ u.task \in BOOLEAN /\ DOMAIN u.listings \subseteq Rated
        /\ \A r \in DOMAIN u.listings : u.listings[r] \in Ratings!Listing
    BY <1>4 DEF Scoring
  <1>6. \A r \in DOMAIN u.listings : facts[r][2] \in Ratings!Records
    BY <1>5 DEF RatingInv, Ratings!ScoreAssumption
  <1>7. Scoring(t)
    BY <1>2, <1>5, <1>6 DEF Scoring
  <1>8. ASSUME NEW v \in Workers PROVE Scoring(scoreTxn'[v])
    BY <1>3, <1>7 DEF RatingInv
  <1>9. scoreTxn' = [v \in Workers |-> scoreTxn'[v]]
    BY <1>3 DEF RatingInv
  <1> QED BY <1>3, <1>8, <1>9 DEF RatingInv

LEMMA RatingWrite ==
    ASSUME Ratings!ScoreAssumption, RatingInv, NEW w \in Workers, Ratings!Write(w)
    PROVE  RatingInv'
  <1>1. PICK t : t = scoreTxn[w]
    OBVIOUS
  <1>2. PICK located : located = {r \in DOMAIN t.listings : t.listings[r].located}
    OBVIOUS
  <1>3. PICK bonus : scores' = [r \in Rated |->
           IF r \notin DOMAIN t.listings THEN scores[r]
           ELSE Ratings!Upsert(r, t.listings[r], t.records[r],
                               Ratings!Density(located, bonus, r), t.task)]
    BY <1>1, <1>2 DEF Ratings!Write
  <1>4. /\ t.pc = "write" /\ scoreTxn' = [scoreTxn EXCEPT ![w] = Ratings!NoTxn]
        /\ UNCHANGED <<facts, changes>>
    BY <1>1 DEF Ratings!Write
  <1>5. Scoring(t) /\ t # Ratings!NoTxn
    BY <1>1, <1>4 DEF RatingInv, Ratings!NoTxn
  <1>6. /\ t.task \in BOOLEAN /\ DOMAIN t.listings \subseteq Rated
        /\ \A r \in DOMAIN t.listings : t.listings[r] \in Ratings!Listing
        /\ t.records \in [DOMAIN t.listings -> Ratings!Records]
    BY <1>4, <1>5 DEF Scoring
  <1>7. ASSUME NEW r \in Rated, scores'[r] # None PROVE Fine(scores'[r])
    <2>1. CASE r \notin DOMAIN t.listings
      BY <1>3, <1>7, <2>1 DEF RatingInv
    <2>2. CASE r \in DOMAIN t.listings
      <3>1. PICK d : d = Ratings!Density(located, bonus, r)
        OBVIOUS
      <3>2. d \in Points
        <4>1. located \in SUBSET Rated
          BY <1>2, <1>6
        <4>2. d \in Nat /\ d <= 10000
          BY <3>1, <4>1, DensityRange
        <4> QED BY <4>2, Ranged
      <3>3. PICK l \in Ratings!Listing, s \in Ratings!Records :
               l = t.listings[r] /\ s = t.records[r]
        BY <1>6, <2>2
      <3>4. scores'[r] = Ratings!Upsert(r, l, s, d, t.task)
        BY <1>3, <2>2, <3>1, <3>3
      <3>5. scores[r] # None => Fine(scores[r])
        BY DEF RatingInv
      <3>6. PICK task \in BOOLEAN : task = t.task
        BY <1>6
      <3>7. Fine(Ratings!Upsert(r, l, s, d, task))
        BY <3>2, <3>5, UpsertFine
      <3> QED BY <3>4, <3>6, <3>7
    <2> QED BY <2>1, <2>2
  <1>8. ASSUME NEW v \in Workers PROVE Scoring(scoreTxn'[v])
    BY <1>4 DEF RatingInv, Scoring
  <1>9. scoreTxn' = [v \in Workers |-> scoreTxn'[v]]
    BY <1>4 DEF RatingInv
  <1> QED BY <1>4, <1>7, <1>8, <1>9 DEF RatingInv

LEMMA RatingOther ==
    ASSUME Ratings!ScoreAssumption, RatingInv,
           \/ \E r \in Rated : Ratings!Learn(r)
           \/ \E w \in Workers : Ratings!Rollback(w)
           \/ UNCHANGED Ratings!vars
    PROVE  RatingInv'
  <1>1. ASSUME NEW r \in Rated, Ratings!Learn(r) PROVE RatingInv'
    <2>1. PICK f \in Known : facts' = [facts EXCEPT ![r] = f]
      BY <1>1 DEF Ratings!Learn
    <2>2. /\ changes < MaxChanges /\ changes' = changes + 1 /\ UNCHANGED <<scores, scoreTxn>>
      BY <1>1 DEF Ratings!Learn
    <2>3. facts' \in [Rated -> Known]
      BY <2>1 DEF RatingInv
    <2>4. changes' \in 0..MaxChanges
      BY <2>2 DEF RatingInv, Ratings!ScoreAssumption
    <2> QED BY <2>2, <2>3, <2>4 DEF RatingInv
  <1>2. ASSUME NEW w \in Workers, Ratings!Rollback(w) PROVE RatingInv'
    <2>1. scoreTxn' = [scoreTxn EXCEPT ![w] = Ratings!NoTxn] /\ UNCHANGED <<facts, scores, changes>>
      BY <1>2 DEF Ratings!Rollback
    <2>2. ASSUME NEW v \in Workers PROVE Scoring(scoreTxn'[v])
      BY <2>1 DEF RatingInv, Scoring
    <2>3. scoreTxn' = [v \in Workers |-> scoreTxn'[v]]
      BY <2>1 DEF RatingInv
    <2> QED BY <2>1, <2>2, <2>3 DEF RatingInv
  <1>3. CASE UNCHANGED Ratings!vars
    BY <1>3 DEF RatingInv, Ratings!vars
  <1> QED BY <1>1, <1>2, <1>3

LEMMA RatingNext ==
    ASSUME Ratings!ScoreAssumption, RatingInv, [Ratings!Next]_(Ratings!vars)
    PROVE  RatingInv'
  <1>1. ASSUME NEW w \in Workers,
               \/ Ratings!BeginTask(w) \/ Ratings!BeginRecalculate(w)
               \/ Ratings!BeginRescore(w) \/ Ratings!BeginInline(w)
        PROVE  RatingInv'
    <2>1. PICK R \in SUBSET Rated, task \in BOOLEAN : Ratings!Begin(w, R, task)
      BY <1>1 DEF Ratings!BeginTask, Ratings!BeginRecalculate, Ratings!BeginRescore,
                  Ratings!BeginInline
    <2> QED BY <2>1, RatingBegin
  <1> QED BY <1>1, RatingRead, RatingWrite, RatingOther DEF Ratings!Next

\* The breakdown of a score adds up to its total, for every row a scoring other
\* than the task wrote last (api/routers/scores.py, recalculate_scores).
THEOREM BreakdownsTold ==
    ASSUME Ratings!ScoreAssumption
    PROVE  Ratings!Spec => [](Ratings!TypeOK /\ Ratings!BreakdownTellsTotal)
  <1>1. Ratings!Init => RatingInv
    BY RatingInit
  <1>2. RatingInv /\ [Ratings!Next]_(Ratings!vars) => RatingInv'
    BY RatingNext
  <1>3. RatingInv => Ratings!TypeOK
    <2> SUFFICES ASSUME RatingInv PROVE Ratings!TypeOK
      OBVIOUS
    <2>1. \A r \in Rated : scores[r] # None => scores[r] \in Ratings!Row
      BY DEF RatingInv, Fine
    <2>2. ASSUME NEW w \in Workers
          PROVE  /\ [pc |-> scoreTxn[w].pc, task |-> scoreTxn[w].task] \in Ratings!Txn
                 /\ scoreTxn[w].pc # "idle" => \A r \in DOMAIN scoreTxn[w].listings :
                       scoreTxn[w].listings[r] \in Ratings!Listing
                 /\ scoreTxn[w].pc = "write" =>
                       scoreTxn[w].records \in [DOMAIN scoreTxn[w].listings -> Ratings!Records]
      <3>1. PICK t : t = scoreTxn[w]
        OBVIOUS
      <3>2. Scoring(t)
        BY <3>1 DEF RatingInv
      <3>3. CASE t = Ratings!NoTxn
        <4>1. t.pc = "idle" /\ t.task = FALSE
          BY <3>3 DEF Ratings!NoTxn
        <4> QED BY <3>1, <4>1 DEF Ratings!Txn
      <3>4. CASE t # Ratings!NoTxn
        BY <3>1, <3>2, <3>4 DEF Scoring, Ratings!Txn
      <3> QED BY <3>3, <3>4
    <2> QED BY <2>1, <2>2 DEF RatingInv, Ratings!TypeOK
  <1>4. RatingInv => Ratings!BreakdownTellsTotal
    BY DEF RatingInv, Fine, AddsUp, Ratings!BreakdownTellsTotal
  <1> QED BY <1>1, <1>2, <1>3, <1>4, PTL DEF Ratings!Spec

-----------------------------------------------------------------------------
(* The composition.  A step is one of a single service, so that every service *)
(* behaves as it does by itself.                                             *)

LEMMA StepsApart ==
    ASSUME DerivedNext
    PROVE  /\ Next \/ UNCHANGED clusterVars
           /\ Crawls!Next \/ UNCHANGED crawlVars
           /\ Ratings!Next \/ UNCHANGED scoreVars
           /\ Reviews!Next \/ UNCHANGED reviewVars
           /\ Graph!Next \/ UNCHANGED graphVars
           /\ Links!Next \/ UNCHANGED linkVars
           /\ Signals!Next \/ UNCHANGED signalVars
  <1>1. Next \/ UNCHANGED clusterVars
    BY DEF DerivedNext, ClusterStep, CrawlsStep, ScoresStep, ReviewsStep, GraphStep, LinksStep,
           SignalsStep
  <1>2. Crawls!Next \/ UNCHANGED crawlVars
    BY DEF DerivedNext, ClusterStep, CrawlsStep, ScoresStep, ReviewsStep, GraphStep, LinksStep,
           SignalsStep
  <1>3. Ratings!Next \/ UNCHANGED scoreVars
    BY DEF DerivedNext, ClusterStep, CrawlsStep, ScoresStep, ReviewsStep, GraphStep, LinksStep,
           SignalsStep
  <1>4. Reviews!Next \/ UNCHANGED reviewVars
    BY DEF DerivedNext, ClusterStep, CrawlsStep, ScoresStep, ReviewsStep, GraphStep, LinksStep,
           SignalsStep
  <1>5. Graph!Next \/ UNCHANGED graphVars
    BY DEF DerivedNext, ClusterStep, CrawlsStep, ScoresStep, ReviewsStep, GraphStep, LinksStep,
           SignalsStep
  <1>6. Links!Next \/ UNCHANGED linkVars
    BY DEF DerivedNext, ClusterStep, CrawlsStep, ScoresStep, ReviewsStep, GraphStep, LinksStep,
           SignalsStep
  <1>7. Signals!Next \/ UNCHANGED signalVars
    BY DEF DerivedNext, ClusterStep, CrawlsStep, ScoresStep, ReviewsStep, GraphStep, LinksStep,
           SignalsStep
  <1> QED BY <1>1, <1>2, <1>3, <1>4, <1>5, <1>6, <1>7

LEMMA ClustersApart == DerivedSpec => Spec
  <1>1. DerivedInit => Init
    BY DEF DerivedInit
  <1>2. [DerivedNext]_allVars => [Next]_(vars)
    <2>1. ASSUME UNCHANGED allVars PROVE UNCHANGED clusterVars
      BY <2>1 DEF allVars
    <2>2. ASSUME UNCHANGED clusterVars PROVE UNCHANGED vars
      BY <2>2 DEF clusterVars, vars, db
    <2> QED BY <2>1, <2>2, StepsApart
  <1> QED BY <1>1, <1>2, PTL DEF DerivedSpec, Spec

LEMMA CrawlsApart == DerivedSpec => Crawls!Spec
  <1>1. DerivedInit => Crawls!Init
    BY DEF DerivedInit
  <1>2. [DerivedNext]_allVars => [Crawls!Next]_(Crawls!vars)
    <2>1. ASSUME UNCHANGED allVars PROVE UNCHANGED crawlVars
      BY <2>1 DEF allVars
    <2>2. ASSUME UNCHANGED crawlVars PROVE UNCHANGED Crawls!vars
      BY <2>2 DEF crawlVars, Crawls!vars, Crawls!job, Crawls!data, Crawls!at, Crawls!run
    <2> QED BY <2>1, <2>2, StepsApart
  <1> QED BY <1>1, <1>2, PTL DEF DerivedSpec, Crawls!Spec

LEMMA RatingsApart == DerivedSpec => Ratings!Spec
  <1>1. DerivedInit => Ratings!Init
    BY DEF DerivedInit
  <1>2. [DerivedNext]_allVars => [Ratings!Next]_(Ratings!vars)
    <2>1. ASSUME UNCHANGED allVars PROVE UNCHANGED scoreVars
      BY <2>1 DEF allVars
    <2>2. ASSUME UNCHANGED scoreVars PROVE UNCHANGED Ratings!vars
      BY <2>2 DEF scoreVars, Ratings!vars
    <2> QED BY <2>1, <2>2, StepsApart
  <1> QED BY <1>1, <1>2, PTL DEF DerivedSpec, Ratings!Spec

LEMMA ReviewsApart == DerivedSpec => Reviews!Spec
  <1>1. DerivedInit => Reviews!Init
    BY DEF DerivedInit
  <1>2. [DerivedNext]_allVars => [Reviews!Next]_(Reviews!vars)
    <2>1. ASSUME UNCHANGED allVars PROVE UNCHANGED reviewVars
      BY <2>1 DEF allVars
    <2>2. ASSUME UNCHANGED reviewVars PROVE UNCHANGED Reviews!vars
      BY <2>2 DEF reviewVars, Reviews!vars
    <2> QED BY <2>1, <2>2, StepsApart
  <1> QED BY <1>1, <1>2, PTL DEF DerivedSpec, Reviews!Spec

LEMMA GraphApart == DerivedSpec => Graph!Spec
  <1>1. DerivedInit => Graph!Init
    BY DEF DerivedInit
  <1>2. [DerivedNext]_allVars => [Graph!Next]_(Graph!vars)
    <2>1. ASSUME UNCHANGED allVars PROVE UNCHANGED graphVars
      BY <2>1 DEF allVars
    <2>2. ASSUME UNCHANGED graphVars PROVE UNCHANGED Graph!vars
      BY <2>2 DEF graphVars, Graph!vars
    <2> QED BY <2>1, <2>2, StepsApart
  <1> QED BY <1>1, <1>2, PTL DEF DerivedSpec, Graph!Spec

LEMMA LinksApart == DerivedSpec => Links!Spec
  <1>1. DerivedInit => Links!Init
    BY DEF DerivedInit
  <1>2. [DerivedNext]_allVars => [Links!Next]_(Links!vars)
    <2>1. ASSUME UNCHANGED allVars PROVE UNCHANGED linkVars
      BY <2>1 DEF allVars
    <2>2. ASSUME UNCHANGED linkVars PROVE UNCHANGED Links!vars
      BY <2>2 DEF linkVars, Links!vars
    <2> QED BY <2>1, <2>2, StepsApart
  <1> QED BY <1>1, <1>2, PTL DEF DerivedSpec, Links!Spec

LEMMA SignalsApart == DerivedSpec => Signals!Spec
  <1>1. DerivedInit => Signals!Init
    BY DEF DerivedInit
  <1>2. [DerivedNext]_allVars => [Signals!Next]_(Signals!vars)
    <2>1. ASSUME UNCHANGED allVars PROVE UNCHANGED signalVars
      BY <2>1 DEF allVars
    <2>2. ASSUME UNCHANGED signalVars PROVE UNCHANGED Signals!vars
      BY <2>2 DEF signalVars, Signals!vars
    <2> QED BY <2>1, <2>2, StepsApart
  <1> QED BY <1>1, <1>2, PTL DEF DerivedSpec, Signals!Spec

\* The status of a qualification is that of its reviews, whatever overlaps
\* (services/qualification.py, review_qualification).
THEOREM ReviewsTold == DerivedSpec => []ReviewsTellStatus
  <1>1. Reviews!Spec => [](Reviews!TypeOK /\ Reviews!ReviewsTellStatus)
    BY DerivedAssumption, StatusTellsReviews
  <1>2. Reviews!ReviewsTellStatus => ReviewsTellStatus
    BY DEF ReviewsTellStatus
  <1> QED BY <1>1, <1>2, ReviewsApart, PTL

\* Restaurants that find each other are connected, whichever was built first
\* (services/merchant_graph.py, build_relationships_for_entity).
THEOREM PeersLinked == DerivedSpec => []GraphLinksPeers
  <1>1. Graph!Spec => []Graph!GraphLinksPeers
    BY DerivedAssumption, PeersAreLinked
  <1>2. Graph!GraphLinksPeers => GraphLinksPeers
    BY DEF GraphLinksPeers
  <1> QED BY <1>1, <1>2, GraphApart, PTL

\* What is found of a restaurant or a lead is stored as often as it was found: a
\* visit leaves one event, or was lost, or its lead erased; a request for every
\* source keeps the records of a source once, but for a retry or a takeover, and
\* the counts of a job are those of its records (tasks/tracking_tasks.py,
\* log_tracker_event; tasks/crawl_tasks.py).
THEOREM FindingsTold == DerivedSpec => []FindingsAccounted
  <1>1. Links!Spec => []Links!VisitsAccounted
    BY DerivedAssumption, VisitsLeaveEvents
  <1>2. Crawls!Spec => [](Crawls!TypeOK /\ Crawls!JobTellsRecords /\ Crawls!CopiesAreFaults)
    BY DerivedAssumption, CrawlsTell
  <1>3. Links!VisitsAccounted /\ Crawls!JobTellsRecords /\ Crawls!CopiesAreFaults
            => FindingsAccounted
    BY DEF FindingsAccounted
  <1> QED BY <1>1, <1>2, <1>3, LinksApart, CrawlsApart, PTL

\* Better facts make no lower score, the columns of a breakdown make its total,
\* and the engagement of the leads is that of their events, but for what overlaps
\* (scoring/icp_scorer.py, tasks/score_tasks.py, tasks/engagement_tasks.py).
THEOREM ScoresTold == DerivedSpec => []ScoresTellFacts
  <1>1. Ratings!Spec => [](Ratings!TypeOK /\ Ratings!BreakdownTellsTotal)
    BY DerivedAssumption, BreakdownsTold
  <1>2. Signals!Spec => [](Signals!TypeOK /\ Signals!ScoreTellsEvents)
    BY DerivedAssumption, EventsTold
  <1>3. Ratings!BreakdownTellsTotal /\ Signals!ScoreTellsEvents => ScoresTellFacts
    <2>1. Ratings!ScoreMonotone
      BY BetterScoresMore DEF Ratings!ScoreMonotone
    <2> QED BY <2>1 DEF ScoresTellFacts
  <1> QED BY <1>1, <1>2, <1>3, RatingsApart, SignalsApart, PTL

\* The values of what is made of the clusters' restaurants have their types: a
\* share stays one of ten thousand, and no bound is passed by more than the
\* requests that were open when it was reached.
THEOREM ValuesTyped == DerivedSpec => []TypesOK
  <1>1. Ratings!Spec => [](Ratings!TypeOK /\ Ratings!BreakdownTellsTotal)
    BY DerivedAssumption, BreakdownsTold
  <1>2. Signals!Spec => [](Signals!TypeOK /\ Signals!ScoreTellsEvents)
    BY DerivedAssumption, EventsTold
  <1>3. Crawls!Spec => [](Crawls!TypeOK /\ Crawls!JobTellsRecords /\ Crawls!CopiesAreFaults)
    BY DerivedAssumption, CrawlsTell
  <1>4. Reviews!Spec => [](Reviews!TypeOK /\ Reviews!ReviewsTellStatus)
    BY DerivedAssumption, StatusTellsReviews
  <1>5. Graph!Spec => []Graph!TypeOK
    BY DerivedAssumption, GraphTyped
  <1>6. Links!Spec => []Links!TypeOK
    BY DerivedAssumption, LinksTyped
  <1>7. Ratings!TypeOK /\ Signals!TypeOK /\ Crawls!TypeOK /\ Reviews!TypeOK /\ Graph!TypeOK
            /\ Links!TypeOK => TypesOK
    BY DEF TypesOK
  <1> QED BY <1>1, <1>2, <1>3, <1>4, <1>5, <1>6, <1>7, RatingsApart, SignalsApart, CrawlsApart,
             ReviewsApart, GraphApart, LinksApart, PTL

=============================================================================
