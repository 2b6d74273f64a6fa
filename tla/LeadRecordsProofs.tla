------------------------- MODULE LeadRecordsProofs -------------------------
(***************************************************************************)
(* Proofs about LeadRecords for every number of people, restaurants and    *)
(* requests: its type invariant, that an erased lead stays erased, and     *)
(* that rows and HubSpot's contacts agree but for the overlaps named.      *)
(***************************************************************************)
EXTENDS LeadRecords, TLAPS

Erasing(o) == o \in {"erase", "eraseRow"}

\* What a request under way has in hand.
Equipped(r) ==
    /\ req[r].op \in {"form", "event"} /\ Running(r) => req[r].who \in People
    /\ req[r].op = "event" /\ Running(r) => req[r].lead \in Leads
    /\ Flushed(r) => req[r].lead \in Leads
    /\ req[r].op = "merge" => req[r].lead \in Leads /\ req[r].source \in Leads
    /\ Erasing(req[r].op) => req[r].lead \in stored
    /\ req[r].op = "patch" => req[r].lead \in stored
    /\ At(r, "erase", "read") => req[r].hub \in Contacts

TypeInv == TypeOK /\ \A r \in Requests : Equipped(r)

LEMMA ContactOfPerson ==
    ASSUME NEW p \in People
    PROVE  {p} \X {1, 2} \subseteq Leads /\ {p} \X {1, 2} \subseteq Contacts
  BY DEF Leads, Contacts

-----------------------------------------------------------------------------
(* Initial states.                                                         *)

LEMMA TypeInit == Init => TypeInv
  <1> SUFFICES ASSUME Init PROVE TypeInv
    OBVIOUS
  <1>a. PICK known \in SUBSET People : \E synced, matched \in SUBSET known :
            StoredBefore(known, synced, matched)
    BY DEF Init
  <1>b. PICK synced \in SUBSET known, matched \in SUBSET known :
            StoredBefore(known, synced, matched)
    BY <1>a
  <1> USE <1>b DEF StoredBefore
  <1>2. \A k \in SUBSET People : k \X {1} \subseteq Leads /\ k \X {1} \subseteq Contacts
    BY DEF Leads, Contacts
  <1>3. \A k \in SUBSET People : \A l \in k \X {1} : l[1] \in k
    OBVIOUS
  <1>4. stored \subseteq Leads /\ hubspot \subseteq Contacts /\ gone \subseteq Contacts \ hubspot
    BY <1>2
  <1>5. /\ email \in [Leads -> People \cup {None, Redacted}]
        /\ data \in [Leads -> SUBSET (People \X Fields)]
    BY <1>3
  <1>6. rest \in [Leads -> Prospects \cup {None}]
    BY <1>3, LeadAssumption
  <1>7. hub \in [Leads -> Contacts \cup {None}]
    BY <1>2
  <1>8. into \in [Leads -> Leads \cup {None}] /\ overlap \subseteq Leads
    BY DEF Init
  <1>9. req \in [Requests -> RequestStates]
    BY DEF Init, Idle, RequestStates
  <1>10. \A r \in Requests : Equipped(r)
    BY DEF Init, Idle, Equipped, Running, Flushed, At, Erasing
  <1>11. QED
    BY <1>4, <1>5, <1>6, <1>7, <1>8, <1>9, <1>10 DEF TypeOK, TypeInv

-----------------------------------------------------------------------------
(* Requests: what changes when one of them does.                           *)

\* Only r's record changes.
OnlyMoves(r) ==
    /\ req' \in [Requests -> RequestStates]
    /\ \A s \in Requests : s # r => req'[s] = req[s]

\* The others stay equipped, for no row is ever deleted.
LEMMA OthersEquipped ==
    ASSUME TypeInv, NEW r \in Requests, OnlyMoves(r), stored \subseteq stored', Equipped(r)'
    PROVE  \A s \in Requests : Equipped(s)'
  <1>1. ASSUME NEW s \in Requests, s # r PROVE Equipped(s)'
    BY <1>1 DEF OnlyMoves, TypeInv, Equipped, Running, Flushed, At
  <1>2. QED
    BY <1>1

\* A request that starts.
LEMMA Started ==
    ASSUME TypeInv, NEW r \in Requests, NEW rec \in RequestStates,
           req' = [req EXCEPT ![r] = rec]
    PROVE  OnlyMoves(r) /\ req'[r] = rec
  BY DEF OnlyMoves, TypeInv, TypeOK

\* A request that moves on keeps all it has.
LEMMA MovedOn ==
    ASSUME TypeInv, NEW r \in Requests,
           NEW place \in {"read", "flushed", "synced", "redact", "done", "failed"},
           Goto(r, place)
    PROVE  OnlyMoves(r) /\ req'[r] = [req[r] EXCEPT !.at = place]
  <1>1. req[r] \in RequestStates
    BY DEF TypeInv, TypeOK
  <1>2. [req[r] EXCEPT !.at = place] \in RequestStates
    BY <1>1 DEF RequestStates
  <1>3. req' = [req EXCEPT ![r] = [req[r] EXCEPT !.at = place]]
    BY DEF Goto
  <1>4. QED
    BY <1>2, <1>3, Started

\* A request that moves on keeps what it has (all steps but those above).
LEMMA MovedOnFields ==
    ASSUME TypeInv, NEW r \in Requests,
           NEW place \in {"read", "flushed", "synced", "redact", "done", "failed"},
           Goto(r, place)
    PROVE  /\ OnlyMoves(r) /\ req'[r].at = place /\ req'[r].op = req[r].op
           /\ req'[r].who = req[r].who /\ req'[r].lead = req[r].lead
           /\ req'[r].source = req[r].source /\ req'[r].hub = req[r].hub
           /\ req'[r].contact = req[r].contact
  <1>1. req[r] \in RequestStates
    BY DEF TypeInv, TypeOK
  <1>2. OnlyMoves(r) /\ req'[r] = [req[r] EXCEPT !.at = place]
    BY MovedOn
  <1>3. QED
    BY <1>1, <1>2 DEF RequestStates

-----------------------------------------------------------------------------
(* The type invariant.                                                     *)

\* TypeOK of everything but the requests.
Stores ==
    /\ stored \subseteq Leads /\ overlap \subseteq Leads
    /\ email \in [Leads -> People \cup {None, Redacted}]
    /\ data \in [Leads -> SUBSET (People \X Fields)]
    /\ rest \in [Leads -> Prospects \cup {None}]
    /\ hub \in [Leads -> Contacts \cup {None}]
    /\ into \in [Leads -> Leads \cup {None}]
    /\ hubspot \subseteq Contacts /\ gone \subseteq Contacts \ hubspot

LEMMA StepType ==
    ASSUME TypeInv, NEW r \in Requests, OnlyMoves(r),
           stored \subseteq stored', Stores', Equipped(r)'
    PROVE  TypeInv'
  BY OthersEquipped DEF TypeInv, TypeOK, Stores, OnlyMoves

LEMMA BeganType ==
    ASSUME TypeInv, NEW r \in Requests, OnlyMoves(r),
           UNCHANGED <<rows, hubspot, gone>>, overlap' \subseteq Leads, Equipped(r)'
    PROVE  TypeInv'
  <1>1. Stores'
    BY DEF TypeInv, TypeOK, Stores, rows
  <1>2. stored \subseteq stored'
    BY DEF rows
  <1>3. QED
    BY <1>1, <1>2, StepType

LEMMA FormLookupStep ==
    ASSUME TypeInv, NEW r \in Requests, NEW p \in People, FormLookup(r, p)
    PROVE  /\ OnlyMoves(r) /\ req'[r].op = "form" /\ req'[r].at = "read" /\ req'[r].who = p
           /\ req'[r].source = None /\ req'[r].contact = None
           /\ \/ req'[r].lead = None /\ req'[r].hub = None
              \/ /\ req'[r].lead \in stored /\ email[req'[r].lead] = p
                 /\ req'[r].hub = hub[req'[r].lead]
  <1>1. CASE ByEmail(p) = {}
    <2> DEFINE rec == [Idle EXCEPT !.op = "form", !.at = "read", !.who = p]
    <2>1. rec \in RequestStates /\ req' = [req EXCEPT ![r] = rec]
      BY <1>1 DEF FormLookup, Idle, RequestStates
    <2> HIDE DEF rec
    <2>2. OnlyMoves(r) /\ req'[r] = rec
      BY <2>1, Started
    <2>3. QED
      BY <2>2 DEF Idle, rec
  <1>2. ASSUME NEW l \in ByEmail(p),
               req' = [req EXCEPT ![r] = [Idle EXCEPT !.op = "form", !.at = "read", !.who = p,
                                                   !.lead = l, !.hub = hub[l]]]
        PROVE  /\ OnlyMoves(r) /\ req'[r].op = "form" /\ req'[r].at = "read"
               /\ req'[r].who = p /\ req'[r].source = None /\ req'[r].contact = None
               /\ req'[r].lead \in stored /\ email[req'[r].lead] = p
               /\ req'[r].hub = hub[req'[r].lead]
    <2> DEFINE rec == [Idle EXCEPT !.op = "form", !.at = "read", !.who = p,
                                   !.lead = l, !.hub = hub[l]]
    <2>1. l \in stored /\ l \in Leads /\ email[l] = p /\ hub[l] \in Contacts \cup {None}
      BY DEF ByEmail, TypeInv, TypeOK
    <2>2. rec \in RequestStates
      BY <2>1 DEF Idle, RequestStates
    <2>3. req' = [req EXCEPT ![r] = rec]
      BY <1>2
    <2> HIDE DEF rec
    <2>4. OnlyMoves(r) /\ req'[r] = rec
      BY <2>2, <2>3, Started
    <2>5. QED
      BY <2>1, <2>4 DEF Idle, rec
  <1>3. QED
    BY <1>1, <1>2 DEF FormLookup

LEMMA FormFlushStep ==
    ASSUME TypeInv, NEW r \in Requests, FormFlush(r)
    PROVE  /\ OnlyMoves(r) /\ req[r].op = "form" /\ req[r].at = "read"
           /\ req'[r].op = "form" /\ req'[r].who = req[r].who /\ req[r].who \in People
           /\ req'[r].source = req[r].source /\ req'[r].hub = req[r].hub
           /\ req'[r].contact = req[r].contact
           /\ \/ req'[r].at = "failed"
              \/ /\ req'[r].at = "flushed" /\ req'[r].lead \in Leads
                 /\ \/ /\ req'[r].lead = req[r].lead /\ req[r].lead # None
                       /\ ~RowLocked(req[r].lead)
                    \/ /\ req'[r].lead \in ({req[r].who} \X {1, 2}) \ stored
                       /\ req[r].lead = None /\ ByEmail(req[r].who) = {}
                       /\ \A l \in ({req[r].who} \X {1, 2}) \ stored : ~RowLocked(l)
  <1>1. req[r] \in RequestStates /\ At(r, "form", "read") /\ req[r].who \in People
    BY DEF FormFlush, FlushReady, TypeInv, TypeOK, Equipped, At, Running
  <1> DEFINE free == ({req[r].who} \X {1, 2}) \ stored
  <1>2. CASE req[r].lead # None
    <2>1. ~RowLocked(req[r].lead) /\ \E place \in {"flushed", "failed"} : Goto(r, place)
      BY <1>2 DEF FormFlush, FlushReady
    <2>2. PICK place \in {"flushed", "failed"} : Goto(r, place)
      BY <2>1
    <2>3. /\ OnlyMoves(r) /\ req'[r].at = place /\ req'[r].op = req[r].op
          /\ req'[r].who = req[r].who /\ req'[r].lead = req[r].lead
          /\ req'[r].source = req[r].source /\ req'[r].hub = req[r].hub
          /\ req'[r].contact = req[r].contact
      BY <2>2, MovedOnFields
    <2>4. req[r].lead \in Leads
      BY <1>1, <1>2 DEF RequestStates
    <2>5. QED
      BY <1>1, <1>2, <2>1, <2>3, <2>4 DEF At
  <1>3. CASE req[r].lead = None
    <2>1. CASE Goto(r, "failed")
      <3>1. /\ OnlyMoves(r) /\ req'[r].at = "failed" /\ req'[r].op = req[r].op
            /\ req'[r].who = req[r].who /\ req'[r].source = req[r].source
            /\ req'[r].hub = req[r].hub /\ req'[r].contact = req[r].contact
        BY <2>1, MovedOnFields
      <3>2. QED
        BY <1>1, <3>1 DEF At
    <2>2. ASSUME NEW l \in free, NEW place \in {"flushed", "failed"},
                 req' = [req EXCEPT ![r].lead = l, ![r].at = place],
                 ByEmail(req[r].who) = {}, \A k \in free : ~RowLocked(k)
          PROVE  /\ OnlyMoves(r) /\ req'[r].op = "form" /\ req'[r].who = req[r].who
                 /\ req'[r].source = req[r].source /\ req'[r].hub = req[r].hub
                 /\ req'[r].contact = req[r].contact
                 /\ req'[r].at = place /\ req'[r].lead = l /\ l \in Leads
      <3>1. l \in Leads
        BY <1>1, ContactOfPerson
      <3>2. req'[r] = [req[r] EXCEPT !.lead = l, !.at = place]
        BY <2>2 DEF TypeInv, TypeOK
      <3>3. req'[r] \in RequestStates /\ req'[r].lead = l /\ req'[r].at = place
        BY <1>1, <3>1, <3>2 DEF RequestStates
      <3>4. OnlyMoves(r)
        BY <2>2, <3>3 DEF TypeInv, TypeOK, OnlyMoves
      <3>5. /\ req'[r].op = "form" /\ req'[r].who = req[r].who
            /\ req'[r].source = req[r].source /\ req'[r].hub = req[r].hub
            /\ req'[r].contact = req[r].contact
        BY <1>1, <3>2 DEF At, RequestStates
      <3>6. QED
        BY <3>1, <3>3, <3>4, <3>5
    <2>3. \/ Goto(r, "failed")
          \/ /\ ByEmail(req[r].who) = {} /\ \A k \in free : ~RowLocked(k)
             /\ \E l \in free, place \in {"flushed", "failed"} :
                   req' = [req EXCEPT ![r].lead = l, ![r].at = place]
      BY <1>3 DEF FormFlush, FlushReady, Free
    <2>4. CASE ~Goto(r, "failed")
      <3>1. PICK l \in free, place \in {"flushed", "failed"} :
                req' = [req EXCEPT ![r].lead = l, ![r].at = place]
        BY <2>3, <2>4
      <3>2. ByEmail(req[r].who) = {} /\ \A k \in free : ~RowLocked(k)
        BY <2>3, <2>4
      <3>3. /\ OnlyMoves(r) /\ req'[r].op = "form" /\ req'[r].who = req[r].who
            /\ req'[r].source = req[r].source /\ req'[r].hub = req[r].hub
            /\ req'[r].contact = req[r].contact
            /\ req'[r].at = place /\ req'[r].lead = l /\ l \in Leads
        BY <2>2, <3>1, <3>2
      <3>4. QED
        BY <1>1, <1>3, <3>2, <3>3 DEF At
    <2>5. QED
      BY <2>1, <2>4
  <1>4. QED
    BY <1>2, <1>3

LEMMA FormSyncStep ==
    ASSUME TypeInv, NEW r \in Requests, FormSync(r)
    PROVE  /\ OnlyMoves(r) /\ req[r].op = "form" /\ req[r].at = "flushed"
           /\ req'[r].op = "form" /\ req'[r].who = req[r].who /\ req[r].who \in People
           /\ req'[r].lead = req[r].lead /\ req'[r].source = req[r].source
           /\ req'[r].hub = req[r].hub
           /\ req'[r].at \in {"synced", "failed"}
           /\ hubspot' \subseteq Contacts /\ gone \subseteq Contacts \ hubspot'
           /\ \/ hubspot' = hubspot /\ req'[r].contact = req[r].contact
              \/ /\ req'[r].contact \in Contacts /\ req'[r].contact[1] = req[r].who
                 /\ hubspot' = hubspot \cup {req'[r].contact}
                 /\ req'[r].contact \notin hubspot => Hits(req[r].who) = {}
  <1>1. req[r] \in RequestStates /\ At(r, "form", "flushed") /\ req[r].who \in People
    BY DEF FormSync, TypeInv, TypeOK, Equipped, At, Running
  <1>2. hubspot \subseteq Contacts /\ gone \subseteq Contacts \ hubspot
    BY DEF TypeInv, TypeOK
  <1>3. CASE UNCHANGED hubspot /\ \E place \in {"synced", "failed"} : Goto(r, place)
    <2>1. PICK place \in {"synced", "failed"} : Goto(r, place)
      BY <1>3
    <2>2. OnlyMoves(r) /\ req'[r] = [req[r] EXCEPT !.at = place]
      BY <2>1, MovedOn
    <2>3. QED
      BY <1>1, <1>2, <1>3, <2>2 DEF At, RequestStates
  <1>4. ASSUME NEW c, c \in (IF Hits(req[r].who) # {} THEN Hits(req[r].who) ELSE Fresh(req[r].who)),
               hubspot' = hubspot \cup {c},
               NEW place \in {"synced", "failed"},
               req' = [req EXCEPT ![r].at = place, ![r].contact = c]
        PROVE  /\ OnlyMoves(r) /\ req'[r].op = "form" /\ req'[r].who = req[r].who
               /\ req'[r].lead = req[r].lead /\ req'[r].source = req[r].source
               /\ req'[r].hub = req[r].hub
               /\ req'[r].at \in {"synced", "failed"}
               /\ hubspot' \subseteq Contacts /\ gone \subseteq Contacts \ hubspot'
               /\ req'[r].contact \in Contacts /\ req'[r].contact[1] = req[r].who
               /\ hubspot' = hubspot \cup {req'[r].contact}
               /\ req'[r].contact \notin hubspot => Hits(req[r].who) = {}
    <2>1. /\ c \in Contacts /\ c \notin gone /\ c[1] = req[r].who
          /\ c \notin hubspot => Hits(req[r].who) = {}
      <3>1. CASE Hits(req[r].who) # {}
        BY <1>2, <1>4, <3>1 DEF Hits
      <3>2. CASE Hits(req[r].who) = {}
        BY <1>1, <1>4, <3>2, ContactOfPerson DEF Fresh
      <3>3. QED
        BY <3>1, <3>2
    <2>2. req'[r] = [req[r] EXCEPT !.at = place, !.contact = c]
      BY <1>4 DEF TypeInv, TypeOK
    <2>3. /\ req'[r] \in RequestStates /\ req'[r].at = place
          /\ req'[r].op = req[r].op /\ req'[r].who = req[r].who
          /\ req'[r].lead = req[r].lead /\ req'[r].source = req[r].source
          /\ req'[r].hub = req[r].hub /\ req'[r].contact = c
      BY <1>1, <2>1, <2>2 DEF RequestStates
    <2>4. OnlyMoves(r)
      BY <1>4, <2>3 DEF TypeInv, TypeOK, OnlyMoves
    <2>5. QED
      BY <1>1, <1>2, <1>4, <2>1, <2>3, <2>4 DEF At
  <1>5. QED
    BY <1>1, <1>3, <1>4 DEF FormSync, At

LEMMA LoadingStep ==
    ASSUME TypeInv, NEW r \in Requests, NEW l \in stored, NEW op \in {"erase", "eraseRow"},
           NEW place \in {"read", "redact"}, Loading(r, l, op, place)
    PROVE  /\ OnlyMoves(r) /\ req'[r].op = op /\ req'[r].at = place
           /\ req'[r].lead = l /\ req'[r].source = None /\ req'[r].hub = hub[l]
  <1> DEFINE rec == [Idle EXCEPT !.op = op, !.at = place, !.lead = l,
                                 !.hub = hub[l], !.data = data[l]]
  <1>1. l \in Leads /\ hub[l] \in Contacts \cup {None} /\ data[l] \in SUBSET (People \X Fields)
    BY DEF TypeInv, TypeOK
  <1>2. rec \in RequestStates
    BY <1>1 DEF Idle, RequestStates
  <1>3. req' = [req EXCEPT ![r] = rec]
    BY DEF Loading
  <1> HIDE DEF rec
  <1>4. OnlyMoves(r) /\ req'[r] = rec
    BY <1>2, <1>3, Started
  <1>5. QED
    BY <1>4 DEF Idle, rec

LEMMA MergeLoadStep ==
    ASSUME TypeInv, NEW r \in Requests, NEW s \in stored, NEW t \in stored, MergeLoad(r, s, t)
    PROVE  /\ OnlyMoves(r) /\ req'[r].op = "merge" /\ req'[r].at \in {"read", "failed"}
           /\ req'[r].lead = t /\ req'[r].source = s
           /\ req'[r].hub = IF hub[t] = None THEN hub[s] ELSE None
  <1>1. PICK filled \in SUBSET Fields :
            req' = [req EXCEPT ![r] = [Idle EXCEPT !.op = "merge", !.lead = t, !.source = s,
                     !.at = IF rest[t] = None /\ rest[s] # None THEN "failed" ELSE "read",
                     !.hub = IF hub[t] = None THEN hub[s] ELSE None,
                     !.data = {d \in data[s] : d[2] \in filled}]]
    BY DEF MergeLoad
  <1> DEFINE given == {d \in data[s] : d[2] \in filled}
             place == IF rest[t] = None /\ rest[s] # None THEN "failed" ELSE "read"
             link == IF hub[t] = None THEN hub[s] ELSE None
             rec == [Idle EXCEPT !.op = "merge", !.lead = t, !.source = s,
                     !.at = place, !.hub = link, !.data = given]
  <1>2. /\ s \in Leads /\ t \in Leads /\ given \in SUBSET (People \X Fields)
        /\ place \in {"failed", "read"} /\ link \in Contacts \cup {None}
    BY DEF TypeInv, TypeOK
  <1>3. req' = [req EXCEPT ![r] = rec]
    BY <1>1
  <1> HIDE DEF given, place, link
  <1>4. rec \in RequestStates
    BY <1>2 DEF Idle, RequestStates
  <1> HIDE DEF rec
  <1>5. OnlyMoves(r) /\ req'[r] = rec
    BY <1>3, <1>4, Started
  <1>6. QED
    BY <1>2, <1>5 DEF Idle, rec, link

LEMMA PatchLoadStep ==
    ASSUME TypeInv, NEW r \in Requests, NEW l \in stored, NEW c \in Contacts \cup {None},
           PatchLoad(r, l, c)
    PROVE  /\ OnlyMoves(r) /\ req'[r].op = "patch" /\ req'[r].at = "read"
           /\ req'[r].lead = l /\ req'[r].source = None /\ req'[r].hub = hub[l]
           /\ req'[r].contact = c
  <1> DEFINE rec == [Idle EXCEPT !.op = "patch", !.at = "read", !.lead = l,
                                 !.hub = hub[l], !.contact = c]
  <1>1. l \in Leads /\ hub[l] \in Contacts \cup {None}
    BY DEF TypeInv, TypeOK
  <1>2. rec \in RequestStates
    BY <1>1 DEF Idle, RequestStates
  <1>3. req' = [req EXCEPT ![r] = rec]
    BY DEF PatchLoad
  <1> HIDE DEF rec
  <1>4. OnlyMoves(r) /\ req'[r] = rec
    BY <1>2, <1>3, Started
  <1>5. QED
    BY <1>4 DEF Idle, rec

LEMMA FormCommitType ==
    ASSUME TypeInv, NEW r \in Requests, FormCommit(r)
    PROVE  TypeInv'
  <1>1. /\ req[r] \in RequestStates /\ At(r, "form", "synced")
        /\ req[r].who \in People /\ req[r].lead \in Leads
    BY DEF FormCommit, CommitReady, TypeInv, TypeOK, Equipped, At, Running, Flushed
  <1>2. PICK place \in {"failed", "done"} : Goto(r, place)
    BY DEF FormCommit
  <1>3. OnlyMoves(r) /\ req'[r].at = place /\ req'[r].op = "form"
    BY <1>1, <1>2, MovedOnFields DEF At
  <1>4. Equipped(r)'
    BY <1>3 DEF Equipped, Running, Flushed, At, Erasing
  <1>5. stored \subseteq stored' /\ Stores'
    <2>1. CASE UNCHANGED rows
      BY <2>1 DEF FormCommit, TypeInv, TypeOK, Stores, rows
    <2>2. CASE ~UNCHANGED rows
      <3>1. Matches[req[r].who] \in Prospects \cup {None}
        BY <1>1, LeadAssumption
      <3>2. Link(r) \in [Leads -> Contacts \cup {None}]
        BY <1>1 DEF Link, TypeInv, TypeOK, RequestStates
      <3>3. data' \in [Leads -> SUBSET (People \X Fields)]
        <4>1. PICK filled \in {{"person"}, Fields} :
                  data' = [data EXCEPT ![req[r].lead] = @ \cup {req[r].who} \X filled]
          BY <2>2 DEF FormCommit
        <4>2. {req[r].who} \X filled \subseteq People \X Fields
          BY <1>1, <4>1 DEF Fields
        <4>3. QED
          BY <4>1, <4>2 DEF TypeInv, TypeOK
      <3>4. QED
        BY <1>1, <2>2, <3>1, <3>2, <3>3 DEF FormCommit, TypeInv, TypeOK, Stores
    <2>3. QED
      BY <2>1, <2>2
  <1>6. QED
    BY <1>3, <1>4, <1>5, StepType

LEMMA PromoteType ==
    ASSUME TypeInv, NEW r \in Requests, NEW x \in Prospects, Promote(r, x)
    PROVE  TypeInv'
  <1> DEFINE rec == [Idle EXCEPT !.op = "promote", !.at = "done"]
  <1>1. rec \in RequestStates /\ req' = [req EXCEPT ![r] = rec]
    BY DEF Promote, Idle, RequestStates
  <1> HIDE DEF rec
  <1>2. OnlyMoves(r) /\ req'[r] = rec
    BY <1>1, Started
  <1>3. Equipped(r)'
    BY <1>2 DEF Equipped, Running, Flushed, At, Erasing, Idle, rec
  <1>4. stored \subseteq stored' /\ Stores'
    BY DEF Promote, TypeInv, TypeOK, Stores, Leads
  <1>5. QED
    BY <1>2, <1>3, <1>4, StepType

LEMMA MergeCommitType ==
    ASSUME TypeInv, NEW r \in Requests, MergeCommit(r)
    PROVE  TypeInv'
  <1>1. /\ req[r] \in RequestStates /\ req[r].op = "merge"
        /\ req[r].lead \in Leads /\ req[r].source \in Leads
    BY DEF MergeCommit, MergeReady, TypeInv, TypeOK, Equipped, At, RowFree
  <1>2. OnlyMoves(r) /\ req'[r].at = "done" /\ req'[r].op = "merge"
        /\ req'[r].lead = req[r].lead /\ req'[r].source = req[r].source
    BY <1>1, MovedOnFields DEF MergeCommit
  <1>3. Equipped(r)'
    BY <1>1, <1>2 DEF Equipped, Running, Flushed, At, Erasing
  <1>4. stored \subseteq stored' /\ Stores'
    BY <1>1 DEF MergeCommit, TypeInv, TypeOK, Stores, RequestStates
  <1>5. QED
    BY <1>2, <1>3, <1>4, StepType

LEMMA PatchCommitType ==
    ASSUME TypeInv, NEW r \in Requests, PatchCommit(r)
    PROVE  TypeInv'
  <1>1. req[r] \in RequestStates /\ At(r, "patch", "read") /\ req[r].lead \in stored
    BY DEF PatchCommit, TypeInv, TypeOK, Equipped, At
  <1>2. /\ OnlyMoves(r) /\ req'[r].at = "done" /\ req'[r].op = "patch"
        /\ req'[r].lead = req[r].lead
    BY <1>1, MovedOnFields DEF PatchCommit, At
  <1>3. stored' = stored
    BY DEF PatchCommit
  <1>4. Equipped(r)'
    BY <1>1, <1>2, <1>3 DEF Equipped, Running, Flushed, At, Erasing
  <1>5. Stores'
    BY <1>1 DEF PatchCommit, TypeInv, TypeOK, Stores, RequestStates
  <1>6. QED
    BY <1>2, <1>3, <1>4, <1>5, StepType

LEMMA EraseContactType ==
    ASSUME TypeInv, NEW r \in Requests, EraseContact(r)
    PROVE  TypeInv'
  <1>1. At(r, "erase", "read") /\ req[r].hub \in Contacts /\ req[r].lead \in stored
    BY DEF EraseContact, TypeInv, Equipped, At, Erasing
  <1>2. PICK place \in {"redact", "failed"} : Goto(r, place)
    BY DEF EraseContact
  <1>3. /\ OnlyMoves(r) /\ req'[r].at = place /\ req'[r].op = "erase"
        /\ req'[r].lead = req[r].lead
    BY <1>1, <1>2, MovedOnFields DEF At
  <1>4. stored' = stored
    BY DEF EraseContact, rows
  <1>5. Equipped(r)'
    BY <1>1, <1>3, <1>4 DEF Equipped, Running, Flushed, At, Erasing
  <1>6. Stores'
    BY <1>1 DEF EraseContact, TypeInv, TypeOK, Stores, rows
  <1>7. QED
    BY <1>3, <1>4, <1>5, <1>6, StepType

LEMMA OverwriteType ==
    ASSUME TypeInv, NEW r \in Requests, Erasing(req[r].op), Overwrite(r)
    PROVE  TypeInv'
  <1>1. req[r] \in RequestStates /\ req[r].lead \in stored /\ req[r].lead \in Leads
    BY DEF TypeInv, TypeOK, Equipped
  <1>2. PICK place \in {"failed", "done"} : Goto(r, place)
    BY DEF Overwrite
  <1>3. /\ OnlyMoves(r) /\ req'[r].at = place /\ req'[r].op = req[r].op
        /\ req'[r].lead = req[r].lead
    BY <1>2, MovedOnFields
  <1>4. stored' = stored
    BY DEF Overwrite, rows
  <1>5. Equipped(r)'
    BY <1>1, <1>3, <1>4 DEF Equipped, Running, Flushed, At, Erasing
  <1>6. Stores'
    <2>1. CASE UNCHANGED <<rows, overlap>>
      BY <2>1 DEF Overwrite, TypeInv, TypeOK, Stores, rows
    <2>2. CASE ~UNCHANGED <<rows, overlap>>
      <3>1. Unlink(r) \in [Leads -> Contacts \cup {None}]
        BY DEF Unlink, TypeInv, TypeOK
      <3>2. PICK left \in {{}, Cleared(r) \ req[r].data} :
                data' = [data EXCEPT ![req[r].lead] = (@ \ Cleared(r)) \cup left]
        BY <2>2 DEF Overwrite
      <3>3. data' \in [Leads -> SUBSET (People \X Fields)]
        <4>1. data[req[r].lead] \subseteq People \X Fields /\ left \subseteq data[req[r].lead]
          BY <1>1, <3>2 DEF Cleared, TypeInv, TypeOK
        <4>2. QED
          BY <3>2, <4>1 DEF TypeInv, TypeOK
      <3>4. email' \in [Leads -> People \cup {None, Redacted}]
        BY <2>2 DEF Overwrite, TypeInv, TypeOK
      <3>5. overlap' \subseteq Leads
        BY <1>1, <2>2 DEF Overwrite, TypeInv, TypeOK
      <3>6. QED
        BY <2>2, <3>1, <3>3, <3>4, <3>5 DEF Overwrite, TypeInv, TypeOK, Stores
    <2>3. QED
      BY <2>1, <2>2
  <1>7. QED
    BY <1>3, <1>4, <1>5, <1>6, StepType

LEMMA EventLoadStep ==
    ASSUME TypeInv, NEW r \in Requests, NEW c \in Contacts, EventLoad(r, c)
    PROVE  /\ OnlyMoves(r) /\ req'[r].op = "event"
           /\ \/ req'[r].at = "failed"
              \/ /\ req'[r].at = "read" /\ req'[r].who \in People /\ req'[r].source = None
                 /\ req'[r].lead \in stored /\ hub[req'[r].lead] = c
  <1>1. CASE req' = [req EXCEPT ![r] = [Idle EXCEPT !.op = "event", !.at = "failed"]]
    <2> DEFINE rec == [Idle EXCEPT !.op = "event", !.at = "failed"]
    <2>1. rec \in RequestStates /\ req' = [req EXCEPT ![r] = rec]
      BY <1>1 DEF Idle, RequestStates
    <2> HIDE DEF rec
    <2>2. OnlyMoves(r) /\ req'[r] = rec
      BY <2>1, Started
    <2>3. QED
      BY <2>2 DEF Idle, rec
  <1>2. ASSUME NEW l \in stored, hub[l] = c, c \in hubspot,
               req' = [req EXCEPT ![r] = [Idle EXCEPT !.op = "event", !.at = "read",
                                                      !.who = c[1], !.lead = l]]
        PROVE  /\ OnlyMoves(r) /\ req'[r].op = "event" /\ req'[r].at = "read"
               /\ req'[r].who \in People /\ req'[r].source = None
               /\ req'[r].lead \in stored /\ hub[req'[r].lead] = c
    <2> DEFINE rec == [Idle EXCEPT !.op = "event", !.at = "read", !.who = c[1], !.lead = l]
    <2>1. c[1] \in People /\ l \in Leads
      BY DEF Contacts, TypeInv, TypeOK
    <2>2. rec \in RequestStates /\ req' = [req EXCEPT ![r] = rec]
      BY <1>2, <2>1 DEF Idle, RequestStates
    <2> HIDE DEF rec
    <2>3. OnlyMoves(r) /\ req'[r] = rec
      BY <2>2, Started
    <2>4. /\ req'[r].op = "event" /\ req'[r].at = "read" /\ req'[r].who = c[1]
          /\ req'[r].lead = l /\ req'[r].source = None
      BY <2>3 DEF Idle, rec
    <2>5. QED
      BY <1>2, <2>1, <2>3, <2>4
  <1>3. QED
    BY <1>1, <1>2 DEF EventLoad

LEMMA EventCommitType ==
    ASSUME TypeInv, NEW r \in Requests, EventCommit(r)
    PROVE  TypeInv'
  <1>1. /\ req[r] \in RequestStates /\ At(r, "event", "read")
        /\ req[r].who \in People /\ req[r].lead \in Leads
    BY DEF EventCommit, TypeInv, TypeOK, Equipped, At, Running
  <1>2. OnlyMoves(r) /\ req'[r].at = "done" /\ req'[r].op = "event"
    BY <1>1, MovedOnFields DEF EventCommit, At
  <1>3. Equipped(r)'
    BY <1>2 DEF Equipped, Running, Flushed, At, Erasing
  <1>4. stored \subseteq stored' /\ Stores'
    BY <1>1 DEF EventCommit, TypeInv, TypeOK, Stores, Fields
  <1>5. QED
    BY <1>2, <1>3, <1>4, StepType

LEMMA TypeStep == TypeInv /\ [Next]_vars => TypeInv'
  <1> SUFFICES ASSUME TypeInv, [Next]_vars PROVE TypeInv'
    OBVIOUS
  <1>1. ASSUME NEW r \in Requests, NEW p \in People, FormLookup(r, p) PROVE TypeInv'
    <2>1. /\ OnlyMoves(r) /\ req'[r].op = "form" /\ req'[r].at = "read"
          /\ req'[r].who \in People
      BY <1>1, FormLookupStep
    <2>2. Equipped(r)'
      BY <2>1 DEF Equipped, Running, Flushed, At, Erasing
    <2>3. QED
      BY <1>1, <2>1, <2>2, BeganType DEF FormLookup, TypeInv, TypeOK
  <1>2. ASSUME NEW r \in Requests, NEW x \in Prospects, Promote(r, x) PROVE TypeInv'
    BY <1>2, PromoteType
  <1>3. ASSUME NEW r \in Requests, NEW s \in stored, NEW t \in stored, MergeLoad(r, s, t)
        PROVE  TypeInv'
    <2>1. /\ OnlyMoves(r) /\ req'[r].op = "merge"
          /\ req'[r].lead \in Leads /\ req'[r].source \in Leads
      BY <1>3, MergeLoadStep DEF TypeInv, TypeOK
    <2>2. Equipped(r)'
      BY <2>1 DEF Equipped, Running, Flushed, At, Erasing
    <2>3. QED
      BY <1>3, <2>1, <2>2, BeganType DEF MergeLoad, TypeInv, TypeOK
  <1>4. ASSUME NEW r \in Requests, NEW l \in stored, EraseLoad(r, l) \/ EraseRowLoad(r, l)
        PROVE  TypeInv'
    <2>1. PICK op \in {"erase", "eraseRow"}, place \in {"read", "redact"} :
              /\ Loading(r, l, op, place)
              /\ op = "erase" /\ place = "read" => hub[l] # None
      BY <1>4 DEF EraseLoad, EraseRowLoad
    <2>2. /\ OnlyMoves(r) /\ req'[r].op = op /\ req'[r].at = place
          /\ req'[r].lead = l /\ req'[r].hub = hub[l]
      BY <2>1, LoadingStep
    <2>3. UNCHANGED <<rows, hubspot, gone, overlap>>
      BY <2>1 DEF Loading
    <2>4. hub[l] \in Contacts \cup {None} /\ stored' = stored
      BY <2>3 DEF TypeInv, TypeOK, rows
    <2>5. Equipped(r)'
      BY <2>1, <2>2, <2>4 DEF Equipped, Running, Flushed, At, Erasing
    <2>6. QED
      BY <2>2, <2>3, <2>5, BeganType DEF TypeInv, TypeOK
  <1>5. ASSUME NEW r \in Requests, NEW c \in Contacts, EventLoad(r, c) PROVE TypeInv'
    <2>1. /\ OnlyMoves(r) /\ req'[r].op = "event" /\ req'[r].at \in {"failed", "read"}
          /\ req'[r].at = "read" => req'[r].who \in People /\ req'[r].lead \in Leads
      BY <1>5, EventLoadStep DEF TypeInv, TypeOK
    <2>2. Equipped(r)'
      BY <2>1 DEF Equipped, Running, Flushed, At, Erasing
    <2>3. QED
      BY <1>5, <2>1, <2>2, BeganType DEF EventLoad, TypeInv, TypeOK
  <1>6. ASSUME NEW r \in Requests, FormFlush(r) PROVE TypeInv'
    <2>1. /\ OnlyMoves(r) /\ req'[r].op = "form" /\ req'[r].who \in People
          /\ req'[r].at \in {"failed", "flushed"}
          /\ req'[r].at = "flushed" => req'[r].lead \in Leads
      BY <1>6, FormFlushStep
    <2>2. Equipped(r)'
      BY <2>1 DEF Equipped, Running, Flushed, At, Erasing
    <2>3. QED
      BY <1>6, <2>1, <2>2, BeganType DEF FormFlush, TypeInv, TypeOK
  <1>7. ASSUME NEW r \in Requests, FormSync(r) PROVE TypeInv'
    <2>1. /\ OnlyMoves(r) /\ req'[r].op = "form" /\ req'[r].who \in People
          /\ req'[r].at \in {"failed", "synced"} /\ req'[r].lead = req[r].lead
          /\ hubspot' \subseteq Contacts /\ gone \subseteq Contacts \ hubspot'
      BY <1>7, FormSyncStep
    <2>2. req[r].lead \in Leads
      BY <1>7 DEF FormSync, TypeInv, Equipped, Flushed
    <2>3. Equipped(r)'
      BY <2>1, <2>2 DEF Equipped, Running, Flushed, At, Erasing
    <2>4. stored \subseteq stored' /\ Stores'
      BY <1>7, <2>1 DEF FormSync, TypeInv, TypeOK, Stores, rows
    <2>5. QED
      BY <2>1, <2>3, <2>4, StepType
  <1>8. ASSUME NEW r \in Requests, Redact(r) \/ RedactRow(r) PROVE TypeInv'
    BY <1>8, OverwriteType DEF Redact, RedactRow, At, Erasing
  <1>9. ASSUME NEW r \in Requests, NEW l \in stored, NEW c \in Contacts \cup {None},
               PatchLoad(r, l, c)
        PROVE  TypeInv'
    <2>1. /\ OnlyMoves(r) /\ req'[r].op = "patch" /\ req'[r].at = "read" /\ req'[r].lead = l
          /\ stored' = stored
      BY <1>9, PatchLoadStep DEF PatchLoad, rows
    <2>2. Equipped(r)'
      BY <2>1 DEF Equipped, Running, Flushed, At, Erasing
    <2>3. QED
      BY <1>9, <2>1, <2>2, BeganType DEF PatchLoad, TypeInv, TypeOK
  <1>10. CASE UNCHANGED vars
    BY <1>10 DEF vars, rows, TypeInv, TypeOK, Equipped, Running, Flushed, At
  <1>11. QED
    BY <1>1, <1>2, <1>3, <1>4, <1>5, <1>6, <1>7, <1>8, <1>9, <1>10, FormCommitType, MergeCommitType,
       PatchCommitType, EraseContactType, EventCommitType DEF Next, Begin, Work

\* Type correctness, and HubSpot never has a contact it has deleted.
THEOREM TypeCorrect == Spec => []TypeOK
  <1>1. TypeInv => TypeOK
    BY DEF TypeInv
  <1>2. QED
    BY <1>1, TypeInit, TypeStep, PTL DEF Spec

-----------------------------------------------------------------------------
(* Erasure.  ErasedStaysErased is not inductive: it also takes that no      *)
(* request has an erased lead in hand that could still write it, that a row *)
(* is never born erased, and that an erasure that is done left its mark.    *)

Erased(l) == l \in stored \ overlap /\ email[l] = Redacted

\* What an erasure leaves of a row: the business if only the row was erased.
Cleaned(l) == hub[l] = None /\ \A d \in data[l] : d[2] = "business" /\ l \notin ErasedFully

\* r is under way and may write l: the source of a merge is not written, and a
\* PATCH that clears the contact leaves an erased row as it is.
CanWrite(r, l) ==
    /\ Running(r) /\ l \in {req[r].lead, req[r].source}
    /\ ~Erasing(req[r].op)
    /\ ~(req[r].op = "merge" /\ req[r].lead # l)
    /\ ~(req[r].op = "patch" /\ req[r].contact = None)

ErasedInv ==
    /\ TypeInv
    /\ \A l \in stored : Erased(l) => Cleaned(l)
    /\ \A r \in Requests : At(r, "erase", "done") => email[req[r].lead] = Redacted
    /\ \A l \in stored, r \in Requests : Erased(l) => ~CanWrite(r, l)
    /\ \A l \in Leads \ stored : email[l] # Redacted

LEMMA ErasedInit == Init => ErasedInv
  <1> SUFFICES ASSUME Init PROVE ErasedInv
    OBVIOUS
  <1>1. TypeInv
    BY TypeInit
  <1>2. \A l \in Leads : email[l] # Redacted
    <2>1. PICK known \in SUBSET People : \E synced, matched \in SUBSET known :
              StoredBefore(known, synced, matched)
      BY DEF Init
    <2>2. stored = known \X {1} /\ email = [l \in Leads |-> IF l \in stored THEN l[1] ELSE None]
      BY <2>1 DEF StoredBefore
    <2>3. \A l \in known \X {1} : l[1] \in People
      OBVIOUS
    <2>4. QED
      BY <2>2, <2>3, LeadAssumption
  <1>3. \A r \in Requests : ~At(r, "erase", "done")
    BY DEF Init, Idle, At
  <1>4. QED
    BY <1>1, <1>2, <1>3 DEF ErasedInv, Erased, TypeInv, TypeOK

\* What the other requests may write depends on their records alone.
LEMMA OthersCannotWrite ==
    ASSUME NEW r \in Requests, OnlyMoves(r), NEW s \in Requests, s # r, NEW l
    PROVE  CanWrite(s, l)' <=> CanWrite(s, l)
  BY DEF OnlyMoves, CanWrite, Running

\* Only an erasure that ends adds to the leads erased with their contact.
LEMMA FullyKept ==
    ASSUME NEW r \in Requests, OnlyMoves(r), ~At(r, "erase", "done")'
    PROVE  ErasedFully' \subseteq ErasedFully
  BY DEF ErasedFully, OnlyMoves, At

\* A step that writes no row.
LEMMA RowsKept ==
    ASSUME ErasedInv, TypeInv', NEW r \in Requests, OnlyMoves(r), UNCHANGED rows,
           overlap \subseteq overlap', req'[r].at # "done",
           \A l \in stored : Erased(l) /\ l \notin overlap' => ~CanWrite(r, l)'
    PROVE  ErasedInv'
  <1>1. \A l \in stored : Erased(l)' => Erased(l) /\ l \notin overlap'
    BY DEF Erased, rows
  <1>0. ~At(r, "erase", "done")'
    BY DEF At
  <1>2. \A l \in stored' : Erased(l)' => Cleaned(l)'
    BY <1>0, <1>1, FullyKept DEF ErasedInv, rows, Cleaned
  <1>3. ASSUME NEW l \in stored', NEW s \in Requests, Erased(l)' PROVE ~CanWrite(s, l)'
    <2>1. l \in stored /\ Erased(l) /\ l \notin overlap'
      BY <1>1, <1>3 DEF rows
    <2>2. CASE s = r
      BY <2>1, <2>2
    <2>3. CASE s # r
      BY <2>1, <2>3, OthersCannotWrite DEF ErasedInv
    <2>4. QED
      BY <2>2, <2>3
  <1>4. \A l \in Leads \ stored' : email'[l] # Redacted
    BY DEF ErasedInv, rows
  <1>5. \A s \in Requests : At(s, "erase", "done")' => email'[req'[s].lead] = Redacted
    BY <1>0 DEF ErasedInv, rows, OnlyMoves, At
  <1>6. QED
    BY <1>2, <1>3, <1>4, <1>5 DEF ErasedInv

\* A step that ends r and writes the row of one lead k, no erasure.
LEMMA OneRowWritten ==
    ASSUME ErasedInv, TypeInv', NEW r \in Requests, OnlyMoves(r), req'[r].at = "done",
           req'[r].op # "erase", NEW k \in Leads,
           stored \subseteq stored', stored' \subseteq stored \cup {k},
           \A l \in Leads : l # k =>
              email'[l] = email[l] /\ data'[l] = data[l] /\ hub'[l] = hub[l],
           overlap' = overlap,
           Erased(k)' => Cleaned(k)' /\ \A s \in Requests : ~CanWrite(s, k)',
           k \in stored \/ k \notin stored' => email'[k] = email[k]
    PROVE  ErasedInv'
  <1>1. \A l \in stored' : l \in Leads /\ (l # k => l \in stored)
    BY DEF TypeInv, TypeOK
  <1>2. \A l \in stored' : l # k /\ Erased(l)' => Erased(l)
    BY <1>1 DEF Erased
  <1>0. ~At(r, "erase", "done")'
    BY DEF At
  <1>3. \A l \in stored' : Erased(l)' => Cleaned(l)'
    BY <1>0, <1>1, <1>2, FullyKept DEF ErasedInv, Cleaned
  <1>4. ~Running(r)'
    BY DEF Running
  <1>5. ASSUME NEW l \in stored', NEW s \in Requests, Erased(l)' PROVE ~CanWrite(s, l)'
    <2>1. CASE l = k
      BY <1>5, <2>1
    <2>2. CASE l # k /\ s = r
      BY <1>4, <2>2 DEF CanWrite
    <2>3. CASE l # k /\ s # r
      BY <1>1, <1>2, <1>5, <2>3, OthersCannotWrite DEF ErasedInv
    <2>4. QED
      BY <2>1, <2>2, <2>3
  <1>6. \A l \in Leads \ stored' : email'[l] # Redacted
    BY DEF ErasedInv
  <1>7. ASSUME NEW s \in Requests, At(s, "erase", "done")' PROVE email'[req'[s].lead] = Redacted
    <2>1. s # r /\ req'[s] = req[s] /\ At(s, "erase", "done")
      BY <1>0, <1>7 DEF OnlyMoves, At
    <2>2. req[s].lead \in stored /\ req[s].lead \in Leads /\ email[req[s].lead] = Redacted
      BY <2>1 DEF ErasedInv, TypeInv, TypeOK, Equipped, At, Erasing
    <2>3. QED
      BY <2>1, <2>2
  <1>8. QED
    BY <1>3, <1>5, <1>6, <1>7 DEF ErasedInv

LEMMA FormCommitErased ==
    ASSUME ErasedInv, TypeInv', NEW r \in Requests, FormCommit(r)
    PROVE  ErasedInv'
  <1>a. /\ TypeInv /\ At(r, "form", "synced") /\ req[r].who \in People
        /\ req[r].lead \in Leads /\ Running(r) /\ req[r] \in RequestStates
    BY DEF FormCommit, CommitReady, ErasedInv, TypeInv, TypeOK, Equipped, At, Running, Flushed
  <1>b. PICK k \in Leads, p \in People : k = req[r].lead /\ p = req[r].who
    BY <1>a
  <1>1. TypeInv /\ At(r, "form", "synced") /\ Running(r) /\ req[r] \in RequestStates
    BY <1>a
  <1> USE <1>b
  <1>2. CanWrite(r, k)
    BY <1>1 DEF CanWrite, At, Erasing
  <1>3. CASE Goto(r, "failed") /\ UNCHANGED rows
    <2>1. OnlyMoves(r) /\ req'[r].at = "failed"
      BY <1>1, <1>3, MovedOnFields DEF At
    <2>2. \A l \in stored : ~CanWrite(r, l)'
      BY <2>1 DEF CanWrite, Running
    <2>3. QED
      BY <1>3, <2>1, <2>2, RowsKept DEF FormCommit
  <1>4. CASE ~(Goto(r, "failed") /\ UNCHANGED rows)
    <2>1. OnlyMoves(r) /\ req'[r].at = "done" /\ req'[r].op = "form"
      BY <1>1, <1>4, MovedOnFields DEF FormCommit, At
    <2>a. k \in stored => email'[k] = email[k]
      BY <1>4 DEF FormCommit
    <2>2. stored' = stored \cup {k} /\ overlap' = overlap
      BY <1>4 DEF FormCommit
    <2>3. \A l \in Leads : l # k =>
              email'[l] = email[l] /\ data'[l] = data[l] /\ hub'[l] = hub[l]
      BY <1>1, <1>4 DEF FormCommit, Link, TypeInv, TypeOK
    <2>4. ~Erased(k)'
      <3>1. CASE k \in stored
        <4>1. email' = email /\ ~Erased(k)
          BY <1>2, <1>4, <3>1 DEF FormCommit, ErasedInv
        <4>2. QED
          BY <2>2, <3>1, <4>1 DEF Erased
      <3>2. CASE k \notin stored
        <4>1. email'[k] = p
          BY <1>1, <1>4, <3>2 DEF FormCommit, TypeInv, TypeOK
        <4>2. QED
          BY <1>1, <4>1, LeadAssumption DEF Erased
      <3>3. QED
        BY <3>1, <3>2
    <2>5. QED
      BY <1>1, <2>1, <2>a, <2>2, <2>3, <2>4, OneRowWritten
  <1>5. QED
    BY <1>3, <1>4

LEMMA PromoteErased ==
    ASSUME ErasedInv, TypeInv', NEW r \in Requests, NEW x \in Prospects, Promote(r, x)
    PROVE  ErasedInv'
  <1> DEFINE rec == [Idle EXCEPT !.op = "promote", !.at = "done"]
             k == <<x, 1>>
  <1>1. rec \in RequestStates /\ req' = [req EXCEPT ![r] = rec]
    BY DEF Promote, Idle, RequestStates
  <1>2. TypeInv /\ k \in Leads
    BY DEF ErasedInv, Leads
  <1> HIDE DEF rec
  <1>3. OnlyMoves(r) /\ req'[r] = rec
    BY <1>1, <1>2, Started
  <1>4. req'[r].at = "done" /\ req'[r].op = "promote"
    BY <1>3 DEF rec, Idle
  <1>5. stored' = stored \cup {k} /\ k \notin stored /\ UNCHANGED <<email, data, hub, overlap>>
    BY DEF Promote
  <1>6. ~Erased(k)'
    BY <1>2, <1>5 DEF Erased, ErasedInv
  <1>7. QED
    BY <1>2, <1>3, <1>4, <1>5, <1>6, OneRowWritten

LEMMA MergeCommitErased ==
    ASSUME ErasedInv, TypeInv', NEW r \in Requests, MergeCommit(r)
    PROVE  ErasedInv'
  <1>1. TypeInv /\ At(r, "merge", "read") /\ req[r].lead \in Leads
    BY DEF MergeCommit, MergeReady, ErasedInv, TypeInv, Equipped, At, RowFree
  <1>a. PICK k \in Leads : k = req[r].lead
    BY <1>1
  <1> USE <1>a
  <1>2. CanWrite(r, k)
    BY <1>1 DEF CanWrite, At, Running, Erasing
  <1>3. OnlyMoves(r) /\ req'[r].at = "done" /\ req'[r].op = "merge"
    BY <1>1, MovedOnFields DEF MergeCommit, At
  <1>4. UNCHANGED <<stored, email, overlap>>
    BY DEF MergeCommit
  <1>5. \A l \in Leads : l # k =>
            email'[l] = email[l] /\ data'[l] = data[l] /\ hub'[l] = hub[l]
    BY <1>1 DEF MergeCommit, TypeInv, TypeOK
  <1>6. ~Erased(k)'
    BY <1>2, <1>4 DEF Erased, ErasedInv
  <1>7. QED
    BY <1>1, <1>3, <1>4, <1>5, <1>6, OneRowWritten

\* A PATCH that names a contact noted the row if it was erased; one that clears
\* the contact finds none.
LEMMA PatchCommitErased ==
    ASSUME ErasedInv, TypeInv', NEW r \in Requests, PatchCommit(r)
    PROVE  ErasedInv'
  <1>1. TypeInv /\ At(r, "patch", "read") /\ req[r].lead \in stored /\ req[r].lead \in Leads
    BY DEF PatchCommit, ErasedInv, TypeInv, TypeOK, Equipped, At
  <1>a. PICK k \in Leads : k = req[r].lead
    BY <1>1
  <1> USE <1>a
  <1>3. OnlyMoves(r) /\ req'[r].at = "done" /\ req'[r].op = "patch"
    BY <1>1, MovedOnFields DEF PatchCommit, At
  <1>4. UNCHANGED <<stored, email, data, overlap>>
    BY DEF PatchCommit
  <1>5. \A l \in Leads : l # k => hub'[l] = hub[l]
    BY <1>1 DEF PatchCommit, TypeInv, TypeOK
  <1>6. ASSUME Erased(k)' PROVE Cleaned(k)' /\ \A s \in Requests : ~CanWrite(s, k)'
    <2>1. Erased(k) /\ Cleaned(k) /\ \A s \in Requests : ~CanWrite(s, k)
      BY <1>1, <1>4, <1>6 DEF Erased, ErasedInv
    <2>2. req[r].contact = None
      BY <1>1, <2>1 DEF CanWrite, At, Running, Erasing
    <2>3. hub'[k] = None
      BY <1>1, <2>1, <2>2 DEF PatchCommit, Cleaned, TypeInv, TypeOK
    <2>4. ErasedFully' \subseteq ErasedFully
      BY <1>3, FullyKept DEF At
    <2>5. Cleaned(k)'
      BY <1>4, <2>1, <2>3, <2>4 DEF Cleaned
    <2>6. ASSUME NEW s \in Requests PROVE ~CanWrite(s, k)'
      <3>1. CASE s = r
        BY <1>3, <3>1 DEF CanWrite, Running
      <3>2. CASE s # r
        BY <1>3, <2>1, <3>2, OthersCannotWrite
      <3>3. QED
        BY <3>1, <3>2
    <2>7. QED
      BY <2>5, <2>6
  <1>7. QED
    BY <1>1, <1>3, <1>4, <1>5, <1>6, OneRowWritten

LEMMA EventCommitErased ==
    ASSUME ErasedInv, TypeInv', NEW r \in Requests, EventCommit(r)
    PROVE  ErasedInv'
  <1>1. TypeInv /\ At(r, "event", "read") /\ req[r].lead \in Leads
    BY DEF EventCommit, ErasedInv, TypeInv, Equipped, At, Running
  <1>a. PICK k \in Leads : k = req[r].lead
    BY <1>1
  <1> USE <1>a
  <1>2. CanWrite(r, k)
    BY <1>1 DEF CanWrite, At, Running, Erasing
  <1>3. OnlyMoves(r) /\ req'[r].at = "done" /\ req'[r].op = "event"
    BY <1>1, MovedOnFields DEF EventCommit, At
  <1>4. UNCHANGED <<stored, email, hub, overlap>>
    BY DEF EventCommit
  <1>5. \A l \in Leads : l # k =>
            email'[l] = email[l] /\ data'[l] = data[l] /\ hub'[l] = hub[l]
    BY <1>1, <1>4 DEF EventCommit, TypeInv, TypeOK
  <1>6. ~Erased(k)'
    BY <1>2, <1>4 DEF Erased, ErasedInv
  <1>7. QED
    BY <1>1, <1>3, <1>4, <1>5, <1>6, OneRowWritten

\* The erasure itself: unless another request had the row in hand, all it clears
\* is gone, and the business is kept only of a row that was never erased fully.
LEMMA OverwriteErased ==
    ASSUME ErasedInv, TypeInv', NEW r \in Requests, Erasing(req[r].op), Overwrite(r)
    PROVE  ErasedInv'
  <1>1. TypeInv /\ req[r].lead \in stored /\ req[r].lead \in Leads
    BY DEF ErasedInv, TypeInv, TypeOK, Equipped
  <1>a. PICK k \in Leads, gross \in {Cleared(r)}, kept \in {Cleared(r) \ req[r].data} :
            k = req[r].lead /\ gross = Cleared(r) /\ kept = gross \ req[r].data
    BY <1>1
  <1> USE <1>a
  <1>2. PICK place \in {"failed", "done"} : Goto(r, place)
    BY DEF Overwrite
  <1>3. /\ OnlyMoves(r) /\ req'[r].at = place /\ req'[r].op = req[r].op
        /\ req'[r].lead = req[r].lead
    BY <1>1, <1>2, MovedOnFields
  <1>4. \A l : ~CanWrite(r, l)'
    BY <1>2, <1>3 DEF CanWrite, Running
  <1>5. CASE Goto(r, "failed") /\ UNCHANGED <<rows, overlap>>
    <2>1. req'[r].at = "failed"
      BY <1>1, <1>5, MovedOnFields
    <2>2. QED
      BY <1>3, <1>4, <1>5, <2>1, RowsKept
  <1>6. CASE ~(Goto(r, "failed") /\ UNCHANGED <<rows, overlap>>)
    <2>1. /\ ByEmail(Redacted) \subseteq {k}
          /\ email' = [email EXCEPT ![k] = Redacted]
          /\ \E left \in {{}, kept} : data' = [data EXCEPT ![k] = (@ \ gross) \cup left]
          /\ hub' = Unlink(r)
          /\ overlap' = IF kept # {} \/ req[r].hub # hub[k]
                           \/ \E s \in Requests \ {r} : Loaded(s, k)
                        THEN overlap \cup {k} ELSE overlap
          /\ stored' = stored
      BY <1>6 DEF Overwrite
    <2>2. \A l \in stored : l # k => ~Erased(l)'
      BY <1>1, <2>1 DEF Erased, ByEmail, TypeInv, TypeOK
    <2>3. ASSUME Erased(k)'
          PROVE  Cleaned(k)' /\ \A s \in Requests : ~CanWrite(s, k)'
      <3>1. kept = {} /\ req[r].hub = hub[k] /\ \A s \in Requests \ {r} : ~Loaded(s, k)
        BY <2>1, <2>3 DEF Erased
      <3>2. data'[k] = data[k] \ gross
        BY <1>1, <2>1, <3>1 DEF TypeInv, TypeOK
      <3>3. hub'[k] = None
        BY <1>1, <2>1, <3>1 DEF Unlink, TypeInv, TypeOK
      <3>a. ASSUME req[r].op = "erase" PROVE Cleaned(k)'
        <4>1. \A d \in data[k] : d \in gross
          BY <3>a DEF Cleared
        <4>2. \A d : d \notin data'[k]
          BY <3>2, <4>1
        <4>3. QED
          BY <3>3, <4>2 DEF Cleaned
      <3>b. ASSUME req[r].op = "eraseRow" PROVE Cleaned(k)'
        <4>1. \A d \in data'[k] : d \in data[k] /\ d[2] = "business"
          <5>1. data[k] \subseteq People \X Fields
            BY <1>1 DEF TypeInv, TypeOK
          <5>2. \A d \in People \X Fields : d[2] \in Fields
            OBVIOUS
          <5>3. \A d \in data'[k] : d \in data[k] /\ d[2] \in Fields /\ d[2] # "person"
            BY <3>2, <5>1, <5>2 DEF Cleared
          <5>4. QED
            BY <5>3 DEF Fields
        <4>2. ErasedFully' \subseteq ErasedFully
          BY <1>3, <3>b, FullyKept DEF At
        <4>3. ASSUME k \in ErasedFully' PROVE data[k] = {}
          <5>1. k \in ErasedFully
            BY <4>2, <4>3
          <5>2. email[k] = Redacted
            BY <5>1 DEF ErasedFully, ErasedInv
          <5>3. k \notin overlap
            BY <2>1, <2>3 DEF Erased
          <5>4. Cleaned(k)
            BY <1>1, <5>2, <5>3 DEF Erased, ErasedInv
          <5>5. QED
            BY <5>1, <5>4 DEF Cleaned
        <4>4. \A d \in data'[k] : d[2] = "business" /\ k \notin ErasedFully'
          BY <4>1, <4>3
        <4>5. QED
          BY <3>3, <4>4 DEF Cleaned
      <3>c. Cleaned(k)'
        BY <3>a, <3>b DEF Erasing
      <3>4. ASSUME NEW s \in Requests PROVE ~CanWrite(s, k)'
        <4>1. CASE s = r
          BY <1>4, <4>1
        <4>2. CASE s # r
          BY <1>3, <3>1, <4>2 DEF OnlyMoves, CanWrite, Loaded, Running
        <4>3. QED
          BY <4>1, <4>2
      <3>5. QED
        BY <3>c, <3>4
    <2>4. \A l \in Leads \ stored' : email'[l] # Redacted
      BY <1>1, <2>1 DEF ErasedInv, TypeInv, TypeOK
    <2>5. ASSUME NEW s \in Requests, At(s, "erase", "done")'
          PROVE  email'[req'[s].lead] = Redacted
      <3>1. CASE s = r
        BY <1>1, <1>3, <2>1, <3>1 DEF TypeInv, TypeOK
      <3>2. CASE s # r
        <4>1. req'[s] = req[s] /\ At(s, "erase", "done")
          BY <1>3, <2>5, <3>2 DEF OnlyMoves, At
        <4>2. req[s].lead \in Leads /\ email[req[s].lead] = Redacted
          BY <4>1 DEF ErasedInv, TypeInv, TypeOK, Equipped, At, Erasing
        <4>3. QED
          BY <1>1, <2>1, <4>1, <4>2 DEF TypeInv, TypeOK
      <3>3. QED
        BY <3>1, <3>2
    <2>6. \A l \in stored' : Erased(l)' => l = k
      BY <2>1, <2>2
    <2>7. QED
      BY <2>3, <2>4, <2>5, <2>6 DEF ErasedInv
  <1>7. QED
    BY <1>5, <1>6

LEMMA ErasedStep == ErasedInv /\ [Next]_vars => ErasedInv'
  <1> SUFFICES ASSUME ErasedInv, [Next]_vars PROVE ErasedInv'
    OBVIOUS
  <1>0. TypeInv /\ TypeInv'
    BY TypeStep DEF ErasedInv
  <1>1. ASSUME NEW r \in Requests, NEW p \in People, FormLookup(r, p) PROVE ErasedInv'
    <2>1. /\ OnlyMoves(r) /\ req'[r].source = None /\ req'[r].at # "done"
          /\ req'[r].lead = None \/ (req'[r].lead \in stored /\ email[req'[r].lead] = p)
      BY <1>0, <1>1, FormLookupStep
    <2>2. ASSUME NEW l \in stored, Erased(l) PROVE ~CanWrite(r, l)'
      <3>1. l # None
        BY <1>0, NoneAssumption DEF TypeInv, TypeOK
      <3>2. QED
        BY <2>1, <2>2, <3>1, LeadAssumption DEF CanWrite, Erased
    <2>3. QED
      BY <1>0, <1>1, <2>1, <2>2, RowsKept DEF FormLookup
  <1>2. ASSUME NEW r \in Requests, NEW s \in stored, NEW t \in stored, MergeLoad(r, s, t)
        PROVE  ErasedInv'
    <2>1. /\ OnlyMoves(r) /\ req'[r].op = "merge" /\ req'[r].lead = t /\ req'[r].source = s
          /\ req'[r].at # "done"
      BY <1>0, <1>2, MergeLoadStep
    <2>2. s # t /\ overlap' = (IF email[t] = Redacted THEN overlap \cup {t} ELSE overlap)
      BY <1>2 DEF MergeLoad
    <2>3. \A l \in stored : Erased(l) /\ l \notin overlap' => ~CanWrite(r, l)'
      BY <2>1, <2>2 DEF CanWrite, Erased
    <2>4. QED
      BY <1>0, <1>2, <2>1, <2>2, <2>3, RowsKept DEF MergeLoad
  <1>3. ASSUME NEW r \in Requests, NEW l \in stored, EraseLoad(r, l) \/ EraseRowLoad(r, l)
        PROVE  ErasedInv'
    <2>1. PICK op \in {"erase", "eraseRow"}, place \in {"read", "redact"} :
              Loading(r, l, op, place)
      BY <1>3 DEF EraseLoad, EraseRowLoad
    <2>2. OnlyMoves(r) /\ req'[r].op = op /\ req'[r].at # "done"
      BY <1>0, <2>1, LoadingStep
    <2>3. \A k \in stored : ~CanWrite(r, k)'
      BY <2>2 DEF CanWrite, Erasing
    <2>4. QED
      BY <1>0, <2>1, <2>2, <2>3, RowsKept DEF Loading
  <1>4. ASSUME NEW r \in Requests, NEW c \in Contacts, EventLoad(r, c) PROVE ErasedInv'
    <2>1. /\ OnlyMoves(r) /\ req'[r].at # "done"
          /\ \/ req'[r].at = "failed"
             \/ req'[r].source = None /\ req'[r].lead \in stored /\ hub[req'[r].lead] = c
      BY <1>0, <1>4, EventLoadStep
    <2>2. ASSUME NEW l \in stored, Erased(l) PROVE ~CanWrite(r, l)'
      <3>1. l # None /\ hub[l] = None /\ c # None
        BY <1>0, <2>2, NoneAssumption DEF ErasedInv, Cleaned, TypeInv, TypeOK
      <3>2. QED
        BY <2>1, <3>1 DEF CanWrite, Running
    <2>3. QED
      BY <1>0, <1>4, <2>1, <2>2, RowsKept DEF EventLoad
  <1>5. ASSUME NEW r \in Requests, FormFlush(r) PROVE ErasedInv'
    <2>1. /\ OnlyMoves(r) /\ req[r].op = "form" /\ req[r].at = "read" /\ req'[r].at # "done"
          /\ req'[r].source = req[r].source /\ req'[r].op = "form"
          /\ \/ req'[r].at = "failed"
             \/ req'[r].lead = req[r].lead \/ req'[r].lead \notin stored
      BY <1>0, <1>5, FormFlushStep
    <2>2. ASSUME NEW l \in stored, Erased(l) PROVE ~CanWrite(r, l)'
      <3>1. ~CanWrite(r, l)
        BY <2>2 DEF ErasedInv
      <3>2. QED
        BY <2>1, <3>1 DEF CanWrite, Running, Erasing
    <2>3. QED
      BY <1>0, <1>5, <2>1, <2>2, RowsKept DEF FormFlush
  <1>6. ASSUME NEW r \in Requests, FormSync(r) PROVE ErasedInv'
    <2>1. /\ OnlyMoves(r) /\ req[r].op = "form" /\ req[r].at = "flushed" /\ req'[r].at # "done"
          /\ req'[r].lead = req[r].lead /\ req'[r].source = req[r].source /\ req'[r].op = "form"
      BY <1>0, <1>6, FormSyncStep
    <2>2. ASSUME NEW l \in stored, Erased(l) PROVE ~CanWrite(r, l)'
      <3>1. ~CanWrite(r, l)
        BY <2>2 DEF ErasedInv
      <3>2. QED
        BY <2>1, <3>1 DEF CanWrite, Running, Erasing
    <2>3. QED
      BY <1>0, <1>6, <2>1, <2>2, RowsKept DEF FormSync
  <1>7. ASSUME NEW r \in Requests, EraseContact(r) PROVE ErasedInv'
    <2>1. PICK place \in {"redact", "failed"} : Goto(r, place)
      BY <1>7 DEF EraseContact
    <2>2. OnlyMoves(r) /\ req'[r].op = "erase" /\ req'[r].at # "done"
      BY <1>0, <1>7, <2>1, MovedOnFields DEF EraseContact, At
    <2>3. \A k \in stored : ~CanWrite(r, k)'
      BY <2>2 DEF CanWrite, Erasing
    <2>4. QED
      BY <1>0, <1>7, <2>2, <2>3, RowsKept DEF EraseContact
  <1>8. ASSUME NEW r \in Requests, Redact(r) \/ RedactRow(r) PROVE ErasedInv'
    BY <1>0, <1>8, OverwriteErased DEF Redact, RedactRow, At, Erasing
  <1>9. ASSUME NEW r \in Requests, NEW l \in stored, NEW c \in Contacts \cup {None},
               PatchLoad(r, l, c)
        PROVE  ErasedInv'
    <2>1. /\ OnlyMoves(r) /\ req'[r].op = "patch" /\ req'[r].at # "done"
          /\ req'[r].lead = l /\ req'[r].source = None /\ req'[r].contact = c
      BY <1>0, <1>9, PatchLoadStep
    <2>2. overlap' = (IF email[l] = Redacted /\ c # None THEN overlap \cup {l} ELSE overlap)
      BY <1>9 DEF PatchLoad
    <2>3. \A k \in stored : Erased(k) /\ k \notin overlap' => ~CanWrite(r, k)'
      <3>1. None \notin stored
        BY <1>0, NoneAssumption DEF TypeInv, TypeOK
      <3>2. QED
        BY <2>1, <2>2, <3>1 DEF CanWrite, Erased
    <2>4. QED
      BY <1>0, <1>9, <2>1, <2>2, <2>3, RowsKept DEF PatchLoad
  <1>10. CASE UNCHANGED vars
    <2>1. ErasedFully' = ErasedFully
      BY <1>10 DEF vars, ErasedFully, At
    <2>2. QED
      BY <1>0, <1>10, <2>1 DEF vars, rows, ErasedInv, Erased, Cleaned, CanWrite, Running, At
  <1>11. QED
    BY <1>0, <1>1, <1>2, <1>3, <1>4, <1>5, <1>6, <1>7, <1>8, <1>9, <1>10, FormCommitErased,
       PromoteErased, MergeCommitErased, PatchCommitErased, EventCommitErased DEF Next, Begin, Work

\* An erased lead stays without what its erasure cleared whatever forms,
\* promotions, merges, PATCHes, erasures of either kind and events follow or run
\* at once, unless one of them had the row loaded while it was erased, a merge
\* fills it or a PATCH names a contact for it.
THEOREM ErasureStays == Spec => []ErasedStaysErased
  <1>1. ErasedInv => ErasedStaysErased
    BY DEF ErasedInv, Erased, Cleaned, ErasedStaysErased
  <1>2. QED
    BY <1>1, ErasedInit, ErasedStep, PTL DEF Spec

-----------------------------------------------------------------------------
(* The contacts rows name.  SharedExplained takes that a row that was not  *)
(* touched names a contact of the person whose address it has, that no two   *)
(* rows have one address, and that the forms under way keep it so.           *)

\* Leads whose HubSpot link a merge or a PATCH has written, or whose erasure was
\* raced or undone by one.
Touched == Relinked \cup Patched \cup overlap

Linking(r) == req[r].op = "form" /\ Running(r)

\* What a request under way may assume of the row it has in hand.
InHand(r) ==
    /\ Linking(r) /\ req[r].lead \in stored =>
          req[r].lead \in overlap \/ email[req[r].lead] = req[r].who
    /\ Linking(r) /\ ~Flushed(r) => req[r].lead \in stored \cup {None}
    /\ Flushed(r) /\ req[r].lead \notin stored =>
          req[r].lead \in {req[r].who} \X {1, 2} /\ ByEmail(req[r].who) = {}
    /\ Linking(r) /\ ~At(r, "form", "synced") => req[r].contact = None
    /\ req[r].op = "form" /\ req[r].contact # None =>
          req[r].contact[1] = req[r].who /\ req[r].contact \in hubspot \cup gone
    /\ At(r, "merge", "read") =>
          req[r].lead \in stored /\ req[r].hub \in hubspot \cup gone \cup {None}
    /\ At(r, "patch", "read") => req[r].contact \in hubspot \cup gone \cup {None}
    /\ Erasing(req[r].op) /\ Running(r) /\ req[r].hub # None =>
          req[r].lead \in Touched \/ email[req[r].lead] = req[r].hub[1]

\* Two forms that have flushed have different rows, and different people if
\* both rows are new.
Apart(r, s) ==
    Flushed(r) /\ Flushed(s) /\ r # s =>
        /\ req[r].lead # req[s].lead
        /\ req[r].lead \in stored \/ req[s].lead \in stored \/ req[r].who # req[s].who

OnePerPerson == \A c, d \in hubspot : c[1] = d[1] => c = d

Owned ==
    /\ \A l \in Leads : hub[l] # None => l \in stored /\ hub[l] \in hubspot \cup gone
    /\ \A l \in Leads \ stored : email[l] = None
    /\ \A k, l \in stored : email[k] = email[l] /\ email[k] \in People => k = l
    /\ \A l \in stored \ Touched : hub[l] # None => email[l] = hub[l][1]

OwnInv ==
    /\ ErasedInv
    /\ OnePerPerson
    /\ Owned
    /\ \A r \in Requests : InHand(r)
    /\ \A r, s \in Requests : Apart(r, s)

LEMMA OwnInit == Init => OwnInv
  <1> SUFFICES ASSUME Init PROVE OwnInv
    OBVIOUS
  <1>1. ErasedInv
    BY ErasedInit
  <1>2. PICK known \in SUBSET People : \E synced, matched \in SUBSET known :
            StoredBefore(known, synced, matched)
    BY DEF Init
  <1>3. PICK synced \in SUBSET known, matched \in SUBSET known :
            StoredBefore(known, synced, matched)
    BY <1>2
  <1>4. /\ stored = known \X {1} /\ hubspot = synced \X {1} /\ gone = {}
        /\ email = [l \in Leads |-> IF l \in stored THEN l[1] ELSE None]
        /\ hub = [l \in Leads |-> IF l \in synced \X {1} THEN l ELSE None]
    BY <1>3 DEF StoredBefore
  <1>5. OnePerPerson
    BY <1>4 DEF OnePerPerson
  <1>6. Owned
    <2>1. stored \subseteq Leads /\ hubspot \subseteq stored
      BY <1>1, <1>4 DEF ErasedInv, TypeInv, TypeOK
    <2>2. \A l \in stored : email[l] = l[1]
      BY <1>4, <2>1
    <2>3. \A k, l \in stored : k[1] = l[1] => k = l
      BY <1>4
    <2>4. \A l \in Leads : hub[l] # None => l \in hubspot /\ hub[l] = l
      BY <1>4
    <2>5. \A l \in Leads \ stored : email[l] = None
      BY <1>4
    <2>6. QED
      BY <2>1, <2>2, <2>3, <2>4, <2>5 DEF Owned
  <1>7. \A r \in Requests : InHand(r) /\ ~Flushed(r)
    BY DEF Init, Idle, InHand, Linking, Running, Flushed, At, Erasing
  <1>8. QED
    BY <1>1, <1>5, <1>6, <1>7 DEF OwnInv, Apart

LEMMA TouchedGrows ==
    ASSUME NEW r \in Requests, OnlyMoves(r), req[r].at # "done", overlap \subseteq overlap'
    PROVE  Touched \subseteq Touched'
  BY DEF Touched, Relinked, Patched, OnlyMoves, At

\* Only a merge or a PATCH that writes a link touches its row.
LEMMA TouchedSame ==
    ASSUME NEW r \in Requests, OnlyMoves(r), req[r].at # "done", overlap' = overlap,
           At(r, "merge", "done")' => req'[r].hub = None,
           At(r, "patch", "done")' => req'[r].contact = req'[r].hub
    PROVE  Touched' = Touched
  <1>1. {s \in Requests : At(s, "merge", "done") /\ req[s].hub # None}'
        = {s \in Requests : At(s, "merge", "done") /\ req[s].hub # None}
    BY DEF OnlyMoves, At
  <1>2. {s \in Requests : At(s, "patch", "done") /\ req[s].contact # req[s].hub}'
        = {s \in Requests : At(s, "patch", "done") /\ req[s].contact # req[s].hub}
    BY DEF OnlyMoves, At
  <1>3. ASSUME NEW s \in Requests, At(s, "merge", "done") \/ At(s, "patch", "done")
        PROVE  req'[s].lead = req[s].lead
    BY <1>3 DEF OnlyMoves, At
  <1>4. Relinked' = Relinked
    BY <1>1, <1>3 DEF Relinked
  <1>5. Patched' = Patched
    BY <1>2, <1>3 DEF Patched
  <1>6. QED
    BY <1>4, <1>5 DEF Touched

\* What another request has in hand stays so as long as the address of its row
\* does, or its row is noted as overlapped, and nobody stores a row before it.
LEMMA OthersInHand ==
    ASSUME OwnInv, TypeInv', NEW r \in Requests, OnlyMoves(r), NEW s \in Requests, s # r,
           stored \subseteq stored', overlap \subseteq overlap', Touched \subseteq Touched',
           hubspot \cup gone \subseteq hubspot' \cup gone',
           Running(s) /\ req[s].lead \in stored =>
              req[s].lead \in overlap' \/ email'[req[s].lead] = email[req[s].lead],
           Flushed(s) /\ req[s].lead \notin stored =>
              req[s].lead \notin stored' /\ ByEmail(req[s].who)' = {}
    PROVE  InHand(s)'
  <1>1. req'[s] = req[s] /\ InHand(s) /\ None \notin stored'
    BY NoneAssumption DEF OnlyMoves, OwnInv, TypeInv, TypeOK
  <1>2. /\ Linking(s)' <=> Linking(s)
        /\ Flushed(s)' <=> Flushed(s)
        /\ Running(s)' <=> Running(s)
        /\ At(s, "merge", "read")' <=> At(s, "merge", "read")
        /\ At(s, "form", "synced")' <=> At(s, "form", "synced")
        /\ At(s, "patch", "read")' <=> At(s, "patch", "read")
    BY <1>1 DEF Linking, Flushed, Running, At
  <1>3. Flushed(s) => Running(s)
    BY DEF Flushed, Running, At
  <1>4. Erasing(req[s].op) => req[s].lead \in stored
    BY DEF OwnInv, ErasedInv, TypeInv, Equipped
  <1>5. overlap' \subseteq Touched'
    BY DEF Touched
  <1>6. Linking(s) => Running(s)
    BY DEF Linking
  <1>7. Linking(s) /\ req[s].lead \in stored' =>
            req[s].lead \in overlap' \/ email'[req[s].lead] = req[s].who
    BY <1>1, <1>6 DEF InHand
  <1>8. Flushed(s) /\ req[s].lead \notin stored' =>
            req[s].lead \in {req[s].who} \X {1, 2} /\ ByEmail(req[s].who)' = {}
    BY <1>1 DEF InHand
  <1>9. Erasing(req[s].op) /\ Running(s) /\ req[s].hub # None =>
            req[s].lead \in Touched' \/ email'[req[s].lead] = req[s].hub[1]
    BY <1>1, <1>4, <1>5 DEF InHand
  <1>10. Flushed(s)' /\ req'[s].lead \notin stored' =>
            req'[s].lead \in {req'[s].who} \X {1, 2} /\ ByEmail(req[s].who)' = {}
    BY <1>1, <1>2, <1>8
  <1>11. Linking(s)' /\ ~Flushed(s)' => req'[s].lead \in stored' \cup {None}
    BY <1>1, <1>2 DEF InHand
  <1>12. /\ Linking(s)' /\ ~At(s, "form", "synced")' => req'[s].contact = None
         /\ req'[s].op = "form" /\ req'[s].contact # None =>
               req'[s].contact[1] = req'[s].who /\ req'[s].contact \in hubspot' \cup gone'
         /\ At(s, "merge", "read")' =>
               req'[s].lead \in stored' /\ req'[s].hub \in hubspot' \cup gone' \cup {None}
         /\ At(s, "patch", "read")' => req'[s].contact \in hubspot' \cup gone' \cup {None}
    BY <1>1, <1>2 DEF InHand
  <1>13. QED
    BY <1>1, <1>2, <1>7, <1>9, <1>10, <1>11, <1>12 DEF InHand

\* A step that writes no row.
LEMMA OwnKept ==
    ASSUME OwnInv, ErasedInv', NEW r \in Requests, OnlyMoves(r), UNCHANGED rows,
           OnePerPerson', hubspot \cup gone \subseteq hubspot' \cup gone',
           req[r].at # "done", overlap \subseteq overlap',
           InHand(r)', \A s \in Requests : Apart(r, s)'
    PROVE  OwnInv'
  <1>1. Touched \subseteq Touched'
    BY TouchedGrows
  <1>2. UNCHANGED <<stored, email, hub>>
    BY DEF rows
  <1>3. \A s \in Requests : InHand(s)'
    <2>1. ASSUME NEW s \in Requests, s # r PROVE InHand(s)'
      <3>1. ByEmail(req[s].who)' = ByEmail(req[s].who)
        BY <1>2, <2>1 DEF ByEmail, OnlyMoves
      <3>2. Flushed(s) /\ req[s].lead \notin stored => ByEmail(req[s].who) = {}
        BY DEF OwnInv, InHand
      <3>3. QED
        BY <1>1, <1>2, <2>1, <3>1, <3>2, OthersInHand DEF ErasedInv
    <2>2. QED
      BY <2>1
  <1>4. Owned'
    BY <1>1, <1>2 DEF OwnInv, Owned
  <1>5. \A s, t \in Requests : Apart(s, t)'
    <2>1. ASSUME NEW s \in Requests, NEW t \in Requests, s # r, t # r PROVE Apart(s, t)'
      BY <1>2, <2>1 DEF OwnInv, Apart, OnlyMoves, Flushed, At
    <2>2. ASSUME NEW s \in Requests PROVE Apart(s, r)'
      BY DEF Apart
    <2>3. QED
      BY <2>1, <2>2
  <1>6. QED
    BY <1>3, <1>4, <1>5 DEF OwnInv

\* A request that starts or stops without a row of a form in its hands.
LEMMA OwnPlain ==
    ASSUME OwnInv, ErasedInv', NEW r \in Requests, OnlyMoves(r), UNCHANGED <<rows, hubspot, gone>>,
           req[r].at # "done", overlap \subseteq overlap', InHand(r)', ~Flushed(r)'
    PROVE  OwnInv'
  <1>1. OnePerPerson'
    BY DEF OwnInv, OnePerPerson
  <1>2. \A s \in Requests : Apart(r, s)'
    BY DEF Apart
  <1>3. QED
    BY <1>1, <1>2, OwnKept

LEMMA FormLookupOwn ==
    ASSUME OwnInv, ErasedInv', NEW r \in Requests, NEW p \in People, FormLookup(r, p)
    PROVE  OwnInv'
  <1>1. /\ OnlyMoves(r) /\ req'[r].op = "form" /\ req'[r].at = "read" /\ req'[r].who = p
        /\ req'[r].contact = None
        /\ \/ req'[r].lead = None
           \/ req'[r].lead \in stored /\ email[req'[r].lead] = p
    BY FormLookupStep DEF OwnInv, ErasedInv
  <1>2. UNCHANGED <<rows, hubspot, gone, overlap>> /\ req[r].at = "idle"
    BY DEF FormLookup
  <1>3. UNCHANGED <<stored, email>> /\ None \notin stored
    BY <1>2, NoneAssumption DEF rows, OwnInv, ErasedInv, TypeInv, TypeOK
  <1>4. InHand(r)' /\ ~Flushed(r)'
    BY <1>1, <1>3 DEF InHand, Linking, Running, Flushed, At, Erasing
  <1>5. QED
    BY <1>1, <1>2, <1>4, OwnPlain DEF At

LEMMA MergeLoadOwn ==
    ASSUME OwnInv, ErasedInv', NEW r \in Requests, NEW s \in stored, NEW t \in stored,
           MergeLoad(r, s, t)
    PROVE  OwnInv'
  <1>1. /\ OnlyMoves(r) /\ req'[r].op = "merge" /\ req'[r].lead = t
        /\ req'[r].hub = IF hub[t] = None THEN hub[s] ELSE None
    BY MergeLoadStep DEF OwnInv, ErasedInv
  <1>2. /\ UNCHANGED <<rows, stored, hubspot, gone>> /\ overlap \subseteq overlap'
        /\ req[r].at = "idle"
    BY DEF MergeLoad, rows
  <1>3. hub[s] # None => hub[s] \in hubspot \cup gone
    BY DEF OwnInv, Owned, ErasedInv, TypeInv, TypeOK
  <1>4. InHand(r)' /\ ~Flushed(r)'
    BY <1>1, <1>2, <1>3 DEF InHand, Linking, Running, Flushed, At, Erasing
  <1>5. QED
    BY <1>1, <1>2, <1>4, OwnPlain DEF At

LEMMA PatchLoadOwn ==
    ASSUME OwnInv, ErasedInv', NEW r \in Requests, NEW l \in stored,
           NEW c \in Contacts \cup {None}, PatchLoad(r, l, c)
    PROVE  OwnInv'
  <1>1. OnlyMoves(r) /\ req'[r].op = "patch" /\ req'[r].contact = c
    BY PatchLoadStep DEF OwnInv, ErasedInv
  <1>2. /\ UNCHANGED <<rows, hubspot, gone>> /\ overlap \subseteq overlap'
        /\ req[r].at = "idle" /\ c \in hubspot \cup gone \cup {None}
    BY DEF PatchLoad
  <1>3. InHand(r)' /\ ~Flushed(r)'
    BY <1>1, <1>2 DEF InHand, Linking, Running, Flushed, At, Erasing
  <1>4. QED
    BY <1>1, <1>2, <1>3, OwnPlain

LEMMA EraseLoadOwn ==
    ASSUME OwnInv, ErasedInv', NEW r \in Requests, NEW l \in stored,
           EraseLoad(r, l) \/ EraseRowLoad(r, l)
    PROVE  OwnInv'
  <1>1. PICK op \in {"erase", "eraseRow"}, place \in {"read", "redact"} :
            Loading(r, l, op, place)
    BY DEF EraseLoad, EraseRowLoad
  <1>2. OnlyMoves(r) /\ req'[r].op = op /\ req'[r].lead = l /\ req'[r].hub = hub[l]
    BY <1>1, LoadingStep DEF OwnInv, ErasedInv
  <1>3. UNCHANGED <<rows, hubspot, gone, overlap>> /\ req[r].at = "idle"
    BY <1>1 DEF Loading
  <1>4. hub[l] # None => l \in Touched \/ email[l] = hub[l][1]
    BY DEF OwnInv, Owned
  <1>5. Touched \subseteq Touched' /\ email' = email
    BY <1>2, <1>3, TouchedGrows DEF At, rows
  <1>6. InHand(r)' /\ ~Flushed(r)'
    BY <1>2, <1>4, <1>5 DEF InHand, Linking, Running, Flushed, At, Erasing
  <1>7. QED
    BY <1>2, <1>3, <1>6, OwnPlain DEF At

LEMMA EventLoadOwn ==
    ASSUME OwnInv, ErasedInv', NEW r \in Requests, NEW c \in Contacts, EventLoad(r, c)
    PROVE  OwnInv'
  <1>1. OnlyMoves(r) /\ req'[r].op = "event"
    BY EventLoadStep DEF OwnInv, ErasedInv
  <1>2. UNCHANGED <<rows, hubspot, gone, overlap>> /\ req[r].at = "idle"
    BY DEF EventLoad
  <1>3. InHand(r)' /\ ~Flushed(r)'
    BY <1>1 DEF InHand, Linking, Running, Flushed, At, Erasing
  <1>4. QED
    BY <1>1, <1>2, <1>3, OwnPlain DEF At

LEMMA FormFlushOwn ==
    ASSUME OwnInv, ErasedInv', NEW r \in Requests, FormFlush(r)
    PROVE  OwnInv'
  <1>1. /\ OnlyMoves(r) /\ req[r].op = "form" /\ req[r].at = "read"
        /\ req'[r].op = "form" /\ req'[r].who = req[r].who
        /\ req'[r].contact = req[r].contact
        /\ \/ req'[r].at = "failed"
           \/ /\ req'[r].at = "flushed"
              /\ \/ /\ req'[r].lead = req[r].lead /\ req[r].lead # None
                    /\ ~RowLocked(req[r].lead)
                 \/ /\ req'[r].lead \in ({req[r].who} \X {1, 2}) \ stored
                    /\ req[r].lead = None /\ ByEmail(req[r].who) = {}
                    /\ \A l \in ({req[r].who} \X {1, 2}) \ stored : ~RowLocked(l)
    BY FormFlushStep DEF OwnInv, ErasedInv
  <1>2. UNCHANGED <<rows, hubspot, gone, overlap>>
    BY DEF FormFlush
  <1>3. UNCHANGED <<stored, email, hubspot, gone, overlap>>
    BY <1>2 DEF rows
  <1>4. InHand(r) /\ Linking(r) /\ ~Flushed(r)
    BY <1>1 DEF OwnInv, Linking, Running, Flushed, At
  <1>5. req[r].contact = None /\ req[r].lead \in stored \cup {None}
    BY <1>1, <1>4 DEF InHand, At
  <1>6. CASE req'[r].at = "failed"
    <2>1. InHand(r)' /\ ~Flushed(r)'
      BY <1>1, <1>5, <1>6 DEF InHand, Linking, Running, Flushed, At, Erasing
    <2>2. QED
      BY <1>1, <1>2, <2>1, OwnPlain DEF At
  <1>7. CASE req'[r].at = "flushed"
    <2>1. ByEmail(req[r].who)' = {l \in stored : email[l] = req[r].who}
      BY <1>1, <1>3 DEF ByEmail
    <2>2. ByEmail(req[r].who)' = ByEmail(req[r].who)
      BY <2>1 DEF ByEmail
    <2>3. InHand(r)'
      <3>1. CASE req'[r].lead = req[r].lead /\ req[r].lead # None
        BY <1>1, <1>3, <1>4, <1>5, <1>7, <3>1 DEF InHand, Linking, Running, Flushed, At, Erasing
      <3>2. CASE req'[r].lead \in ({req[r].who} \X {1, 2}) \ stored /\ ByEmail(req[r].who) = {}
        BY <1>1, <1>3, <1>5, <1>7, <2>2, <3>2 DEF InHand, Linking, Running, Flushed, At, Erasing
      <3>3. QED
        BY <1>1, <1>7, <3>1, <3>2
    <2>4. ASSUME NEW s \in Requests, s # r, Flushed(s)'
          PROVE  /\ req'[r].lead # req'[s].lead
                 /\ \/ req'[r].lead \in stored \/ req'[s].lead \in stored
                    \/ req'[r].who # req'[s].who
      <3>1. req'[s] = req[s] /\ Flushed(s) /\ InHand(s)
        BY <1>1, <2>4 DEF OnlyMoves, Flushed, At, OwnInv
      <3>2. RowLocked(req[s].lead)
        BY <3>1 DEF RowLocked
      <3>3. CASE req'[r].lead = req[r].lead /\ req[r].lead # None /\ ~RowLocked(req[r].lead)
        BY <1>5, <3>1, <3>2, <3>3
      <3>4. CASE /\ req'[r].lead \in ({req[r].who} \X {1, 2}) \ stored
                 /\ \A l \in ({req[r].who} \X {1, 2}) \ stored : ~RowLocked(l)
        <4>1. req[s].lead \notin ({req[r].who} \X {1, 2}) \ stored
          BY <3>2, <3>4
        <4>2. req[s].lead \notin stored => req[s].lead \in {req[s].who} \X {1, 2}
          BY <3>1 DEF InHand
        <4>3. QED
          BY <1>1, <3>1, <3>4, <4>1, <4>2
      <3>5. QED
        BY <1>1, <1>7, <3>3, <3>4
    <2>5. \A s \in Requests : Apart(r, s)'
      BY <1>3, <2>4 DEF Apart
    <2>6. OnePerPerson'
      BY <1>3 DEF OwnInv, OnePerPerson
    <2>7. QED
      BY <1>1, <1>2, <2>3, <2>5, <2>6, OwnKept DEF At
  <1>8. QED
    BY <1>1, <1>6, <1>7

LEMMA FormSyncOwn ==
    ASSUME OwnInv, ErasedInv', NEW r \in Requests, FormSync(r)
    PROVE  OwnInv'
  <1>1. /\ OnlyMoves(r) /\ req[r].op = "form" /\ req[r].at = "flushed"
        /\ req'[r].op = "form" /\ req'[r].who = req[r].who /\ req'[r].lead = req[r].lead
        /\ req'[r].at \in {"synced", "failed"}
        /\ \/ hubspot' = hubspot /\ req'[r].contact = req[r].contact
           \/ /\ req'[r].contact \in Contacts /\ req'[r].contact[1] = req[r].who
              /\ hubspot' = hubspot \cup {req'[r].contact}
              /\ req'[r].contact \notin hubspot => Hits(req[r].who) = {}
    BY FormSyncStep DEF OwnInv, ErasedInv
  <1>2. UNCHANGED <<rows, gone, overlap>>
    BY DEF FormSync
  <1>3. UNCHANGED <<stored, email, gone, overlap>>
    BY <1>2 DEF rows
  <1>4. InHand(r) /\ Linking(r) /\ Flushed(r)
    BY <1>1 DEF OwnInv, Linking, Running, Flushed, At
  <1>5. req[r].contact = None
    BY <1>1, <1>4 DEF InHand, At
  <1>6. OnePerPerson'
    BY <1>1 DEF OwnInv, OnePerPerson, Hits
  <1>7. ByEmail(req[r].who)' = ByEmail(req[r].who)
    BY <1>1, <1>3 DEF ByEmail
  <1>8. InHand(r)'
    BY <1>1, <1>3, <1>4, <1>5, <1>7 DEF InHand, Linking, Running, Flushed, At, Erasing
  <1>9. ASSUME NEW s \in Requests PROVE Apart(r, s)'
    <2>1. Apart(r, s)
      BY DEF OwnInv
    <2>2. s # r => req'[s] = req[s]
      BY <1>1 DEF OnlyMoves
    <2>3. QED
      BY <1>1, <1>3, <1>4, <2>1, <2>2 DEF Apart, Flushed, At
  <1>10. QED
    BY <1>1, <1>2, <1>6, <1>8, <1>9, OwnKept DEF At

LEMMA EraseContactOwn ==
    ASSUME OwnInv, ErasedInv', NEW r \in Requests, EraseContact(r)
    PROVE  OwnInv'
  <1>1. At(r, "erase", "read") /\ UNCHANGED <<rows, overlap>>
    BY DEF EraseContact
  <1>2. PICK place \in {"redact", "failed"} : Goto(r, place)
    BY DEF EraseContact
  <1>3. /\ OnlyMoves(r) /\ req'[r].at = place /\ req'[r].op = "erase"
        /\ req'[r].lead = req[r].lead /\ req'[r].hub = req[r].hub
    BY <1>1, <1>2, MovedOnFields DEF OwnInv, ErasedInv, At
  <1>4. Touched \subseteq Touched' /\ email' = email
    BY <1>1, <1>3, TouchedGrows DEF At, rows
  <1>5. hubspot' \subseteq hubspot /\ hubspot \cup gone \subseteq hubspot' \cup gone'
    BY DEF EraseContact
  <1>6. InHand(r) /\ Running(r)
    BY <1>1 DEF OwnInv, Running, At
  <1>7. InHand(r)' /\ ~Flushed(r)'
    BY <1>1, <1>3, <1>4, <1>6 DEF InHand, Linking, Running, Flushed, At, Erasing
  <1>8. OnePerPerson'
    BY <1>5 DEF OwnInv, OnePerPerson
  <1>9. \A s \in Requests : Apart(r, s)'
    BY <1>7 DEF Apart
  <1>10. QED
    BY <1>1, <1>3, <1>5, <1>7, <1>8, <1>9, OwnKept DEF At

\* A step that ends r and writes the row of one lead k.
LEMMA OwnWritten ==
    ASSUME OwnInv, ErasedInv', NEW r \in Requests, OnlyMoves(r), req'[r].at = "done", InHand(r)',
           UNCHANGED <<hubspot, gone>>, Touched \subseteq Touched', overlap \subseteq overlap',
           NEW k \in Leads, stored' = stored \cup {k},
           \A l \in Leads : l # k => email'[l] = email[l] /\ hub'[l] = hub[l],
           hub'[k] # None => /\ hub'[k] \in hubspot \cup gone
                             /\ k \in Touched' \/ email'[k] = hub'[k][1],
           \/ email'[k] \notin People
           \/ k \in stored /\ email'[k] = email[k]
           \/ ByEmail(email'[k]) = {},
           k \in stored /\ email'[k] # email[k] =>
              \A s \in Requests \ {r} : Running(s) /\ req[s].lead = k => k \in overlap',
           \A s \in Requests \ {r} : Flushed(s) /\ req[s].lead \notin stored =>
              req[s].lead # k /\ email'[k] # req[s].who
    PROVE  OwnInv'
  <1>1. stored \subseteq Leads /\ k \in stored'
    BY DEF OwnInv, ErasedInv, TypeInv, TypeOK
  <1>2. \A s \in Requests : InHand(s)'
    <2>1. ASSUME NEW s \in Requests, s # r PROVE InHand(s)'
      <3>1. Running(s) /\ req[s].lead \in stored =>
                req[s].lead \in overlap' \/ email'[req[s].lead] = email[req[s].lead]
        BY <1>1, <2>1
      <3>2. ASSUME Flushed(s), req[s].lead \notin stored
            PROVE  req[s].lead \notin stored' /\ ByEmail(req[s].who)' = {}
        <4>1. req[s].lead # k /\ email'[k] # req[s].who
          BY <2>1, <3>2
        <4>2. \A l \in stored : email[l] # req[s].who
          BY <3>2 DEF OwnInv, InHand, ByEmail
        <4>3. \A l \in stored' : email'[l] # req[s].who
          BY <1>1, <4>1, <4>2
        <4>4. req'[s] = req[s]
          BY <2>1 DEF OnlyMoves
        <4>5. QED
          BY <3>2, <4>1, <4>3, <4>4 DEF ByEmail
      <3>3. QED
        BY <2>1, <3>1, <3>2, OthersInHand DEF ErasedInv
    <2>2. QED
      BY <2>1
  <1>3. \A l \in Leads : hub'[l] # None => l \in stored' /\ hub'[l] \in hubspot' \cup gone'
    BY <1>1 DEF OwnInv, Owned
  <1>4. \A l \in Leads \ stored' : email'[l] = None
    BY DEF OwnInv, Owned
  <1>5. ASSUME NEW i \in stored', NEW j \in stored', email'[i] = email'[j], email'[i] \in People
        PROVE  i = j
    <2>1. CASE i # k /\ j # k
      BY <1>1, <1>5, <2>1 DEF OwnInv, Owned
    <2>2. ASSUME NEW l \in stored', l # k, email'[l] = email'[k], email'[k] \in People
          PROVE  FALSE
      <3>1. l \in stored /\ email[l] = email'[k]
        BY <1>1, <2>2
      <3>2. CASE k \in stored /\ email'[k] = email[k]
        BY <2>2, <3>1, <3>2 DEF OwnInv, Owned
      <3>3. CASE ByEmail(email'[k]) = {}
        BY <3>1, <3>3 DEF ByEmail
      <3>4. QED
        BY <2>2, <3>2, <3>3
    <2>3. QED
      BY <1>5, <2>1, <2>2
  <1>6. \A l \in stored' \ Touched' : hub'[l] # None => email'[l] = hub'[l][1]
    BY <1>1 DEF OwnInv, Owned
  <1>7. Owned'
    BY <1>3, <1>4, <1>5, <1>6 DEF Owned
  <1>8. ASSUME NEW s \in Requests, NEW t \in Requests PROVE Apart(s, t)'
    <2>1. CASE s = r \/ t = r
      BY <2>1 DEF Apart, Flushed, At
    <2>2. CASE s # r /\ t # r
      BY <2>2 DEF OwnInv, Apart, OnlyMoves, Flushed, At
    <2>3. QED
      BY <2>1, <2>2
  <1>9. OnePerPerson'
    BY DEF OwnInv, OnePerPerson
  <1>10. QED
    BY <1>2, <1>7, <1>8, <1>9 DEF OwnInv

\* A commit that fails on a unique key.
LEMMA OwnFailed ==
    ASSUME OwnInv, ErasedInv', NEW r \in Requests, Goto(r, "failed"), Running(r),
           UNCHANGED <<rows, hubspot, gone, overlap>>
    PROVE  OwnInv'
  <1>1. /\ OnlyMoves(r) /\ req'[r].at = "failed" /\ req'[r].op = req[r].op
        /\ req'[r].who = req[r].who /\ req'[r].contact = req[r].contact
    BY MovedOnFields DEF OwnInv, ErasedInv
  <1>2. InHand(r)
    BY DEF OwnInv
  <1>3. InHand(r)' /\ ~Flushed(r)'
    BY <1>1, <1>2 DEF InHand, Linking, Running, Flushed, At, Erasing
  <1>4. QED
    BY <1>1, <1>3, OwnPlain DEF At, Running

\* What a form that commits has in hand, and what it makes of its row.
LEMMA FormCommitRow ==
    ASSUME OwnInv, NEW r \in Requests, FormCommit(r), ~Goto(r, "failed"),
           NEW k, k = req[r].lead, NEW p, p = req[r].who
    PROVE  /\ k \in Leads /\ p \in People /\ At(r, "form", "synced")
           /\ OnlyMoves(r) /\ req'[r].at = "done" /\ req'[r].op = "form"
           /\ req'[r].who = p /\ req'[r].lead = k
           /\ req'[r].hub = req[r].hub /\ req'[r].contact = req[r].contact
           /\ stored' = stored \cup {k} /\ UNCHANGED <<into, hubspot, gone, overlap>>
           /\ \A l \in Leads : l # k => email'[l] = email[l] /\ hub'[l] = hub[l]
           /\ k \in stored => email'[k] = email[k] /\ (k \in overlap \/ email[k] = p)
           /\ k \notin stored => /\ email'[k] = p /\ ByEmail(p) = {}
                                 /\ k \in {p} \X {1, 2}
           /\ IF req[r].contact \in {None, req[r].hub} THEN hub'[k] = hub[k]
              ELSE hub'[k] = req[r].contact
           /\ req[r].contact # None =>
                 req[r].contact[1] = p /\ req[r].contact \in hubspot \cup gone
  <1>1. /\ At(r, "form", "synced") /\ p \in People /\ k \in Leads /\ Flushed(r)
        /\ Linking(r) /\ TypeInv /\ InHand(r)
    BY DEF FormCommit, CommitReady, OwnInv, ErasedInv, TypeInv, Equipped, At, Running,
       Flushed, Linking
  <1>2. /\ OnlyMoves(r) /\ req'[r].at = "done" /\ req'[r].op = "form"
        /\ req'[r].who = p /\ req'[r].lead = k
        /\ req'[r].hub = req[r].hub /\ req'[r].contact = req[r].contact
    BY <1>1, MovedOnFields DEF FormCommit, At
  <1>3. /\ stored' = stored \cup {k} /\ UNCHANGED <<into, hubspot, gone, overlap>>
        /\ email' = IF k \in stored THEN email ELSE [email EXCEPT ![k] = p]
        /\ hub' = Link(r)
    BY DEF FormCommit
  <1>4. \A l \in Leads : (l # k => email'[l] = email[l]) /\ (l = k /\ k \notin stored => email'[l] = p)
        /\ (k \in stored => email'[l] = email[l])
    BY <1>1, <1>3 DEF TypeInv, TypeOK
  <1>5. /\ \A l \in Leads : l # k => hub'[l] = hub[l]
        /\ IF req[r].contact \in {None, req[r].hub} THEN hub'[k] = hub[k]
           ELSE hub'[k] = req[r].contact
    BY <1>1, <1>3 DEF Link, TypeInv, TypeOK
  <1>6. QED
    BY <1>1, <1>2, <1>3, <1>4, <1>5 DEF InHand, At

LEMMA FormCommitOwn ==
    ASSUME OwnInv, ErasedInv', NEW r \in Requests, FormCommit(r)
    PROVE  OwnInv'
  <1>1. CASE Goto(r, "failed") /\ UNCHANGED rows
    BY <1>1, OwnFailed DEF FormCommit, CommitReady, Running, At
  <1>2. CASE ~(Goto(r, "failed") /\ UNCHANGED rows)
    <2>1. Goto(r, "done") /\ At(r, "form", "synced")
      BY <1>2 DEF FormCommit, CommitReady
    <2>2. ~Goto(r, "failed")
      <3>1. req'[r].at = "done"
        BY <2>1, MovedOnFields DEF OwnInv, ErasedInv
      <3>2. Goto(r, "failed") => req'[r].at = "failed"
        BY MovedOnFields DEF OwnInv, ErasedInv
      <3>3. QED
        BY <3>1, <3>2
    <2>3. PICK k, p : k = req[r].lead /\ p = req[r].who
      OBVIOUS
    <2>4. /\ k \in Leads /\ p \in People
          /\ OnlyMoves(r) /\ req'[r].at = "done" /\ req'[r].op = "form"
          /\ req'[r].who = p /\ req'[r].contact = req[r].contact
          /\ stored' = stored \cup {k} /\ UNCHANGED <<hubspot, gone, overlap>>
          /\ \A l \in Leads : l # k => email'[l] = email[l] /\ hub'[l] = hub[l]
          /\ k \in stored => email'[k] = email[k] /\ (k \in overlap \/ email[k] = p)
          /\ k \notin stored => email'[k] = p /\ ByEmail(p) = {}
          /\ IF req[r].contact \in {None, req[r].hub} THEN hub'[k] = hub[k]
             ELSE hub'[k] = req[r].contact
          /\ req[r].contact # None =>
                req[r].contact[1] = p /\ req[r].contact \in hubspot \cup gone
      BY <2>2, <2>3, FormCommitRow
    <2>5. Touched \subseteq Touched' /\ overlap \subseteq Touched
      BY <2>1, <2>4, TouchedGrows DEF At, Touched
    <2>6. hub'[k] # None => /\ hub'[k] \in hubspot \cup gone
                            /\ k \in Touched' \/ email'[k] = hub'[k][1]
      <3>1. CASE hub'[k] = hub[k]
        <4>1. hub[k] # None => k \in stored /\ hub[k] \in hubspot \cup gone
          BY <2>4 DEF OwnInv, Owned
        <4>2. hub[k] # None => k \in Touched \/ email[k] = hub[k][1]
          BY <4>1 DEF OwnInv, Owned
        <4>3. QED
          BY <2>4, <2>5, <3>1, <4>1, <4>2
      <3>2. CASE hub'[k] = req[r].contact
        BY <2>4, <2>5, <3>2
      <3>3. QED
        BY <2>4, <3>1, <3>2
    <2>7. ASSUME NEW s \in Requests \ {r}, Flushed(s), req[s].lead \notin stored
          PROVE  req[s].lead # k /\ email'[k] # req[s].who
      <3>1. Apart(r, s) /\ Flushed(r)
        BY <2>1 DEF OwnInv, Flushed
      <3>2. req[s].lead # k /\ (k \in stored \/ req[s].who # p)
        BY <2>3, <2>7, <3>1 DEF Apart
      <3>3. ByEmail(req[s].who) = {}
        BY <2>7 DEF OwnInv, InHand
      <3>4. k \in stored => email[k] # req[s].who
        BY <3>3 DEF ByEmail
      <3>5. QED
        BY <2>4, <3>2, <3>4
    <2>8. InHand(r)'
      BY <2>4 DEF InHand, Linking, Running, Flushed, At, Erasing
    <2>9. QED
      BY <2>4, <2>5, <2>6, <2>7, <2>8, OwnWritten
  <1>3. QED
    BY <1>1, <1>2

LEMMA PromoteOwn ==
    ASSUME OwnInv, ErasedInv', NEW r \in Requests, NEW x \in Prospects, Promote(r, x)
    PROVE  OwnInv'
  <1> DEFINE rec == [Idle EXCEPT !.op = "promote", !.at = "done"]
  <1>1. rec \in RequestStates /\ req' = [req EXCEPT ![r] = rec]
    BY DEF Promote, Idle, RequestStates
  <1> HIDE DEF rec
  <1>2. OnlyMoves(r) /\ req'[r] = rec
    BY <1>1, Started DEF OwnInv, ErasedInv
  <1>3. req'[r].at = "done" /\ req'[r].op = "promote"
    BY <1>2 DEF rec, Idle
  <1>4. PICK k : k = <<x, 1>>
    OBVIOUS
  <1>5. k \in Leads /\ k \notin stored /\ k[1] \notin People
    BY <1>4, LeadAssumption DEF Promote, Leads
  <1>6. /\ req[r].at = "idle" /\ stored' = stored \cup {k}
        /\ UNCHANGED <<email, hub, hubspot, gone, overlap>>
    BY <1>4 DEF Promote
  <1>7. email[k] = None /\ hub[k] = None
    BY <1>5 DEF OwnInv, Owned
  <1>8. Touched \subseteq Touched'
    BY <1>2, <1>6, TouchedGrows DEF At
  <1>9. InHand(r)'
    BY <1>3 DEF InHand, Linking, Running, Flushed, At, Erasing
  <1>10. ASSUME NEW s \in Requests \ {r}, Flushed(s), req[s].lead \notin stored
         PROVE  req[s].lead # k /\ email'[k] # req[s].who
    <2>1. req[s].lead \in {req[s].who} \X {1, 2} /\ req[s].who \in People
      BY <1>10 DEF OwnInv, InHand, ErasedInv, TypeInv, Equipped, Flushed, Running, At
    <2>2. QED
      BY <1>5, <1>6, <1>7, <2>1, LeadAssumption
  <1>11. email'[k] \notin People /\ hub'[k] = None
    BY <1>6, <1>7, LeadAssumption
  <1>12. QED
    BY <1>2, <1>3, <1>5, <1>6, <1>8, <1>9, <1>10, <1>11, OwnWritten

LEMMA MergeCommitOwn ==
    ASSUME OwnInv, ErasedInv', NEW r \in Requests, MergeCommit(r)
    PROVE  OwnInv'
  <1>1. At(r, "merge", "read") /\ req[r].lead \in Leads /\ TypeInv
    BY DEF MergeCommit, MergeReady, OwnInv, ErasedInv, TypeInv, Equipped, At, RowFree
  <1>2. PICK k \in Leads : k = req[r].lead
    BY <1>1
  <1>a. k \in stored
    BY <1>1, <1>2 DEF OwnInv, InHand
  <1>3. OnlyMoves(r) /\ req'[r].at = "done" /\ req'[r].op = "merge" /\ req'[r].lead = k
        /\ req'[r].hub = req[r].hub
    BY <1>1, <1>2, MovedOnFields DEF MergeCommit, At
  <1>4. UNCHANGED <<stored, email, hubspot, gone, overlap>>
    BY DEF MergeCommit
  <1>5. /\ \A l \in Leads : l # k => email'[l] = email[l] /\ hub'[l] = hub[l]
        /\ hub'[k] = IF req[r].hub = None THEN hub[k] ELSE req[r].hub
    BY <1>1, <1>2, <1>4 DEF MergeCommit, TypeInv, TypeOK
  <1>6. Touched \subseteq Touched'
    BY <1>1, <1>3, <1>4, TouchedGrows DEF At
  <1>7. InHand(r)'
    BY <1>3 DEF InHand, Linking, Running, Flushed, At, Erasing
  <1>8. req[r].hub # None => req[r].hub \in hubspot \cup gone /\ k \in Touched'
    BY <1>1, <1>3 DEF OwnInv, InHand, Touched, Relinked, Patched, At
  <1>9. hub'[k] # None => /\ hub'[k] \in hubspot \cup gone
                          /\ k \in Touched' \/ email'[k] = hub'[k][1]
    <2>1. CASE req[r].hub = None
      BY <1>4, <1>5, <1>6, <2>1 DEF OwnInv, Owned
    <2>2. CASE req[r].hub # None
      BY <1>5, <1>8, <2>2
    <2>3. QED
      BY <2>1, <2>2
  <1>10. stored' = stored \cup {k} /\ email'[k] = email[k]
    BY <1>4, <1>a
  <1>11. ASSUME NEW s \in Requests \ {r}, Flushed(s), req[s].lead \notin stored
         PROVE  req[s].lead # k /\ email'[k] # req[s].who
    <2>1. ByEmail(req[s].who) = {}
      BY <1>11 DEF OwnInv, InHand
    <2>2. QED
      BY <1>10, <1>11, <1>a, <2>1 DEF ByEmail
  <1>12. QED
    BY <1>3, <1>4, <1>5, <1>6, <1>7, <1>9, <1>10, <1>11, <1>a, OwnWritten

\* The row a PATCH gives another contact is touched by it.
LEMMA PatchRow ==
    ASSUME TypeInv, NEW r \in Requests, PatchCommit(r), NEW k, k = req[r].lead
    PROVE  /\ At(r, "patch", "read") /\ k \in stored /\ k \in Leads /\ OnlyMoves(r)
           /\ req'[r].at = "done" /\ req'[r].op = "patch" /\ req'[r].lead = k
           /\ req'[r].hub = req[r].hub /\ req'[r].contact = req[r].contact /\ ~RowLocked(k)
           /\ UNCHANGED <<stored, email, hubspot, gone, overlap>>
           /\ \A l \in Leads : l # k => hub'[l] = hub[l]
           /\ hub'[k] = IF req[r].contact = req[r].hub THEN hub[k] ELSE req[r].contact
           /\ req[r].contact # req[r].hub => k \in Touched'
           /\ req[r].contact = req[r].hub => Touched' = Touched
           /\ Touched' \subseteq Touched \cup {k}
  <1>1. /\ At(r, "patch", "read") /\ k \in stored /\ k \in Leads
        /\ ~RowLocked(k) /\ UNCHANGED <<stored, email, hubspot, gone, overlap>>
    BY DEF PatchCommit, TypeInv, TypeOK, Equipped, At, RowFree
  <1>2. /\ OnlyMoves(r) /\ req'[r].at = "done" /\ req'[r].op = "patch" /\ req'[r].lead = k
        /\ req'[r].hub = req[r].hub /\ req'[r].contact = req[r].contact
    BY <1>1, MovedOnFields DEF PatchCommit, At
  <1>3. /\ \A l \in Leads : l # k => hub'[l] = hub[l]
        /\ hub'[k] = IF req[r].contact = req[r].hub THEN hub[k] ELSE req[r].contact
    BY <1>1 DEF PatchCommit, TypeInv, TypeOK
  <1>4. req[r].contact # req[r].hub => k \in Touched'
    BY <1>2 DEF Touched, Patched, At
  <1>5. req[r].contact = req[r].hub => Touched' = Touched
    BY <1>1, <1>2, TouchedSame DEF At
  <1>6. Touched' \subseteq Touched \cup {k}
    BY <1>1, <1>2 DEF Touched, Relinked, Patched, OnlyMoves, At
  <1>7. QED
    BY <1>1, <1>2, <1>3, <1>4, <1>5, <1>6

LEMMA PatchCommitOwn ==
    ASSUME OwnInv, ErasedInv', NEW r \in Requests, PatchCommit(r)
    PROVE  OwnInv'
  <1>1. PICK k : k = req[r].lead
    OBVIOUS
  <1>2. /\ At(r, "patch", "read") /\ k \in stored /\ k \in Leads /\ OnlyMoves(r)
        /\ req'[r].at = "done" /\ req'[r].op = "patch"
        /\ UNCHANGED <<stored, email, hubspot, gone, overlap>>
        /\ \A l \in Leads : l # k => hub'[l] = hub[l]
        /\ hub'[k] = IF req[r].contact = req[r].hub THEN hub[k] ELSE req[r].contact
        /\ req[r].contact # req[r].hub => k \in Touched'
    BY <1>1, PatchRow DEF OwnInv, ErasedInv
  <1>3. Touched \subseteq Touched'
    BY <1>2, TouchedGrows DEF At
  <1>4. InHand(r)'
    BY <1>2 DEF InHand, Linking, Running, Flushed, At, Erasing
  <1>5. hub'[k] # None => /\ hub'[k] \in hubspot \cup gone
                          /\ k \in Touched' \/ email'[k] = hub'[k][1]
    <2>1. CASE req[r].contact = req[r].hub
      BY <1>2, <1>3, <2>1 DEF OwnInv, Owned
    <2>2. CASE req[r].contact # req[r].hub
      BY <1>2, <2>2 DEF OwnInv, InHand
    <2>3. QED
      BY <2>1, <2>2
  <1>6. stored' = stored \cup {k} /\ email'[k] = email[k]
    BY <1>2
  <1>7. ASSUME NEW s \in Requests \ {r}, Flushed(s), req[s].lead \notin stored
        PROVE  req[s].lead # k /\ email'[k] # req[s].who
    <2>1. ByEmail(req[s].who) = {}
      BY <1>7 DEF OwnInv, InHand
    <2>2. QED
      BY <1>2, <1>7, <2>1 DEF ByEmail
  <1>8. QED
    BY <1>2, <1>3, <1>4, <1>5, <1>6, <1>7, OwnWritten

LEMMA EventCommitOwn ==
    ASSUME OwnInv, ErasedInv', NEW r \in Requests, EventCommit(r)
    PROVE  OwnInv'
  <1>1. At(r, "event", "read") /\ UNCHANGED <<stored, email, hub, hubspot, gone, overlap>>
    BY DEF EventCommit
  <1>2. OnlyMoves(r) /\ req'[r].at = "done" /\ req'[r].op = "event"
    BY <1>1, MovedOnFields DEF EventCommit, OwnInv, ErasedInv, At
  <1>3. InHand(r)' /\ ~Flushed(r)'
    BY <1>2 DEF InHand, Linking, Running, Flushed, At, Erasing
  <1>4. Touched \subseteq Touched'
    BY <1>1, <1>2, TouchedGrows DEF At
  <1>5. \A s \in Requests : InHand(s)'
    <2>1. ASSUME NEW s \in Requests, s # r PROVE InHand(s)'
      <3>1. Flushed(s) /\ req[s].lead \notin stored => ByEmail(req[s].who) = {}
        BY DEF OwnInv, InHand
      <3>2. ByEmail(req[s].who)' = ByEmail(req[s].who)
        BY <1>1, <1>2, <2>1 DEF ByEmail, OnlyMoves
      <3>3. QED
        BY <1>1, <1>2, <1>4, <2>1, <3>1, <3>2, OthersInHand DEF ErasedInv
    <2>2. QED
      BY <1>3, <2>1
  <1>6. ASSUME NEW s \in Requests, NEW t \in Requests PROVE Apart(s, t)'
    <2>1. CASE s = r \/ t = r
      BY <1>3, <2>1 DEF Apart
    <2>2. CASE s # r /\ t # r
      BY <1>1, <1>2, <2>2 DEF OwnInv, Apart, OnlyMoves, Flushed, At
    <2>3. QED
      BY <2>1, <2>2
  <1>7. OnePerPerson' /\ Owned'
    BY <1>1, <1>4 DEF OwnInv, OnePerPerson, Owned
  <1>8. QED
    BY <1>5, <1>6, <1>7 DEF OwnInv

\* What an erasure that goes through makes of its row.
LEMMA OverwriteRow ==
    ASSUME TypeInv, NEW r \in Requests, Erasing(req[r].op), Overwrite(r), ~Goto(r, "failed"),
           NEW k, k = req[r].lead
    PROVE  /\ k \in stored /\ k \in Leads
           /\ OnlyMoves(r) /\ req'[r].at = "done" /\ req'[r].op = req[r].op
           /\ req'[r].lead = k /\ req'[r].hub = req[r].hub
           /\ UNCHANGED <<stored, rest, into, hubspot, gone>>
           /\ overlap \subseteq overlap' /\ overlap' \subseteq overlap \cup {k}
           /\ \A l \in Leads : l # k => email'[l] = email[l] /\ hub'[l] = hub[l]
           /\ email'[k] = Redacted
           /\ hub'[k] = IF req[r].hub = None THEN hub[k] ELSE None
           /\ req[r].hub # hub[k] => k \in overlap'
           /\ \A s \in Requests \ {r} : Loaded(s, k) => k \in overlap'
           /\ ~RowLocked(k)
  <1>1. k \in stored /\ k \in Leads
    BY DEF TypeInv, TypeOK, Equipped
  <1>2. /\ OnlyMoves(r) /\ req'[r].at = "done" /\ req'[r].op = req[r].op
        /\ req'[r].lead = k /\ req'[r].hub = req[r].hub
    BY MovedOnFields DEF Overwrite
  <1>3. /\ email' = [email EXCEPT ![k] = Redacted] /\ hub' = Unlink(r)
        /\ UNCHANGED <<stored, rest, into, hubspot, gone>> /\ ~RowLocked(k)
        /\ overlap' = IF Cleared(r) \ req[r].data # {} \/ req[r].hub # hub[k]
                           \/ \E s \in Requests \ {r} : Loaded(s, k)
                        THEN overlap \cup {k} ELSE overlap
    BY DEF Overwrite, RowFree
  <1>4. \A l \in Leads : (l # k => email'[l] = email[l]) /\ (l = k => email'[l] = Redacted)
    BY <1>1, <1>3 DEF TypeInv, TypeOK
  <1>5. \A l \in Leads : (l # k => hub'[l] = hub[l])
                      /\ (l = k => hub'[l] = IF req[r].hub = None THEN hub[l] ELSE None)
    BY <1>1, <1>3 DEF Unlink, TypeInv, TypeOK
  <1>6. QED
    BY <1>1, <1>2, <1>3, <1>4, <1>5

LEMMA OverwriteOwn ==
    ASSUME OwnInv, ErasedInv', NEW r \in Requests, Erasing(req[r].op), Running(r), Overwrite(r)
    PROVE  OwnInv'
  <1>1. CASE Goto(r, "failed")
    <2>1. ~Goto(r, "done")
      BY <1>1, MovedOnFields DEF OwnInv, ErasedInv
    <2>2. UNCHANGED <<rows, hubspot, gone, overlap>>
      BY <2>1 DEF Overwrite
    <2>3. QED
      BY <1>1, <2>2, OwnFailed
  <1>2. CASE ~Goto(r, "failed")
    <2>1. PICK k : k = req[r].lead
      OBVIOUS
    <2>2. /\ k \in stored /\ k \in Leads
          /\ OnlyMoves(r) /\ req'[r].at = "done" /\ req'[r].op = req[r].op
          /\ UNCHANGED <<stored, hubspot, gone>> /\ overlap \subseteq overlap'
          /\ \A l \in Leads : l # k => email'[l] = email[l] /\ hub'[l] = hub[l]
          /\ email'[k] = Redacted
          /\ hub'[k] = IF req[r].hub = None THEN hub[k] ELSE None
          /\ \A s \in Requests \ {r} : Loaded(s, k) => k \in overlap'
      BY <1>2, <2>1, OverwriteRow DEF OwnInv, ErasedInv
    <2>3. Touched \subseteq Touched'
      BY <2>2, TouchedGrows DEF Running
    <2>4. hub'[k] # None => hub'[k] \in hubspot \cup gone /\ k \in Touched'
      <3>1. hub'[k] # None => k \in overlap'
        BY <2>2 DEF ErasedInv, Erased, Cleaned
      <3>2. QED
        BY <2>2, <3>1 DEF OwnInv, Owned, Touched
    <2>5. InHand(r)'
      BY <2>2 DEF InHand, Linking, Running, Flushed, At, Erasing
    <2>6. email'[k] \notin People
      BY <2>2, LeadAssumption
    <2>7. \A s \in Requests \ {r} : Running(s) /\ req[s].lead = k => k \in overlap'
      BY <2>2 DEF Loaded
    <2>8. ASSUME NEW s \in Requests \ {r}, Flushed(s), req[s].lead \notin stored
          PROVE  req[s].lead # k /\ email'[k] # req[s].who
      <3>1. req[s].who \in People
        BY <2>8 DEF OwnInv, ErasedInv, TypeInv, Equipped, Flushed, Running, At
      <3>2. QED
        BY <2>2, <2>6, <2>8, <3>1
    <2>9. stored' = stored \cup {k}
      BY <2>2
    <2>10. QED
      BY <2>2, <2>3, <2>4, <2>5, <2>6, <2>7, <2>8, <2>9, OwnWritten
  <1>3. QED
    BY <1>1, <1>2

LEMMA OwnStep == OwnInv /\ [Next]_vars => OwnInv'
  <1> SUFFICES ASSUME OwnInv, [Next]_vars PROVE OwnInv'
    OBVIOUS
  <1>1. ErasedInv'
    BY ErasedStep DEF OwnInv
  <1>2. ASSUME NEW r \in Requests, Redact(r) \/ RedactRow(r) PROVE OwnInv'
    BY <1>1, <1>2, OverwriteOwn DEF Redact, RedactRow, At, Erasing, Running
  <1>3. CASE UNCHANGED vars
    <2>1. UNCHANGED <<stored, email, hub, hubspot, gone, overlap, req>>
      BY <1>3 DEF vars, rows
    <2>2. Touched' = Touched /\ \A a : ByEmail(a)' = {l \in stored : email[l] = a}
      BY <2>1 DEF Touched, Relinked, Patched, At, ByEmail
    <2>3. \A r \in Requests : InHand(r)'
      BY <2>1, <2>2 DEF OwnInv, InHand, Linking, Running, Flushed, At, ByEmail
    <2>4. Owned' /\ OnePerPerson' /\ \A r, s \in Requests : Apart(r, s)'
      BY <2>1, <2>2 DEF OwnInv, Owned, OnePerPerson, Apart, Flushed, At
    <2>5. QED
      BY <1>1, <2>3, <2>4 DEF OwnInv
  <1>4. QED
    BY <1>1, <1>2, <1>3, FormLookupOwn, PromoteOwn, MergeLoadOwn, EraseLoadOwn, EventLoadOwn,
       FormFlushOwn, FormSyncOwn, FormCommitOwn, MergeCommitOwn, PatchLoadOwn, PatchCommitOwn,
       EraseContactOwn, EventCommitOwn DEF Next, Begin, Work

LEMMA OwnShared == OwnInv => SharedExplained
  <1> SUFFICES ASSUME OwnInv, NEW k \in stored, NEW l \in stored,
                      k # l, hub[k] = hub[l], hub[k] # None
               PROVE  {k, l} \cap (Joined \cup Patched \cup overlap) # {}
    BY DEF SharedExplained
  <1>1. Touched \subseteq Joined \cup Patched \cup overlap
    BY DEF Touched, Relinked, Joined
  <1>2. hub[k] \in Contacts /\ hub[k][1] \in People
    BY DEF OwnInv, ErasedInv, TypeInv, TypeOK, Contacts
  <1>3. k \in Touched \/ l \in Touched
    BY <1>2 DEF OwnInv, Owned
  <1>4. QED
    BY <1>1, <1>3

-----------------------------------------------------------------------------
(* The contacts HubSpot has deleted.  Whoever names one still, or is about   *)
(* to, was touched, or the row was whose erasure deleted it.                 *)

\* r has deleted c, and its row is not yet written, or never will be, or was.
Deleted(c, r) ==
    /\ req[r].op = "erase" /\ req[r].hub = c
    /\ \/ req[r].at \in {"redact", "failed"}
       \/ /\ req[r].at = "done"
          /\ \A l \in stored : hub[l] = c => l \in Touched \/ req[r].lead \in Touched
          /\ \A s \in Requests : At(s, "form", "synced") /\ req[s].contact = c =>
                req[s].lead \in Touched \/ req[r].lead \in Touched

GoneInv == \A c \in gone : \E r \in Requests : Deleted(c, r)

\* Other deletions are told as before if no row and no form names c anew.
LEMMA DeletedKept ==
    ASSUME TypeInv, NEW r \in Requests, OnlyMoves(r), NEW x \in Requests, x # r,
           Touched \subseteq Touched', NEW c, Deleted(c, x),
           \A l \in stored' \ Touched' : hub'[l] = c =>
              \/ l \in stored /\ hub[l] = c
              \/ At(r, "form", "synced") /\ req[r].contact = c /\ req[r].lead = l,
           ~(At(r, "form", "synced")' /\ req'[r].contact = c)
    PROVE  Deleted(c, x)'
  <1>1. req'[x] = req[x]
    BY DEF OnlyMoves
  <1>2. CASE req[x].at \in {"redact", "failed"}
    BY <1>1, <1>2 DEF Deleted
  <1>3. CASE req[x].at = "done" /\ req[x].at \notin {"redact", "failed"}
    <2>1. /\ \A l \in stored : hub[l] = c => l \in Touched \/ req[x].lead \in Touched
          /\ \A s \in Requests : At(s, "form", "synced") /\ req[s].contact = c =>
                req[s].lead \in Touched \/ req[x].lead \in Touched
      BY <1>3 DEF Deleted
    <2>2. ASSUME NEW l \in stored', hub'[l] = c
          PROVE  l \in Touched' \/ req[x].lead \in Touched'
      BY <2>1, <2>2
    <2>3. ASSUME NEW s \in Requests, At(s, "form", "synced")', req'[s].contact = c
          PROVE  req'[s].lead \in Touched' \/ req[x].lead \in Touched'
      <3>1. s # r
        BY <2>3
      <3>2. req'[s] = req[s] /\ At(s, "form", "synced")
        BY <2>3, <3>1 DEF OnlyMoves, At
      <3>3. QED
        BY <2>1, <2>3, <3>2
    <2>4. QED
      BY <1>1, <1>3, <2>2, <2>3 DEF Deleted
  <1>4. QED
    BY <1>2, <1>3 DEF Deleted

LEMMA GoneKept ==
    ASSUME TypeInv, GoneInv, NEW r \in Requests, OnlyMoves(r), req[r].at # "done",
           overlap \subseteq overlap',
           \A c \in gone : \A l \in stored' \ Touched' : hub'[l] = c =>
              \/ l \in stored /\ hub[l] = c
              \/ At(r, "form", "synced") /\ req[r].contact = c /\ req[r].lead = l,
           ~(At(r, "form", "synced")' /\ req'[r].contact \in gone),
           \A c \in gone : Deleted(c, r) => Deleted(c, r)'
    PROVE  \A c \in gone : \E x \in Requests : Deleted(c, x)'
  <1> SUFFICES ASSUME NEW c \in gone PROVE \E x \in Requests : Deleted(c, x)'
    OBVIOUS
  <1>1. PICK x \in Requests : Deleted(c, x)
    BY DEF GoneInv
  <1>2. Touched \subseteq Touched'
    BY TouchedGrows
  <1>3. CASE x = r
    BY <1>1, <1>3
  <1>4. CASE x # r
    <2>1. ~(At(r, "form", "synced")' /\ req'[r].contact = c)
      OBVIOUS
    <2>2. Deleted(c, x)'
      BY <1>1, <1>2, <1>4, <2>1, DeletedKept
    <2>3. QED
      BY <2>2
  <1>5. QED
    BY <1>3, <1>4

\* Steps that write no row and delete no contact.
LEMMA GonePlain ==
    ASSUME OwnInv, GoneInv, NEW r \in Requests, OnlyMoves(r), UNCHANGED <<rows, gone>>,
           overlap \subseteq overlap', req[r].at # "done",
           \/ req[r].at = "idle" \/ req[r].op # "erase"
           \/ /\ req'[r].op = req[r].op /\ req'[r].hub = req[r].hub
              /\ req'[r].at = "failed",
           ~(At(r, "form", "synced")' /\ req'[r].contact \in gone)
    PROVE  GoneInv'
  <1>1. UNCHANGED <<stored, hub>>
    BY DEF rows
  <1>2. \A c \in gone : Deleted(c, r) => Deleted(c, r)'
    BY DEF Deleted
  <1>3. TypeInv
    BY DEF OwnInv, ErasedInv
  <1>4. \A c \in gone : \E x \in Requests : Deleted(c, x)'
    BY <1>1, <1>2, <1>3, GoneKept
  <1>5. QED
    BY <1>4 DEF GoneInv

LEMMA FormSyncGone ==
    ASSUME OwnInv, OwnInv', GoneInv, NEW r \in Requests, FormSync(r)
    PROVE  GoneInv'
  <1>1. /\ OnlyMoves(r) /\ req[r].op = "form" /\ req[r].at = "flushed"
        /\ \/ req'[r].contact = req[r].contact
           \/ hubspot' = hubspot \cup {req'[r].contact}
    BY FormSyncStep DEF OwnInv, ErasedInv
  <1>2. UNCHANGED <<rows, gone, overlap>>
    BY DEF FormSync
  <1>3. req[r].contact = None
    BY <1>1 DEF OwnInv, InHand, Linking, Running, At
  <1>4. gone \subseteq Contacts \ hubspot' /\ None \notin Contacts
    BY <1>2, NoneAssumption DEF OwnInv, ErasedInv, TypeInv, TypeOK
  <1>5. req'[r].contact \notin gone
    BY <1>1, <1>3, <1>4
  <1>6. QED
    BY <1>1, <1>2, <1>5, GonePlain DEF At

LEMMA FormCommitGone ==
    ASSUME OwnInv, GoneInv, NEW r \in Requests, FormCommit(r)
    PROVE  GoneInv'
  <1>1. At(r, "form", "synced") /\ TypeInv /\ UNCHANGED <<gone, overlap>>
    BY DEF FormCommit, CommitReady, OwnInv, ErasedInv
  <1>2. CASE Goto(r, "failed") /\ UNCHANGED rows
    BY <1>1, <1>2, MovedOnFields, GonePlain DEF At
  <1>3. CASE ~(Goto(r, "failed") /\ UNCHANGED rows)
    <2>1. Goto(r, "done")
      BY <1>3 DEF FormCommit
    <2>2. ~Goto(r, "failed")
      BY <1>1, <2>1, MovedOnFields
    <2>3. PICK k, p : k = req[r].lead /\ p = req[r].who
      OBVIOUS
    <2>4. /\ k \in Leads /\ OnlyMoves(r) /\ req'[r].at = "done"
          /\ stored' = stored \cup {k}
          /\ \A l \in Leads : l # k => hub'[l] = hub[l]
          /\ IF req[r].contact \in {None, req[r].hub} THEN hub'[k] = hub[k]
             ELSE hub'[k] = req[r].contact
      BY <2>2, <2>3, FormCommitRow
    <2>5. k \notin stored => hub[k] = None
      BY <2>4 DEF OwnInv, Owned
    <2>6. stored \subseteq Leads /\ None \notin gone
      BY <1>1, NoneAssumption DEF TypeInv, TypeOK
    <2>7. ASSUME NEW c \in gone, NEW l \in stored', hub'[l] = c
          PROVE  \/ l \in stored /\ hub[l] = c
                 \/ At(r, "form", "synced") /\ req[r].contact = c /\ req[r].lead = l
      BY <1>1, <2>3, <2>4, <2>5, <2>6, <2>7
    <2>8. \A c \in gone : ~Deleted(c, r)
      BY <1>1 DEF Deleted, At
    <2>9. \A c \in gone : \E x \in Requests : Deleted(c, x)'
      BY <1>1, <2>4, <2>7, <2>8, GoneKept DEF At
    <2>10. QED
      BY <1>1, <2>9 DEF GoneInv
  <1>4. QED
    BY <1>2, <1>3

LEMMA PromoteGone ==
    ASSUME OwnInv, GoneInv, NEW r \in Requests, NEW x \in Prospects, Promote(r, x)
    PROVE  GoneInv'
  <1> DEFINE rec == [Idle EXCEPT !.op = "promote", !.at = "done"]
  <1>1. TypeInv /\ rec \in RequestStates /\ req' = [req EXCEPT ![r] = rec]
    BY DEF Promote, Idle, RequestStates, OwnInv, ErasedInv
  <1> HIDE DEF rec
  <1>2. OnlyMoves(r) /\ req'[r] = rec
    BY <1>1, Started
  <1>3. req'[r].at = "done"
    BY <1>2 DEF rec, Idle
  <1>4. PICK k : k = <<x, 1>>
    OBVIOUS
  <1>5. /\ req[r].at = "idle" /\ stored' = stored \cup {k} /\ k \in Leads \ stored
        /\ UNCHANGED <<hub, gone, overlap>>
    BY <1>4 DEF Promote, Leads
  <1>6. hub[k] = None /\ None \notin gone
    BY <1>1, <1>5, NoneAssumption DEF OwnInv, Owned, TypeInv, TypeOK
  <1>7. \A c \in gone : ~Deleted(c, r)
    BY <1>5 DEF Deleted
  <1>8. \A c \in gone : \A l \in stored' : hub'[l] = c => l \in stored /\ hub[l] = c
    BY <1>5, <1>6
  <1>9. \A c \in gone : \E y \in Requests : Deleted(c, y)'
    BY <1>1, <1>2, <1>3, <1>5, <1>7, <1>8, GoneKept DEF At
  <1>10. QED
    BY <1>5, <1>9 DEF GoneInv

\* The row a merge fills is touched by it.
LEMMA MergeRow ==
    ASSUME OwnInv, NEW r \in Requests, MergeCommit(r), NEW k, k = req[r].lead
    PROVE  /\ At(r, "merge", "read") /\ k \in stored /\ OnlyMoves(r)
           /\ req'[r].at = "done" /\ req'[r].op = "merge" /\ ~RowLocked(k)
           /\ UNCHANGED <<stored, email, hubspot, gone, overlap>>
           /\ \A l \in Leads : l # k => hub'[l] = hub[l]
           /\ hub'[k] = IF req[r].hub = None THEN hub[k] ELSE req[r].hub
           /\ req[r].hub # None => k \in Touched'
           /\ req[r].hub = None => Touched' = Touched
           /\ Touched' \subseteq Touched \cup {k}
  <1>1. /\ At(r, "merge", "read") /\ k \in stored /\ k \in Leads /\ TypeInv
        /\ ~RowLocked(k) /\ UNCHANGED <<stored, email, hubspot, gone, overlap>>
    BY DEF MergeCommit, MergeReady, OwnInv, InHand, ErasedInv, TypeInv, Equipped, At, RowFree
  <1>2. OnlyMoves(r) /\ req'[r].at = "done" /\ req'[r].op = "merge" /\ req'[r].lead = k
        /\ req'[r].hub = req[r].hub
    BY <1>1, MovedOnFields DEF MergeCommit, At
  <1>3. /\ \A l \in Leads : l # k => hub'[l] = hub[l]
        /\ hub'[k] = IF req[r].hub = None THEN hub[k] ELSE req[r].hub
    BY <1>1 DEF MergeCommit, TypeInv, TypeOK
  <1>4. req[r].hub # None => k \in Touched'
    BY <1>2 DEF Touched, Relinked, At
  <1>5. req[r].hub = None => Touched' = Touched
    BY <1>1, <1>2, TouchedSame DEF At
  <1>6. Touched' \subseteq Touched \cup {k}
    BY <1>1, <1>2 DEF Touched, Relinked, Patched, OnlyMoves, At
  <1>7. QED
    BY <1>1, <1>2, <1>3, <1>4, <1>5, <1>6

LEMMA MergeCommitGone ==
    ASSUME OwnInv, GoneInv, NEW r \in Requests, MergeCommit(r)
    PROVE  GoneInv'
  <1>1. PICK k : k = req[r].lead
    OBVIOUS
  <1>2. /\ At(r, "merge", "read") /\ k \in stored /\ OnlyMoves(r)
        /\ req'[r].at = "done" /\ req'[r].op = "merge"
        /\ UNCHANGED <<stored, gone, overlap>>
        /\ \A l \in Leads : l # k => hub'[l] = hub[l]
        /\ hub'[k] = IF req[r].hub = None THEN hub[k] ELSE req[r].hub
        /\ req[r].hub # None => k \in Touched'
    BY <1>1, MergeRow
  <1>3. TypeInv /\ stored \subseteq Leads
    BY DEF OwnInv, ErasedInv, TypeInv, TypeOK
  <1>4. \A c \in gone : ~Deleted(c, r)
    BY <1>2 DEF Deleted, At
  <1>5. \A c \in gone : \A l \in stored' \ Touched' : hub'[l] = c => l \in stored /\ hub[l] = c
    BY <1>2, <1>3
  <1>6. \A c \in gone : \E y \in Requests : Deleted(c, y)'
    BY <1>2, <1>3, <1>4, <1>5, GoneKept DEF At
  <1>7. QED
    BY <1>2, <1>6 DEF GoneInv

LEMMA PatchCommitGone ==
    ASSUME OwnInv, GoneInv, NEW r \in Requests, PatchCommit(r)
    PROVE  GoneInv'
  <1>1. PICK k : k = req[r].lead
    OBVIOUS
  <1>2. TypeInv /\ stored \subseteq Leads
    BY DEF OwnInv, ErasedInv, TypeInv, TypeOK
  <1>3. /\ At(r, "patch", "read") /\ k \in stored /\ OnlyMoves(r) /\ req'[r].at = "done"
        /\ UNCHANGED <<stored, gone, overlap>>
        /\ \A l \in Leads : l # k => hub'[l] = hub[l]
        /\ hub'[k] = IF req[r].contact = req[r].hub THEN hub[k] ELSE req[r].contact
        /\ req[r].contact # req[r].hub => k \in Touched'
    BY <1>1, <1>2, PatchRow
  <1>4. \A c \in gone : ~Deleted(c, r)
    BY <1>3 DEF Deleted, At
  <1>5. \A c \in gone : \A l \in stored' \ Touched' : hub'[l] = c => l \in stored /\ hub[l] = c
    BY <1>2, <1>3
  <1>6. \A c \in gone : \E y \in Requests : Deleted(c, y)'
    BY <1>2, <1>3, <1>4, <1>5, GoneKept DEF At
  <1>7. QED
    BY <1>3, <1>6 DEF GoneInv

LEMMA EraseContactGone ==
    ASSUME OwnInv, GoneInv, NEW r \in Requests, EraseContact(r)
    PROVE  GoneInv'
  <1>1. At(r, "erase", "read") /\ UNCHANGED <<rows, overlap>> /\ TypeInv
        /\ UNCHANGED <<stored, hub>>
    BY DEF EraseContact, OwnInv, ErasedInv, rows
  <1>2. PICK place \in {"redact", "failed"} : Goto(r, place)
    BY DEF EraseContact
  <1>3. /\ OnlyMoves(r) /\ req'[r].at = place /\ req'[r].op = "erase"
        /\ req'[r].hub = req[r].hub
    BY <1>1, <1>2, MovedOnFields DEF At
  <1>4. gone' \subseteq gone \cup {req[r].hub}
    BY DEF EraseContact
  <1>5. \A c \in gone : ~Deleted(c, r)
    BY <1>1 DEF Deleted, At
  <1>6. \A c \in gone : \E x \in Requests : Deleted(c, x)'
    BY <1>1, <1>3, <1>5, GoneKept DEF At
  <1>7. ASSUME NEW c \in gone' PROVE \E x \in Requests : Deleted(c, x)'
    <2>1. CASE c \in gone
      BY <1>6, <2>1
    <2>2. CASE c = req[r].hub
      <3>1. req'[r].op = "erase" /\ req'[r].hub = c /\ req'[r].at \in {"redact", "failed"}
        BY <1>3, <2>2
      <3>2. Deleted(c, r)'
        BY <3>1 DEF Deleted
      <3>3. QED
        BY <3>2
    <2>3. QED
      BY <1>4, <2>1, <2>2
  <1>8. QED
    BY <1>7 DEF GoneInv

LEMMA OneIsTouched ==
    ASSUME OwnInv, NEW k \in stored, NEW l \in stored, k # l, hub[k] = hub[l], hub[k] # None
    PROVE  k \in Touched \/ l \in Touched
  <1>1. hub[k] \in Contacts /\ hub[k][1] \in People
    BY DEF OwnInv, ErasedInv, TypeInv, TypeOK, Contacts
  <1>2. QED
    BY <1>1 DEF OwnInv, Owned

\* The erasure that deleted the contact writes its row.
LEMMA OverwriteDeleted ==
    ASSUME OwnInv, NEW r \in Requests, At(r, "erase", "redact"), Overwrite(r),
           ~Goto(r, "failed"), NEW c \in gone, Deleted(c, r)
    PROVE  Deleted(c, r)'
  <1>1. PICK k : k = req[r].lead
    OBVIOUS
  <1>2. TypeInv /\ Erasing(req[r].op) /\ Running(r)
    BY DEF OwnInv, ErasedInv, At, Erasing, Running
  <1>3. /\ k \in stored /\ k \in Leads
        /\ OnlyMoves(r) /\ req'[r].at = "done" /\ req'[r].op = req[r].op
        /\ req'[r].lead = k /\ req'[r].hub = req[r].hub
        /\ UNCHANGED <<stored, gone>> /\ overlap \subseteq overlap'
        /\ \A l \in Leads : l # k => hub'[l] = hub[l]
        /\ hub'[k] = IF req[r].hub = None THEN hub[k] ELSE None
        /\ req[r].hub # hub[k] => k \in overlap'
        /\ \A s \in Requests \ {r} : Loaded(s, k) => k \in overlap'
    BY <1>1, <1>2, OverwriteRow
  <1>4. req[r].hub = c /\ c # None /\ c \in Contacts /\ c[1] \in People
    BY <1>2, NoneAssumption DEF Deleted, TypeInv, TypeOK, Contacts
  <1>5. Touched \subseteq Touched' /\ overlap' \subseteq Touched'
    BY <1>3, TouchedGrows DEF At, Touched
  <1>6. k \in Touched \/ email[k] = c[1]
    BY <1>1, <1>2, <1>4 DEF OwnInv, InHand
  <1>7. ASSUME NEW l \in stored', hub'[l] = c PROVE l \in Touched' \/ k \in Touched'
    <2>1. l # k /\ l \in stored /\ hub[l] = c
      BY <1>2, <1>3, <1>4, <1>7 DEF TypeInv, TypeOK
    <2>2. CASE hub[k] = c
      BY <1>3, <1>4, <1>5, <2>1, <2>2, OneIsTouched
    <2>3. CASE hub[k] # c
      BY <1>3, <1>4, <1>5, <2>3
    <2>4. QED
      BY <2>2, <2>3
  <1>8. ASSUME NEW s \in Requests, At(s, "form", "synced")', req'[s].contact = c
        PROVE  req'[s].lead \in Touched' \/ k \in Touched'
    <2>1. s # r
      BY <1>3, <1>8 DEF At
    <2>2. req'[s] = req[s] /\ At(s, "form", "synced")
      BY <1>3, <1>8, <2>1 DEF OnlyMoves, At
    <2>3. Linking(s) /\ Flushed(s) /\ InHand(s) /\ req[s].contact = c
      BY <1>8, <2>2 DEF OwnInv, Linking, Running, Flushed, At
    <2>4. c[1] = req[s].who
      BY <1>4, <2>2, <2>3 DEF InHand, At
    <2>5. CASE req[s].lead = k
      BY <1>3, <1>5, <2>1, <2>2, <2>3, <2>5 DEF Loaded, Linking
    <2>6. CASE req[s].lead # k /\ req[s].lead \in stored
      <3>1. req[s].lead \in overlap \/ email[req[s].lead] = c[1]
        BY <2>3, <2>4, <2>6 DEF InHand
      <3>2. email[req[s].lead] = c[1] => k \in Touched
        BY <1>3, <1>4, <1>6, <2>6 DEF OwnInv, Owned
      <3>3. QED
        BY <1>3, <1>5, <2>2, <3>1, <3>2
    <2>7. CASE req[s].lead \notin stored
      <3>1. email[k] # c[1]
        BY <1>3, <2>3, <2>4, <2>7 DEF InHand, ByEmail
      <3>2. QED
        BY <1>5, <1>6, <3>1
    <2>8. QED
      BY <2>5, <2>6, <2>7
  <1>9. QED
    BY <1>3, <1>4, <1>7, <1>8 DEF Deleted, At

LEMMA OverwriteGone ==
    ASSUME OwnInv, GoneInv, NEW r \in Requests, Redact(r) \/ RedactRow(r)
    PROVE  GoneInv'
  <1>1. /\ TypeInv /\ Erasing(req[r].op) /\ Overwrite(r) /\ req[r].at = "redact"
        /\ UNCHANGED gone
    BY DEF OwnInv, ErasedInv, Redact, RedactRow, At, Erasing, Overwrite
  <1>2. CASE Goto(r, "failed")
    <2>1. ~Goto(r, "done")
      BY <1>1, <1>2, MovedOnFields
    <2>2. UNCHANGED <<rows, gone, overlap>>
      BY <1>1, <2>1 DEF Overwrite
    <2>3. QED
      BY <1>1, <1>2, <2>2, MovedOnFields, GonePlain DEF At
  <1>3. CASE ~Goto(r, "failed")
    <2>1. PICK k : k = req[r].lead
      OBVIOUS
    <2>2. /\ k \in stored /\ OnlyMoves(r) /\ req'[r].at = "done"
          /\ UNCHANGED <<stored, gone>> /\ overlap \subseteq overlap'
          /\ \A l \in Leads : l # k => hub'[l] = hub[l]
          /\ hub'[k] = IF req[r].hub = None THEN hub[k] ELSE None
      BY <1>1, <1>3, <2>1, OverwriteRow
    <2>3. stored \subseteq Leads /\ None \notin gone
      BY <1>1, NoneAssumption DEF TypeInv, TypeOK
    <2>4. \A c \in gone : \A l \in stored' : hub'[l] = c => l \in stored /\ hub[l] = c
      BY <2>2, <2>3
    <2>5. ASSUME NEW c \in gone, Deleted(c, r) PROVE Deleted(c, r)'
      <3>1. At(r, "erase", "redact")
        BY <1>1, <2>5 DEF Deleted, At
      <3>2. QED
        BY <1>1, <1>3, <2>5, <3>1, OverwriteDeleted
    <2>6. \A c \in gone : \E y \in Requests : Deleted(c, y)'
      BY <1>1, <2>2, <2>4, <2>5, GoneKept DEF At
    <2>7. QED
      BY <1>1, <2>6 DEF GoneInv
  <1>4. QED
    BY <1>2, <1>3

LEMMA EventCommitGone ==
    ASSUME OwnInv, GoneInv, NEW r \in Requests, EventCommit(r)
    PROVE  GoneInv'
  <1>1. At(r, "event", "read") /\ UNCHANGED <<stored, hub, gone, overlap>> /\ TypeInv
    BY DEF EventCommit, OwnInv, ErasedInv
  <1>2. OnlyMoves(r) /\ req'[r].at = "done"
    BY <1>1, MovedOnFields DEF EventCommit
  <1>3. \A c \in gone : ~Deleted(c, r)
    BY <1>1 DEF Deleted, At
  <1>4. \A c \in gone : \E y \in Requests : Deleted(c, y)'
    BY <1>1, <1>2, <1>3, GoneKept DEF At
  <1>5. QED
    BY <1>1, <1>4 DEF GoneInv

LEMMA GoneStep == OwnInv /\ OwnInv' /\ GoneInv /\ [Next]_vars => GoneInv'
  <1> SUFFICES ASSUME OwnInv, OwnInv', GoneInv, [Next]_vars PROVE GoneInv'
    OBVIOUS
  <1>0. TypeInv
    BY DEF OwnInv, ErasedInv
  <1>1. ASSUME NEW r \in Requests, NEW p \in People, FormLookup(r, p) PROVE GoneInv'
    <2>1. OnlyMoves(r) /\ req'[r].at = "read"
      BY <1>0, <1>1, FormLookupStep
    <2>2. QED
      BY <1>1, <2>1, GonePlain DEF FormLookup, At
  <1>2. ASSUME NEW r \in Requests, NEW s \in stored, NEW t \in stored, MergeLoad(r, s, t)
        PROVE  GoneInv'
    <2>1. OnlyMoves(r) /\ req'[r].op = "merge"
      BY <1>0, <1>2, MergeLoadStep
    <2>2. UNCHANGED <<rows, gone>> /\ overlap \subseteq overlap' /\ req[r].at = "idle"
      BY <1>2 DEF MergeLoad
    <2>3. QED
      BY <2>1, <2>2, GonePlain DEF At
  <1>3. ASSUME NEW r \in Requests, NEW l \in stored, EraseLoad(r, l) \/ EraseRowLoad(r, l)
        PROVE  GoneInv'
    <2>1. PICK op \in {"erase", "eraseRow"}, place \in {"read", "redact"} :
              Loading(r, l, op, place)
      BY <1>3 DEF EraseLoad, EraseRowLoad
    <2>2. OnlyMoves(r) /\ req'[r].op = op
      BY <1>0, <2>1, LoadingStep
    <2>3. QED
      BY <2>1, <2>2, GonePlain DEF Loading, At
  <1>4. ASSUME NEW r \in Requests, NEW c \in Contacts, EventLoad(r, c) PROVE GoneInv'
    <2>1. OnlyMoves(r) /\ req'[r].op = "event"
      BY <1>0, <1>4, EventLoadStep
    <2>2. QED
      BY <1>4, <2>1, GonePlain DEF EventLoad, At
  <1>5. ASSUME NEW r \in Requests, FormFlush(r) PROVE GoneInv'
    <2>1. /\ OnlyMoves(r) /\ req[r].op = "form" /\ req[r].at = "read"
          /\ req'[r].at \in {"failed", "flushed"}
      BY <1>0, <1>5, FormFlushStep
    <2>2. QED
      BY <1>5, <2>1, GonePlain DEF FormFlush, At
  <1>6. ASSUME NEW r \in Requests, NEW l \in stored, NEW c \in Contacts \cup {None},
               PatchLoad(r, l, c)
        PROVE  GoneInv'
    <2>1. OnlyMoves(r) /\ req'[r].op = "patch"
      BY <1>0, <1>6, PatchLoadStep
    <2>2. UNCHANGED <<rows, gone>> /\ overlap \subseteq overlap' /\ req[r].at = "idle"
      BY <1>6 DEF PatchLoad
    <2>3. QED
      BY <2>1, <2>2, GonePlain DEF At
  <1>7. CASE UNCHANGED vars
    <2>1. UNCHANGED <<stored, hub, gone, req, overlap>>
      BY <1>7 DEF vars, rows
    <2>2. Touched' = Touched
      BY <2>1 DEF Touched, Relinked, Patched, At
    <2>3. \A c, r : Deleted(c, r) => Deleted(c, r)'
      BY <2>1, <2>2 DEF Deleted, At
    <2>4. QED
      BY <2>1, <2>3 DEF GoneInv
  <1>8. QED
    BY <1>1, <1>2, <1>3, <1>4, <1>5, <1>6, <1>7, FormSyncGone, FormCommitGone, PromoteGone,
       MergeCommitGone, PatchCommitGone, EraseContactGone, OverwriteGone, EventCommitGone
       DEF Next, Begin, Work

LEMMA GoneDangling == OwnInv /\ GoneInv => DanglingExplained
  <1> SUFFICES ASSUME GoneInv, NEW l \in stored, hub[l] \in gone
               PROVE  \E r \in Requests :
                         /\ req[r].op = "erase" /\ req[r].hub = hub[l]
                         /\ \/ req[r].at \in {"redact", "failed"}
                            \/ {l, req[r].lead} \cap (Joined \cup Patched \cup overlap) # {}
    BY DEF DanglingExplained
  <1>1. PICK r \in Requests : Deleted(hub[l], r)
    BY DEF GoneInv
  <1>2. Touched \subseteq Joined \cup Patched \cup overlap
    BY DEF Touched, Relinked, Joined
  <1>3. QED
    BY <1>1, <1>2 DEF Deleted

-----------------------------------------------------------------------------
(* The contacts HubSpot has.  Each is named by a row that nothing touched,   *)
(* or some request tells why not.                                            *)

Linked(l, c) ==
    \E r \in Requests : At(r, "form", "done") /\ req[r].contact = c /\ req[r].lead = l

\* Those that keep the link they have loaded.
Reads(o) == Erasing(o) \/ o = "patch"

\* What a request has read of a row's link still holds, or a form wrote the
\* link since, or the row was touched.
LinkRead(r) ==
    /\ Linking(r) /\ req[r].hub # None =>
          /\ req[r].lead \in stored
          /\ req[r].lead \in Touched \/ req[r].hub \in gone \cup {hub[req[r].lead]}
    /\ At(r, "form", "synced") /\ req[r].contact # None =>
          req[r].lead \in Touched \/ hub[req[r].lead] \in gone \cup {None, req[r].contact}
    /\ Reads(req[r].op) /\ Running(r) =>
          \/ req[r].lead \in Touched
          \/ hub[req[r].lead] \in {None, req[r].hub}
          \/ Linked(req[r].lead, hub[req[r].lead])
    /\ At(r, "merge", "read") /\ req[r].hub # None =>
          \/ req[r].lead \in Touched
          \/ hub[req[r].lead] = None
          \/ Linked(req[r].lead, hub[req[r].lead])

Home(c) == \E l \in stored \ Touched : hub[l] = c

Witness(c, r) ==
    \/ req[r].op = "form" /\ req[r].contact = c /\ req[r].at \in {"synced", "failed"}
    \/ At(r, "form", "done") /\ req[r].contact = c /\ req[r].lead \in Touched
    \/ At(r, "patch", "done") /\ req[r].hub = c /\ req[r].contact # c
    \/ Erasing(req[r].op) /\ req[r].hub = c /\ req[r].at = "done"

\* r has ended and may have given its row another contact.
Relinks(r) == At(r, "merge", "done") \/ At(r, "patch", "done")

FoundInv ==
    /\ \A r \in Requests : LinkRead(r)
    /\ \A c \in hubspot : Home(c) \/ \E r \in Requests : Witness(c, r)

LEMMA FoundInit == Init => GoneInv /\ FoundInv
  <1> SUFFICES ASSUME Init PROVE GoneInv /\ FoundInv
    OBVIOUS
  <1>1. PICK known \in SUBSET People : \E synced, matched \in SUBSET known :
            StoredBefore(known, synced, matched)
    BY DEF Init
  <1>2. PICK synced \in SUBSET known, matched \in SUBSET known :
            StoredBefore(known, synced, matched)
    BY <1>1
  <1>3. /\ stored = known \X {1} /\ hubspot = synced \X {1} /\ gone = {}
        /\ hub = [l \in Leads |-> IF l \in synced \X {1} THEN l ELSE None]
    BY <1>2 DEF StoredBefore
  <1>4. \A r \in Requests : req[r] = Idle
    BY DEF Init
  <1>5. Touched = {}
    BY <1>4 DEF Init, Touched, Relinked, Patched, At, Idle
  <1>6. ASSUME NEW c \in hubspot PROVE Home(c)
    <2>1. c \in stored /\ c \in Leads
      BY <1>3 DEF Leads, Contacts
    <2>2. hub[c] = c
      BY <1>3, <2>1
    <2>3. QED
      BY <1>5, <2>1, <2>2 DEF Home
  <1>7. \A r \in Requests : LinkRead(r)
    BY <1>4 DEF LinkRead, Linking, Running, At, Erasing, Reads, Idle
  <1>8. QED
    BY <1>3, <1>6, <1>7 DEF GoneInv, FoundInv

LEMMA LinkedKept ==
    ASSUME NEW r \in Requests, OnlyMoves(r), ~At(r, "form", "done"), NEW l, NEW c, Linked(l, c)
    PROVE  Linked(l, c)'
  <1>1. PICK s \in Requests : At(s, "form", "done") /\ req[s].contact = c /\ req[s].lead = l
    BY DEF Linked
  <1>2. s # r
    BY <1>1
  <1>3. At(s, "form", "done")' /\ req'[s].contact = c /\ req'[s].lead = l
    BY <1>1, <1>2 DEF OnlyMoves, At
  <1>4. QED
    BY <1>3 DEF Linked

\* A row that another request has read is written by a form, which leaves its
\* record, or touched.
Explained(s, l) ==
    \/ hub'[l] = hub[l] \/ l \in Touched'
    \/ /\ ~Flushed(s) /\ hub[l] \in gone \cup {None, hub'[l]}
       /\ \E r \in Requests : At(r, "form", "done")' /\ req'[r].contact = hub'[l]
                              /\ req'[r].lead = l

LEMMA OthersLink ==
    ASSUME OwnInv, NEW r \in Requests, OnlyMoves(r), ~At(r, "form", "done"),
           NEW s \in Requests, s # r, LinkRead(s),
           stored \subseteq stored', Touched \subseteq Touched', gone \subseteq gone',
           Running(s) /\ req[s].lead \in Leads => Explained(s, req[s].lead)
    PROVE  LinkRead(s)'
  <1>1. PICK l : l = req[s].lead
    OBVIOUS
  <1>2. PICK b, a : b = hub[l] /\ a = hub'[l]
    OBVIOUS
  <1>3. req'[s] = req[s]
    BY DEF OnlyMoves
  <1>4. /\ Linking(s)' <=> Linking(s)
        /\ Running(s)' <=> Running(s)
        /\ At(s, "merge", "read")' <=> At(s, "merge", "read")
        /\ At(s, "form", "synced")' <=> At(s, "form", "synced")
        /\ At(s, "form", "synced") => Flushed(s) /\ Running(s)
        /\ At(s, "merge", "read") => Running(s)
        /\ Linking(s) => Running(s)
    BY <1>3 DEF Linking, Running, At, Flushed
  <1>5. /\ At(s, "form", "synced") => l \in Leads
        /\ Reads(req[s].op) => l \in Leads
        /\ At(s, "merge", "read") => l \in Leads
        /\ l \in stored => l \in Leads
    BY <1>1 DEF OwnInv, ErasedInv, TypeInv, TypeOK, Equipped, Flushed, At, Reads
  <1>6. Linked(l, b) => Linked(l, b)'
    BY LinkedKept
  <1>7. ASSUME Running(s), l \in Leads
        PROVE  \/ a = b \/ l \in Touched'
               \/ ~Flushed(s) /\ b \in gone \cup {None, a} /\ Linked(l, a)'
    BY <1>1, <1>2, <1>7 DEF Explained, Linked
  <1>8. Linking(s) /\ req[s].hub # None =>
            l \in stored' /\ (l \in Touched' \/ req[s].hub \in gone' \cup {a})
    BY <1>1, <1>2, <1>4, <1>5, <1>7 DEF LinkRead
  <1>9. At(s, "form", "synced") /\ req[s].contact # None =>
            l \in Touched' \/ a \in gone' \cup {None, req[s].contact}
    BY <1>1, <1>2, <1>4, <1>5, <1>7 DEF LinkRead
  <1>10. Reads(req[s].op) /\ Running(s) =>
            l \in Touched' \/ a \in {None, req[s].hub} \/ Linked(l, a)'
    BY <1>1, <1>2, <1>4, <1>5, <1>6, <1>7 DEF LinkRead
  <1>11. At(s, "merge", "read") /\ req[s].hub # None =>
            l \in Touched' \/ a = None \/ Linked(l, a)'
    BY <1>1, <1>2, <1>4, <1>5, <1>6, <1>7 DEF LinkRead
  <1>12. Linked(l, a)' => Linked(req[s].lead, hub[req[s].lead])'
    BY <1>1, <1>2, <1>3 DEF Linked, At
  <1>13. QED
    BY <1>1, <1>2, <1>3, <1>4, <1>8, <1>9, <1>10, <1>11, <1>12 DEF LinkRead

LEMMA FoundKept ==
    ASSUME OwnInv, FoundInv, NEW r \in Requests, OnlyMoves(r), ~At(r, "form", "done"),
           req[r].at # "done", stored \subseteq stored', overlap \subseteq overlap',
           gone \subseteq gone',
           \A s \in Requests : s # r /\ Running(s) /\ req[s].lead \in Leads =>
              Explained(s, req[s].lead),
           LinkRead(r)',
           \A c \in hubspot' : c \in hubspot \/ Witness(c, r)',
           \A c \in hubspot \cap hubspot' : Home(c) \/ Witness(c, r) =>
              Home(c)' \/ \E x \in Requests : Witness(c, x)'
    PROVE  FoundInv'
  <1>1. Touched \subseteq Touched'
    BY TouchedGrows
  <1>2. \A s \in Requests : LinkRead(s)'
    <2>1. ASSUME NEW s \in Requests, s # r PROVE LinkRead(s)'
      <3>1. LinkRead(s)
        BY DEF FoundInv
      <3>2. QED
        BY <1>1, <2>1, <3>1, OthersLink
    <2>2. QED
      BY <2>1
  <1>3. ASSUME NEW c \in hubspot' PROVE Home(c)' \/ \E x \in Requests : Witness(c, x)'
    <2>1. CASE c \notin hubspot
      BY <2>1
    <2>2. CASE c \in hubspot /\ (Home(c) \/ Witness(c, r))
      BY <2>2
    <2>3. ASSUME NEW x \in Requests, x # r, Witness(c, x) PROVE Witness(c, x)'
      BY <1>1, <2>3 DEF Witness, OnlyMoves, At
    <2>4. QED
      BY <2>1, <2>2, <2>3 DEF FoundInv
  <1>4. QED
    BY <1>2, <1>3 DEF FoundInv

\* A step that writes no link and touches nothing that names a contact.
LEMMA FoundPlain ==
    ASSUME OwnInv, FoundInv, NEW r \in Requests, OnlyMoves(r), UNCHANGED <<stored, hub>>,
           req[r].at \notin {"done", "failed"}, ~Relinks(r)',
           overlap \subseteq overlap', gone \subseteq gone',
           \A l \in overlap' \ overlap : hub[l] = None,
           LinkRead(r)',
           \A c \in hubspot' : c \in hubspot \/ Witness(c, r)',
           \A c \in hubspot : Witness(c, r) => Witness(c, r)'
    PROVE  FoundInv'
  <1>1. Touched' \subseteq Touched \cup (overlap' \ overlap)
    BY DEF Touched, Relinked, Patched, Relinks, OnlyMoves, At
  <1>2. ASSUME NEW c \in hubspot, Home(c) PROVE Home(c)'
    <2>1. PICK l \in stored \ Touched : hub[l] = c
      BY <1>2 DEF Home
    <2>2. c # None
      BY NoneAssumption DEF OwnInv, ErasedInv, TypeInv, TypeOK
    <2>3. l \in stored' \ Touched' /\ hub'[l] = c
      BY <1>1, <2>1, <2>2
    <2>4. QED
      BY <2>3 DEF Home
  <1>3. \A s \in Requests : s # r /\ Running(s) /\ req[s].lead \in Leads =>
            Explained(s, req[s].lead)
    BY DEF Explained
  <1>4. \A c \in hubspot \cap hubspot' : Home(c) \/ Witness(c, r) =>
            Home(c)' \/ \E x \in Requests : Witness(c, x)'
    BY <1>2
  <1>5. ~At(r, "form", "done") /\ req[r].at # "done" /\ stored \subseteq stored'
    BY DEF At
  <1>6. QED
    BY <1>3, <1>4, <1>5, FoundKept

LEMMA FormSyncFound ==
    ASSUME OwnInv, OwnInv', FoundInv, NEW r \in Requests, FormSync(r)
    PROVE  FoundInv'
  <1>1. /\ OnlyMoves(r) /\ req[r].op = "form" /\ req[r].at = "flushed"
        /\ req'[r].op = "form" /\ req'[r].lead = req[r].lead /\ req'[r].hub = req[r].hub
        /\ req'[r].who = req[r].who /\ req'[r].at \in {"synced", "failed"}
        /\ \/ hubspot' = hubspot /\ req'[r].contact = req[r].contact
           \/ /\ req'[r].contact \in Contacts /\ req'[r].contact[1] = req[r].who
              /\ hubspot' = hubspot \cup {req'[r].contact}
    BY FormSyncStep DEF OwnInv, ErasedInv
  <1>2. UNCHANGED <<stored, email, hub, gone, overlap>>
    BY DEF FormSync, rows
  <1>3. PICK l : l = req[r].lead
    OBVIOUS
  <1>4. /\ InHand(r) /\ LinkRead(r) /\ Linking(r) /\ Flushed(r) /\ l \in Leads
        /\ req[r].contact = None
    BY <1>1, <1>3 DEF OwnInv, ErasedInv, TypeInv, Equipped, FoundInv, InHand, Linking,
       Running, Flushed, At
  <1>5. Touched \subseteq Touched'
    BY <1>1, <1>2, TouchedGrows DEF At
  <1>6. ASSUME req'[r].contact # None, l \notin Touched'
        PROVE  hub[l] \in gone \cup {None, req'[r].contact}
    <2>1. /\ req'[r].contact \in hubspot' /\ req'[r].contact[1] = req[r].who
          /\ hubspot \subseteq hubspot'
      BY <1>1, <1>4, <1>6
    <2>2. hub[l] # None =>
              l \in stored /\ hub[l] \in hubspot \cup gone /\ email[l] = hub[l][1]
      BY <1>4, <1>5, <1>6 DEF OwnInv, Owned
    <2>3. l \in stored => email[l] = req[r].who
      BY <1>3, <1>4, <1>5, <1>6 DEF InHand, Touched
    <2>4. OnePerPerson'
      BY DEF OwnInv
    <2>5. QED
      BY <2>1, <2>2, <2>3, <2>4 DEF OnePerPerson
  <1>7. LinkRead(r)'
    <2>1. Linking(r)' /\ req'[r].hub # None =>
              l \in stored /\ (l \in Touched' \/ req'[r].hub \in gone \cup {hub[l]})
      BY <1>1, <1>3, <1>4, <1>5 DEF LinkRead
    <2>2. QED
      BY <1>1, <1>2, <1>3, <1>6, <2>1 DEF LinkRead, At, Erasing, Reads
  <1>8. \A c \in hubspot' : c \in hubspot \/ Witness(c, r)'
    BY <1>1 DEF Witness
  <1>9. \A c \in hubspot : ~Witness(c, r)
    BY <1>1 DEF Witness, At
  <1>10. ~Relinks(r)'
    BY <1>1 DEF Relinks, At
  <1>11. QED
    BY <1>1, <1>2, <1>7, <1>8, <1>9, <1>10, FoundPlain DEF At

LEMMA FormCommitFound ==
    ASSUME OwnInv, FoundInv, NEW r \in Requests, FormCommit(r)
    PROVE  FoundInv'
  <1>1. /\ At(r, "form", "synced") /\ TypeInv /\ UNCHANGED <<hubspot, gone, overlap>>
        /\ Linking(r) /\ Flushed(r) /\ LinkRead(r)
    BY DEF FormCommit, CommitReady, OwnInv, ErasedInv, FoundInv, Linking, Running, Flushed, At
  <1>2. CASE Goto(r, "failed") /\ UNCHANGED rows
    <2>1. /\ OnlyMoves(r) /\ req'[r].at = "failed" /\ req'[r].op = "form"
          /\ req'[r].contact = req[r].contact
      BY <1>1, <1>2, MovedOnFields DEF At
    <2>2. LinkRead(r)' /\ ~Relinks(r)'
      BY <2>1 DEF Relinks, LinkRead, Linking, Running, At, Erasing, Reads
    <2>3. \A c \in hubspot : Witness(c, r) => Witness(c, r)'
      BY <1>1, <2>1 DEF Witness, At, Erasing
    <2>4. UNCHANGED <<stored, hub>>
      BY <1>2 DEF rows
    <2>5. QED
      BY <1>1, <2>1, <2>2, <2>3, <2>4, FoundPlain DEF At
  <1>3. CASE ~(Goto(r, "failed") /\ UNCHANGED rows)
    <2>1. ~Goto(r, "failed")
      BY <1>1, <1>3, MovedOnFields DEF FormCommit
    <2>2. PICK k, p, d : k = req[r].lead /\ p = req[r].who /\ d = req[r].contact
      OBVIOUS
    <2>3. /\ k \in Leads /\ OnlyMoves(r) /\ req'[r].at = "done" /\ req'[r].op = "form"
          /\ req'[r].lead = k /\ req'[r].contact = d
          /\ stored' = stored \cup {k}
          /\ \A l \in Leads : l # k => hub'[l] = hub[l]
          /\ IF d \in {None, req[r].hub} THEN hub'[k] = hub[k] ELSE hub'[k] = d
      BY <2>1, <2>2, FormCommitRow
    <2>4. Touched' = Touched
      BY <1>1, <2>3, TouchedSame DEF At
    <2>5. hub'[k] # hub[k] =>
              hub'[k] = d /\ d # None /\ (k \in Touched \/ hub[k] \in gone \cup {None, d})
      BY <1>1, <2>2, <2>3 DEF LinkRead
    <2>6. ASSUME NEW s \in Requests, s # r, Running(s), req[s].lead \in Leads
          PROVE  Explained(s, req[s].lead)
      <3>1. CASE req[s].lead # k \/ hub'[k] = hub[k] \/ k \in Touched
        BY <2>3, <2>4, <2>6, <3>1 DEF Explained
      <3>2. CASE req[s].lead = k /\ hub'[k] # hub[k] /\ k \notin Touched
        <4>1. ~Flushed(s)
          BY <1>1, <2>2, <2>6, <3>2 DEF OwnInv, Apart
        <4>2. At(r, "form", "done")' /\ req'[r].contact = hub'[k] /\ req'[r].lead = k
          BY <2>3, <2>5, <3>2 DEF At
        <4>3. hub[k] \in gone \cup {None, hub'[k]}
          BY <2>5, <3>2
        <4>4. QED
          BY <3>2, <4>1, <4>2, <4>3 DEF Explained
      <3>3. QED
        BY <3>1, <3>2
    <2>7. LinkRead(r)'
      BY <2>3 DEF LinkRead, Linking, Running, At, Erasing, Reads
    <2>8. ASSUME NEW c \in hubspot PROVE c \notin gone /\ c # None
      BY <1>1, NoneAssumption DEF TypeInv, TypeOK
    <2>9. ASSUME NEW c \in hubspot, Home(c) PROVE Home(c)'
      <3>1. PICK l \in stored \ Touched : hub[l] = c
        BY <2>9 DEF Home
      <3>2. l \in Leads
        BY <1>1 DEF TypeInv, TypeOK
      <3>3. hub'[l] = c
        BY <2>3, <2>5, <2>8, <3>1, <3>2
      <3>4. QED
        BY <2>3, <2>4, <3>1, <3>3 DEF Home
    <2>10. ASSUME NEW c \in hubspot, Witness(c, r) PROVE Home(c)' \/ Witness(c, r)'
      <3>1. d = c
        BY <1>1, <2>2, <2>10 DEF Witness, At, Erasing
      <3>2. CASE k \in Touched
        BY <2>3, <2>4, <3>1, <3>2 DEF Witness, At
      <3>3. CASE k \notin Touched
        <4>1. hub'[k] = c
          BY <1>1, <2>2, <2>3, <2>8, <3>1, <3>3 DEF LinkRead
        <4>2. QED
          BY <2>3, <2>4, <3>3, <4>1 DEF Home
      <3>4. QED
        BY <3>2, <3>3
    <2>11. QED
      BY <1>1, <2>3, <2>6, <2>7, <2>9, <2>10, FoundKept DEF At
  <1>4. QED
    BY <1>2, <1>3

LEMMA PromoteFound ==
    ASSUME OwnInv, FoundInv, NEW r \in Requests, NEW x \in Prospects, Promote(r, x)
    PROVE  FoundInv'
  <1> DEFINE rec == [Idle EXCEPT !.op = "promote", !.at = "done"]
  <1>1. TypeInv /\ rec \in RequestStates /\ req' = [req EXCEPT ![r] = rec]
    BY DEF Promote, Idle, RequestStates, OwnInv, ErasedInv
  <1> HIDE DEF rec
  <1>2. OnlyMoves(r) /\ req'[r] = rec
    BY <1>1, Started
  <1>3. req'[r].at = "done" /\ req'[r].op = "promote"
    BY <1>2 DEF rec, Idle
  <1>4. /\ req[r].at = "idle" /\ stored \subseteq stored'
        /\ UNCHANGED <<hub, hubspot, gone, overlap>>
    BY DEF Promote
  <1>5. Touched' = Touched
    BY <1>2, <1>3, <1>4, TouchedSame DEF At
  <1>6. LinkRead(r)'
    BY <1>3 DEF LinkRead, Linking, Running, At, Erasing, Reads
  <1>7. \A s \in Requests : s # r /\ Running(s) /\ req[s].lead \in Leads =>
            Explained(s, req[s].lead)
    BY <1>4 DEF Explained
  <1>8. \A c \in hubspot : (Home(c) => Home(c)') /\ ~Witness(c, r)
    BY <1>4, <1>5 DEF Home, Witness, At
  <1>9. \A c \in hubspot \cap hubspot' : Home(c) \/ Witness(c, r) =>
            Home(c)' \/ \E y \in Requests : Witness(c, y)'
    BY <1>8
  <1>10. /\ ~At(r, "form", "done") /\ req[r].at # "done"
         /\ overlap \subseteq overlap' /\ gone \subseteq gone'
         /\ \A c \in hubspot' : c \in hubspot \/ Witness(c, r)'
    BY <1>4 DEF At
  <1>11. QED
    BY <1>2, <1>4, <1>6, <1>7, <1>9, <1>10, FoundKept

LEMMA MergeCommitFound ==
    ASSUME OwnInv, FoundInv, NEW r \in Requests, MergeCommit(r)
    PROVE  FoundInv'
  <1>1. PICK k : k = req[r].lead
    OBVIOUS
  <1>2. /\ At(r, "merge", "read") /\ k \in stored /\ OnlyMoves(r)
        /\ req'[r].at = "done" /\ req'[r].op = "merge"
        /\ UNCHANGED <<stored, hubspot, gone, overlap>>
        /\ \A l \in Leads : l # k => hub'[l] = hub[l]
        /\ hub'[k] = IF req[r].hub = None THEN hub[k] ELSE req[r].hub
        /\ req[r].hub # None => k \in Touched'
        /\ req[r].hub = None => Touched' = Touched
        /\ Touched' \subseteq Touched \cup {k}
    BY <1>1, MergeRow
  <1>3. LinkRead(r)' /\ LinkRead(r)
    BY <1>2 DEF LinkRead, Linking, Running, At, Erasing, Reads, FoundInv
  <1>4. \A s \in Requests : s # r /\ Running(s) /\ req[s].lead \in Leads =>
            Explained(s, req[s].lead)
    BY <1>2 DEF Explained
  <1>5. ASSUME NEW c \in hubspot, Home(c)
        PROVE  Home(c)' \/ \E x \in Requests : Witness(c, x)'
    <2>1. PICK l \in stored \ Touched : hub[l] = c
      BY <1>5 DEF Home
    <2>2. l \in Leads /\ c # None
      BY NoneAssumption DEF OwnInv, ErasedInv, TypeInv, TypeOK
    <2>3. CASE l # k \/ req[r].hub = None
      <3>1. l \in stored' \ Touched' /\ hub'[l] = c
        BY <1>2, <2>1, <2>2, <2>3
      <3>2. QED
        BY <3>1 DEF Home
    <2>4. CASE l = k /\ req[r].hub # None
      <3>1. Linked(k, c)
        BY <1>1, <1>2, <1>3, <2>1, <2>2, <2>4 DEF LinkRead
      <3>2. PICK s \in Requests :
                At(s, "form", "done") /\ req[s].contact = c /\ req[s].lead = k
        BY <3>1 DEF Linked
      <3>3. req'[s] = req[s]
        BY <1>2, <3>2 DEF OnlyMoves, At
      <3>4. Witness(c, s)'
        BY <1>2, <2>4, <3>2, <3>3 DEF Witness, At
      <3>5. QED
        BY <3>4
    <2>5. QED
      BY <2>3, <2>4
  <1>6. \A c \in hubspot : ~Witness(c, r)
    BY <1>2 DEF Witness, At, Erasing
  <1>7. \A c \in hubspot \cap hubspot' : Home(c) \/ Witness(c, r) =>
            Home(c)' \/ \E x \in Requests : Witness(c, x)'
    BY <1>5, <1>6
  <1>8. /\ ~At(r, "form", "done") /\ req[r].at # "done"
        /\ stored \subseteq stored' /\ overlap \subseteq overlap' /\ gone \subseteq gone'
        /\ \A c \in hubspot' : c \in hubspot \/ Witness(c, r)'
    BY <1>2 DEF At
  <1>9. QED
    BY <1>2, <1>3, <1>4, <1>7, <1>8, FoundKept

\* The contact a PATCH takes from a row is the one it had loaded, or one that a
\* form has written since.
LEMMA PatchCommitFound ==
    ASSUME OwnInv, FoundInv, NEW r \in Requests, PatchCommit(r)
    PROVE  FoundInv'
  <1>1. PICK k : k = req[r].lead
    OBVIOUS
  <1>2. /\ At(r, "patch", "read") /\ k \in stored /\ OnlyMoves(r)
        /\ req'[r].at = "done" /\ req'[r].op = "patch"
        /\ req'[r].hub = req[r].hub /\ req'[r].contact = req[r].contact
        /\ UNCHANGED <<stored, hubspot, gone, overlap>>
        /\ \A l \in Leads : l # k => hub'[l] = hub[l]
        /\ hub'[k] = IF req[r].contact = req[r].hub THEN hub[k] ELSE req[r].contact
        /\ req[r].contact # req[r].hub => k \in Touched'
        /\ req[r].contact = req[r].hub => Touched' = Touched
        /\ Touched' \subseteq Touched \cup {k}
    BY <1>1, PatchRow DEF OwnInv, ErasedInv
  <1>3. LinkRead(r)' /\ LinkRead(r) /\ Running(r) /\ Reads(req[r].op)
    BY <1>2 DEF LinkRead, Linking, Running, At, Erasing, Reads, FoundInv
  <1>4. \A s \in Requests : s # r /\ Running(s) /\ req[s].lead \in Leads =>
            Explained(s, req[s].lead)
    BY <1>2 DEF Explained
  <1>5. ASSUME NEW c \in hubspot, Home(c)
        PROVE  Home(c)' \/ \E x \in Requests : Witness(c, x)'
    <2>1. PICK l \in stored \ Touched : hub[l] = c
      BY <1>5 DEF Home
    <2>2. l \in Leads /\ c # None
      BY NoneAssumption DEF OwnInv, ErasedInv, TypeInv, TypeOK
    <2>3. CASE l # k \/ req[r].contact = req[r].hub
      <3>1. l \in stored' \ Touched' /\ hub'[l] = c
        BY <1>2, <2>1, <2>2, <2>3
      <3>2. QED
        BY <3>1 DEF Home
    <2>4. CASE l = k /\ req[r].contact # req[r].hub /\ req[r].hub = c
      <3>1. Witness(c, r)'
        BY <1>2, <2>4 DEF Witness, At
      <3>2. QED
        BY <3>1
    <2>5. CASE l = k /\ req[r].contact # req[r].hub /\ req[r].hub # c
      <3>1. Linked(k, c)
        BY <1>1, <1>3, <2>1, <2>2, <2>5 DEF LinkRead
      <3>2. PICK s \in Requests :
                At(s, "form", "done") /\ req[s].contact = c /\ req[s].lead = k
        BY <3>1 DEF Linked
      <3>3. req'[s] = req[s]
        BY <1>2, <3>2 DEF OnlyMoves, At
      <3>4. Witness(c, s)'
        BY <1>2, <2>5, <3>2, <3>3 DEF Witness, At
      <3>5. QED
        BY <3>4
    <2>6. QED
      BY <2>3, <2>4, <2>5
  <1>6. \A c \in hubspot : ~Witness(c, r)
    BY <1>2 DEF Witness, At, Erasing
  <1>7. \A c \in hubspot \cap hubspot' : Home(c) \/ Witness(c, r) =>
            Home(c)' \/ \E x \in Requests : Witness(c, x)'
    BY <1>5, <1>6
  <1>8. /\ ~At(r, "form", "done") /\ req[r].at # "done"
        /\ stored \subseteq stored' /\ overlap \subseteq overlap' /\ gone \subseteq gone'
        /\ \A c \in hubspot' : c \in hubspot \/ Witness(c, r)'
    BY <1>2 DEF At
  <1>9. QED
    BY <1>2, <1>3, <1>4, <1>7, <1>8, FoundKept

LEMMA OverwriteFound ==
    ASSUME OwnInv, FoundInv, NEW r \in Requests, Redact(r) \/ RedactRow(r)
    PROVE  FoundInv'
  <1>1. /\ TypeInv /\ Erasing(req[r].op) /\ Overwrite(r) /\ req[r].at = "redact"
        /\ Running(r) /\ LinkRead(r) /\ UNCHANGED <<hubspot, gone>>
    BY DEF OwnInv, ErasedInv, FoundInv, Redact, RedactRow, At, Erasing, Running, Overwrite
  <1>2. CASE Goto(r, "failed")
    <2>1. OnlyMoves(r) /\ req'[r].at = "failed" /\ req'[r].op = req[r].op
      BY <1>1, <1>2, MovedOnFields
    <2>2. ~Goto(r, "done")
      BY <1>1, <2>1, MovedOnFields
    <2>3. UNCHANGED <<stored, hub, overlap>>
      BY <1>1, <2>2 DEF Overwrite, rows
    <2>4. LinkRead(r)' /\ ~Relinks(r)'
      BY <1>1, <2>1 DEF Relinks, LinkRead, Linking, Running, At, Erasing, Reads
    <2>5. \A c \in hubspot : ~Witness(c, r)
      BY <1>1 DEF Witness, At
    <2>6. QED
      BY <1>1, <2>1, <2>3, <2>4, <2>5, FoundPlain
  <1>3. CASE ~Goto(r, "failed")
    <2>1. PICK k : k = req[r].lead
      OBVIOUS
    <2>2. /\ k \in stored /\ OnlyMoves(r) /\ req'[r].at = "done" /\ req'[r].op = req[r].op
          /\ req'[r].hub = req[r].hub
          /\ UNCHANGED <<stored, hubspot, gone>>
          /\ overlap \subseteq overlap' /\ overlap' \subseteq overlap \cup {k}
          /\ \A l \in Leads : l # k => hub'[l] = hub[l]
          /\ req[r].hub # hub[k] => k \in overlap'
          /\ \A s \in Requests \ {r} : Loaded(s, k) => k \in overlap'
      BY <1>1, <1>3, <2>1, OverwriteRow
    <2>3. overlap' \subseteq Touched' /\ Touched' \subseteq Touched \cup {k}
      BY <1>1, <2>2 DEF Touched, Relinked, Patched, OnlyMoves, At, Erasing
    <2>4. LinkRead(r)'
      BY <1>1, <2>2 DEF LinkRead, Linking, Running, At, Erasing, Reads
    <2>5. \A s \in Requests : s # r /\ Running(s) /\ req[s].lead \in Leads =>
              Explained(s, req[s].lead)
      BY <2>2, <2>3 DEF Explained, Loaded
    <2>6. ASSUME NEW c \in hubspot, Home(c)
          PROVE  Home(c)' \/ \E x \in Requests : Witness(c, x)'
      <3>1. PICK l \in stored \ Touched : hub[l] = c
        BY <2>6 DEF Home
      <3>2. l \in Leads /\ c # None
        BY <1>1, NoneAssumption DEF TypeInv, TypeOK
      <3>3. CASE l # k
        <4>1. l \in stored' \ Touched' /\ hub'[l] = c
          BY <2>2, <2>3, <3>1, <3>2, <3>3
        <4>2. QED
          BY <4>1 DEF Home
      <3>4. CASE l = k /\ req[r].hub = c
        <4>1. Witness(c, r)'
          BY <1>1, <2>2, <3>4 DEF Witness
        <4>2. QED
          BY <4>1
      <3>5. CASE l = k /\ req[r].hub # c
        <4>1. Linked(k, c) /\ k \in Touched'
          BY <1>1, <2>1, <2>2, <2>3, <3>1, <3>2, <3>5 DEF LinkRead, Reads
        <4>2. PICK s \in Requests :
                  At(s, "form", "done") /\ req[s].contact = c /\ req[s].lead = k
          BY <4>1 DEF Linked
        <4>3. req'[s] = req[s]
          BY <1>1, <2>2, <4>2 DEF OnlyMoves, At
        <4>4. Witness(c, s)'
          BY <4>1, <4>2, <4>3 DEF Witness, At
        <4>5. QED
          BY <4>4
      <3>6. QED
        BY <3>3, <3>4, <3>5
    <2>7. \A c \in hubspot : ~Witness(c, r)
      BY <1>1 DEF Witness, At, Erasing
    <2>8. \A c \in hubspot \cap hubspot' : Home(c) \/ Witness(c, r) =>
              Home(c)' \/ \E x \in Requests : Witness(c, x)'
      BY <2>6, <2>7
    <2>9. /\ ~At(r, "form", "done") /\ req[r].at # "done"
          /\ stored \subseteq stored' /\ gone \subseteq gone'
          /\ \A c \in hubspot' : c \in hubspot \/ Witness(c, r)'
      BY <1>1, <2>2 DEF At
    <2>10. QED
      BY <2>2, <2>4, <2>5, <2>8, <2>9, FoundKept
  <1>4. QED
    BY <1>2, <1>3

LEMMA EraseContactFound ==
    ASSUME OwnInv, FoundInv, NEW r \in Requests, EraseContact(r)
    PROVE  FoundInv'
  <1>1. /\ At(r, "erase", "read") /\ TypeInv /\ LinkRead(r) /\ Running(r)
        /\ UNCHANGED <<stored, hub, overlap>>
        /\ hubspot' \subseteq hubspot /\ gone \subseteq gone'
    BY DEF EraseContact, OwnInv, ErasedInv, FoundInv, rows, Running, At
  <1>2. PICK place \in {"redact", "failed"} : Goto(r, place)
    BY DEF EraseContact
  <1>3. /\ OnlyMoves(r) /\ req'[r].at = place /\ req'[r].op = "erase"
        /\ req'[r].lead = req[r].lead /\ req'[r].hub = req[r].hub
    BY <1>1, <1>2, MovedOnFields DEF At
  <1>4. Touched \subseteq Touched'
    BY <1>1, <1>3, TouchedGrows DEF At
  <1>5. PICK l : l = req[r].lead
    OBVIOUS
  <1>6. l \in Touched' \/ hub[l] \in {None, req[r].hub} \/ Linked(l, hub[l])'
    <2>1. Linked(l, hub[l]) => Linked(l, hub[l])'
      <3>1. PICK c : c = hub[l]
        OBVIOUS
      <3>2. Linked(l, c) => Linked(l, c)'
        BY <1>1, <1>3, LinkedKept DEF At
      <3>3. QED
        BY <1>1, <3>1, <3>2 DEF Linked
    <2>2. QED
      BY <1>1, <1>4, <1>5, <2>1 DEF LinkRead, At, Erasing, Reads
  <1>7. Linked(l, hub[l])' => Linked(req[r].lead, hub[req[r].lead])'
    BY <1>3, <1>5 DEF Linked, At
  <1>8. LinkRead(r)' /\ ~Relinks(r)'
    BY <1>1, <1>3, <1>5, <1>6, <1>7 DEF Relinks, LinkRead, Linking, At, Erasing, Reads
  <1>9. \A c \in hubspot : ~Witness(c, r)
    BY <1>1 DEF Witness, At
  <1>10. \A c \in hubspot' : c \in hubspot
    BY <1>1
  <1>11. QED
    BY <1>1, <1>3, <1>8, <1>9, <1>10, FoundPlain DEF At

\* A request that loads a row, or ends without one.
LEMMA LoadFound ==
    ASSUME OwnInv, FoundInv, NEW r \in Requests, OnlyMoves(r),
           UNCHANGED <<stored, hub, hubspot, gone>>,
           req[r].at \in {"idle", "read"}, ~Relinks(r)',
           overlap \subseteq overlap', \A l \in overlap' \ overlap : hub[l] = None,
           LinkRead(r)'
    PROVE  FoundInv'
  <1>1. \A c \in hubspot : ~Witness(c, r)
    BY DEF Witness, At
  <1>2. QED
    BY <1>1, FoundPlain

LEMMA FoundStep == OwnInv /\ OwnInv' /\ FoundInv /\ [Next]_vars => FoundInv'
  <1> SUFFICES ASSUME OwnInv, OwnInv', FoundInv, [Next]_vars PROVE FoundInv'
    OBVIOUS
  <1>0. TypeInv /\ TypeInv' /\ None \notin stored
    BY NoneAssumption DEF OwnInv, ErasedInv, TypeInv, TypeOK
  <1>1. ASSUME NEW r \in Requests, NEW p \in People, FormLookup(r, p) PROVE FoundInv'
    <2>1. /\ OnlyMoves(r) /\ req'[r].op = "form" /\ req'[r].at = "read"
          /\ req'[r].contact = None
          /\ \/ req'[r].hub = None
             \/ req'[r].lead \in stored /\ req'[r].hub = hub[req'[r].lead]
      BY <1>0, <1>1, FormLookupStep
    <2>2. UNCHANGED <<stored, hub, hubspot, gone, overlap>> /\ req[r].at = "idle"
      BY <1>1 DEF FormLookup, rows
    <2>3. LinkRead(r)' /\ ~Relinks(r)'
      BY <2>1, <2>2 DEF Relinks, LinkRead, Linking, Running, At, Erasing, Reads
    <2>4. QED
      BY <2>1, <2>2, <2>3, LoadFound
  <1>2. ASSUME NEW r \in Requests, NEW s \in stored, NEW t \in stored, MergeLoad(r, s, t)
        PROVE  FoundInv'
    <2>1. /\ OnlyMoves(r) /\ req'[r].op = "merge" /\ req'[r].at \in {"read", "failed"}
          /\ req'[r].lead = t
          /\ req'[r].hub = IF hub[t] = None THEN hub[s] ELSE None
      BY <1>0, <1>2, MergeLoadStep
    <2>2. /\ UNCHANGED <<stored, hub, hubspot, gone>> /\ req[r].at = "idle"
          /\ overlap' = IF email[t] = Redacted THEN overlap \cup {t} ELSE overlap
      BY <1>2 DEF MergeLoad, rows
    <2>3. \A l \in overlap' \ overlap : hub[l] = None
      BY <2>2 DEF OwnInv, ErasedInv, Erased, Cleaned
    <2>4. LinkRead(r)' /\ ~Relinks(r)'
      BY <2>1, <2>2 DEF Relinks, LinkRead, Linking, Running, At, Erasing, Reads
    <2>5. QED
      BY <2>1, <2>2, <2>3, <2>4, LoadFound
  <1>3. ASSUME NEW r \in Requests, NEW l \in stored, EraseLoad(r, l) \/ EraseRowLoad(r, l)
        PROVE  FoundInv'
    <2>1. PICK op \in {"erase", "eraseRow"}, place \in {"read", "redact"} :
              Loading(r, l, op, place)
      BY <1>3 DEF EraseLoad, EraseRowLoad
    <2>2. /\ OnlyMoves(r) /\ req'[r].op = op /\ req'[r].at = place
          /\ req'[r].lead = l /\ req'[r].hub = hub[l]
      BY <1>0, <2>1, LoadingStep
    <2>3. UNCHANGED <<stored, hub, hubspot, gone, overlap>> /\ req[r].at = "idle"
      BY <2>1 DEF Loading, rows
    <2>4. LinkRead(r)' /\ ~Relinks(r)'
      BY <2>2, <2>3 DEF Relinks, LinkRead, Linking, Running, At, Erasing, Reads
    <2>5. QED
      BY <2>2, <2>3, <2>4, LoadFound
  <1>4. ASSUME NEW r \in Requests, NEW c \in Contacts, EventLoad(r, c) PROVE FoundInv'
    <2>1. OnlyMoves(r) /\ req'[r].op = "event"
      BY <1>0, <1>4, EventLoadStep
    <2>2. UNCHANGED <<stored, hub, hubspot, gone, overlap>> /\ req[r].at = "idle"
      BY <1>4 DEF EventLoad, rows
    <2>3. LinkRead(r)' /\ ~Relinks(r)'
      BY <2>1 DEF Relinks, LinkRead, Linking, Running, At, Erasing, Reads
    <2>4. QED
      BY <2>1, <2>2, <2>3, LoadFound
  <1>5. ASSUME NEW r \in Requests, FormFlush(r) PROVE FoundInv'
    <2>1. /\ OnlyMoves(r) /\ req[r].op = "form" /\ req[r].at = "read"
          /\ req'[r].op = "form" /\ req'[r].hub = req[r].hub
          /\ \/ req'[r].at = "failed"
             \/ /\ req'[r].at = "flushed"
                /\ req'[r].lead = req[r].lead \/ req[r].lead = None
      BY <1>0, <1>5, FormFlushStep
    <2>2. UNCHANGED <<stored, hub, hubspot, gone, overlap>>
      BY <1>5 DEF FormFlush, rows
    <2>3. Linking(r) /\ LinkRead(r)
      BY <2>1 DEF Linking, Running, FoundInv
    <2>4. Touched \subseteq Touched'
      BY <2>1, <2>2, TouchedGrows DEF At
    <2>5. req'[r].hub # None =>
              /\ req[r].lead \in stored
              /\ req[r].lead \in Touched' \/ req[r].hub \in gone \cup {hub[req[r].lead]}
      BY <2>1, <2>3, <2>4 DEF LinkRead
    <2>6. LinkRead(r)' /\ ~Relinks(r)'
      BY <1>0, <2>1, <2>2, <2>5 DEF Relinks, LinkRead, Linking, Running, At, Erasing, Reads
    <2>7. QED
      BY <2>1, <2>2, <2>6, LoadFound
  <1>6. ASSUME NEW r \in Requests, EventCommit(r) PROVE FoundInv'
    <2>1. At(r, "event", "read") /\ UNCHANGED <<stored, hub, hubspot, gone, overlap>>
      BY <1>6 DEF EventCommit
    <2>2. OnlyMoves(r) /\ req'[r].op = "event"
      BY <1>0, <1>6, <2>1, MovedOnFields DEF EventCommit, At
    <2>3. LinkRead(r)' /\ ~Relinks(r)'
      BY <2>2 DEF Relinks, LinkRead, Linking, Running, At, Erasing, Reads
    <2>4. QED
      BY <2>1, <2>2, <2>3, LoadFound DEF At
  <1>7. ASSUME NEW r \in Requests, NEW l \in stored, NEW c \in Contacts \cup {None},
               PatchLoad(r, l, c)
        PROVE  FoundInv'
    <2>1. /\ OnlyMoves(r) /\ req'[r].op = "patch" /\ req'[r].at = "read"
          /\ req'[r].lead = l /\ req'[r].hub = hub[l]
      BY <1>0, <1>7, PatchLoadStep
    <2>2. /\ UNCHANGED <<stored, hub, hubspot, gone>> /\ req[r].at = "idle"
          /\ overlap' = IF email[l] = Redacted /\ c # None THEN overlap \cup {l} ELSE overlap
      BY <1>7 DEF PatchLoad, rows
    <2>3. \A k \in overlap' \ overlap : hub[k] = None
      BY <2>2 DEF OwnInv, ErasedInv, Erased, Cleaned
    <2>4. LinkRead(r)' /\ ~Relinks(r)'
      BY <2>1, <2>2 DEF Relinks, LinkRead, Linking, Running, At, Erasing, Reads
    <2>5. overlap \subseteq overlap'
      BY <2>2
    <2>6. QED
      BY <2>1, <2>2, <2>3, <2>4, <2>5, LoadFound
  <1>8. CASE UNCHANGED vars
    <2>1. UNCHANGED <<stored, hub, hubspot, gone, req, overlap>>
      BY <1>8 DEF vars, rows
    <2>2. Touched' = Touched
      BY <2>1 DEF Touched, Relinked, Patched, At
    <2>3. \A r \in Requests : Linked(req[r].lead, hub[req[r].lead])'
                              <=> Linked(req[r].lead, hub[req[r].lead])
      BY <2>1 DEF Linked, At
    <2>4. \A r \in Requests : LinkRead(r) => LinkRead(r)'
      BY <2>1, <2>2, <2>3 DEF LinkRead, Linking, Running, At
    <2>5. \A c : /\ Home(c) => Home(c)'
                 /\ \A r \in Requests : Witness(c, r) => Witness(c, r)'
      BY <2>1, <2>2 DEF Home, Witness, At
    <2>6. QED
      BY <2>1, <2>4, <2>5 DEF FoundInv
  <1>9. QED
    BY <1>1, <1>2, <1>3, <1>4, <1>5, <1>6, <1>7, <1>8, FormSyncFound, FormCommitFound,
       PromoteFound, MergeCommitFound, PatchCommitFound, EraseContactFound, OverwriteFound
       DEF Next, Begin, Work

LEMMA FoundOrphan == FoundInv => OrphanExplained
  <1> SUFFICES ASSUME FoundInv, NEW c \in hubspot, \A l \in stored : hub[l] # c
               PROVE  \E r \in Requests :
                         \/ req[r].op = "form" /\ req[r].contact = c
                              /\ req[r].at \in {"synced", "failed"}
                         \/ At(r, "form", "done") /\ req[r].contact = c
                              /\ req[r].lead \in overlap \cup Relinked \cup Patched
                         \/ At(r, "patch", "done") /\ req[r].hub = c /\ req[r].contact # c
                         \/ req[r].op \in {"erase", "eraseRow"} /\ req[r].hub = c
                              /\ req[r].at = "done"
    BY DEF OrphanExplained
  <1>1. PICK r \in Requests : Witness(c, r)
    BY DEF FoundInv, Home
  <1>2. QED
    BY <1>1 DEF Witness, Touched, Erasing

\* The contacts the rows name and those HubSpot has agree but for a merge, a
\* PATCH of the contact, a form that failed or was overtaken, and an erasure that
\* was refused, is under way or was raced, for any people, restaurants and
\* requests.
THEOREM ContactsAgree == Spec => []ContactsExplained
  <1> DEFINE Inv == OwnInv /\ GoneInv /\ FoundInv
  <1>1. Init => Inv
    BY OwnInit, FoundInit
  <1>2. Inv /\ [Next]_vars => Inv'
    BY OwnStep, GoneStep, FoundStep
  <1>3. Inv => ContactsExplained
    BY OwnShared, GoneDangling, FoundOrphan DEF ContactsExplained
  <1>4. QED
    BY <1>1, <1>2, <1>3, PTL DEF Spec

-----------------------------------------------------------------------------
(* Nobody waits for ever.  A form holds its row and, if its match is certain, *)
(* its restaurant while it calls HubSpot.  A restaurant has one holder, so    *)
(* that of the forms which have flushed one can go on; without them nothing   *)
(* is locked, and a person whose address no row has can still get one.        *)

\* Where a request under way can be.
Placed(r) ==
    Running(r) => \/ req[r].op = "form" /\ req[r].at \in {"read", "flushed", "synced"}
                  \/ req[r].op \in {"merge", "patch"} /\ req[r].at = "read"
                  \/ req[r].op = "erase" /\ req[r].at \in {"read", "redact"}
                  \/ req[r].op = "eraseRow" /\ req[r].at = "redact"
                  \/ req[r].op = "event" /\ req[r].at = "read"

OneHolder ==
    \A r, s \in Requests, x \in Prospects : Holds(r, x) /\ Holds(s, x) => r = s

\* The row a form has flushed and not committed is its person's.
NewRowIsOwn(r) ==
    req[r].op = "form" /\ Running(r) =>
        req[r].lead \in stored \cup {None} \cup ({req[r].who} \X {1, 2})

\* A person's row has the person's address until it is erased; one row at most is.
Addresses ==
    /\ \A l \in stored : l \in Contacts => email[l] \in {l[1], Redacted}
    /\ \A k, l \in stored : email[k] = Redacted /\ email[l] = Redacted => k = l

MovesInv ==
    /\ ErasedInv
    /\ \A r \in Requests : Placed(r) /\ NewRowIsOwn(r)
    /\ OneHolder
    /\ Addresses

LEMMA MovesInit == Init => MovesInv
  <1> SUFFICES ASSUME Init PROVE MovesInv
    OBVIOUS
  <1>1. ErasedInv
    BY ErasedInit
  <1>2. \A r \in Requests : ~Running(r) /\ ~Flushed(r)
    BY DEF Init, Idle, Running, Flushed, At
  <1>3. OneHolder /\ \A r \in Requests : Placed(r) /\ NewRowIsOwn(r)
    BY <1>2 DEF OneHolder, Holds, Placed, NewRowIsOwn
  <1>4. Addresses
    <2>1. PICK known \in SUBSET People : \E synced, matched \in SUBSET known :
              StoredBefore(known, synced, matched)
      BY DEF Init
    <2>2. stored = known \X {1} /\ email = [l \in Leads |-> IF l \in stored THEN l[1] ELSE None]
      BY <2>1 DEF StoredBefore
    <2>3. \A l \in known \X {1} : l[1] \in People /\ l \in Leads
      BY DEF Leads, Contacts
    <2>4. \A l \in stored : email[l] = l[1] /\ email[l] # Redacted
      BY <2>2, <2>3, LeadAssumption
    <2>5. QED
      BY <2>4 DEF Addresses
  <1>5. QED
    BY <1>1, <1>3, <1>4 DEF MovesInv

\* A step of r: it may come to hold a restaurant that no other form holds.
LEMMA MovesKept ==
    ASSUME MovesInv, ErasedInv', NEW r \in Requests, OnlyMoves(r), stored \subseteq stored',
           Placed(r)', NewRowIsOwn(r)', Addresses',
           \A x \in Prospects : Holds(r, x)' => Holds(r, x) \/ ~RestLocked(x, r)
    PROVE  MovesInv'
  <1>1. ASSUME NEW s \in Requests, s # r
        PROVE  /\ Placed(s)' /\ NewRowIsOwn(s)'
               /\ \A x \in Prospects : Holds(s, x)' <=> Holds(s, x)
    <2>1. req'[s] = req[s] /\ Placed(s) /\ NewRowIsOwn(s)
      BY <1>1 DEF OnlyMoves, MovesInv
    <2>2. Placed(s)' /\ NewRowIsOwn(s)'
      BY <2>1 DEF Placed, NewRowIsOwn, Running
    <2>3. \A x \in Prospects : Holds(s, x)' <=> Holds(s, x)
      BY <2>1 DEF Holds, Flushed, At
    <2>4. QED
      BY <2>2, <2>3
  <1>2. ASSUME NEW s \in Requests, s # r, NEW x \in Prospects, Holds(r, x)' PROVE ~Holds(s, x)'
    <2>1. CASE Holds(r, x)
      BY <1>1, <1>2, <2>1 DEF MovesInv, OneHolder
    <2>2. CASE ~RestLocked(x, r)
      BY <1>1, <1>2, <2>2 DEF RestLocked
    <2>3. QED
      BY <1>2, <2>1, <2>2
  <1>3. OneHolder'
    <2>1. ASSUME NEW s \in Requests, NEW t \in Requests, NEW x \in Prospects,
                 Holds(s, x)', Holds(t, x)'
          PROVE  s = t
      BY <1>1, <1>2, <2>1 DEF MovesInv, OneHolder
    <2>2. QED
      BY <2>1 DEF OneHolder
  <1>4. QED
    BY <1>1, <1>3 DEF MovesInv

\* A step that takes no lock and writes no address.
LEMMA MovesPlain ==
    ASSUME MovesInv, ErasedInv', NEW r \in Requests, OnlyMoves(r),
           UNCHANGED <<stored, email>>, Placed(r)', NewRowIsOwn(r)', ~Flushed(r)'
    PROVE  MovesInv'
  <1>1. \A x \in Prospects : ~Holds(r, x)'
    BY DEF Holds
  <1>2. Addresses'
    BY DEF MovesInv, Addresses
  <1>3. QED
    BY <1>1, <1>2, MovesKept

LEMMA FormFlushMoves ==
    ASSUME MovesInv, ErasedInv', NEW r \in Requests, FormFlush(r)
    PROVE  MovesInv'
  <1>0. TypeInv
    BY DEF MovesInv, ErasedInv
  <1>1. /\ OnlyMoves(r) /\ req[r].op = "form" /\ req[r].at = "read"
        /\ req'[r].op = "form" /\ req'[r].who = req[r].who /\ req[r].who \in People
        /\ \/ req'[r].at = "failed"
           \/ /\ req'[r].at = "flushed"
              /\ \/ req'[r].lead = req[r].lead /\ req[r].lead # None
                 \/ req'[r].lead \in ({req[r].who} \X {1, 2}) \ stored
    BY <1>0, FormFlushStep
  <1>2. UNCHANGED <<stored, email>>
    BY DEF FormFlush, rows
  <1>3. Placed(r)'
    BY <1>1 DEF Placed, Running
  <1>4. NewRowIsOwn(r)'
    BY <1>1, <1>2 DEF MovesInv, NewRowIsOwn, Running
  <1>5. Addresses'
    BY <1>2 DEF MovesInv, Addresses
  <1>6. ASSUME NEW x \in Prospects, Holds(r, x)' PROVE ~RestLocked(x, r)
    BY <1>1, <1>6 DEF FormFlush, FlushReady, Holds
  <1>7. QED
    BY <1>1, <1>2, <1>3, <1>4, <1>5, <1>6, MovesKept

LEMMA FormCommitMoves ==
    ASSUME MovesInv, ErasedInv', NEW r \in Requests, FormCommit(r)
    PROVE  MovesInv'
  <1>0. TypeInv
    BY DEF MovesInv, ErasedInv
  <1>1. /\ At(r, "form", "synced") /\ req[r].who \in People /\ req[r].lead \in Leads
    BY <1>0 DEF FormCommit, CommitReady, TypeInv, Equipped, At, Running, Flushed
  <1>2. PICK place \in {"failed", "done"} : Goto(r, place)
    BY DEF FormCommit
  <1>3. OnlyMoves(r) /\ req'[r].at = place
    BY <1>0, <1>2, MovedOnFields
  <1>4. Placed(r)' /\ NewRowIsOwn(r)' /\ ~Flushed(r)'
    BY <1>3 DEF Placed, NewRowIsOwn, Running, Flushed, At
  <1>5. CASE UNCHANGED rows
    BY <1>3, <1>4, <1>5, MovesPlain DEF rows
  <1>6. CASE ~UNCHANGED rows
    <2>1. PICK l \in Leads, p \in People : l = req[r].lead /\ p = req[r].who
      BY <1>1
    <2>2. /\ stored' = stored \cup {l}
          /\ email' = IF l \in stored THEN email ELSE [email EXCEPT ![l] = p]
      BY <1>6, <2>1 DEF FormCommit
    <2>3. l \notin stored => l \in {p} \X {1, 2}
      BY <1>1, <2>1, NoneAssumption DEF MovesInv, NewRowIsOwn, Running, At
    <2>4. email \in [Leads -> People \cup {None, Redacted}] /\ stored \subseteq Leads
      BY <1>0 DEF TypeInv, TypeOK
    <2>5. /\ l \notin stored => email'[l] = p /\ l[1] = p /\ p # Redacted
          /\ \A k \in stored : email'[k] = email[k]
      BY <2>2, <2>3, <2>4, LeadAssumption
    <2>6. Addresses'
      BY <2>2, <2>5 DEF MovesInv, Addresses
    <2>7. \A x \in Prospects : ~Holds(r, x)'
      BY <1>4 DEF Holds
    <2>8. QED
      BY <1>3, <1>4, <2>2, <2>6, <2>7, MovesKept
  <1>7. QED
    BY <1>5, <1>6

LEMMA PromoteMoves ==
    ASSUME MovesInv, ErasedInv', NEW r \in Requests, NEW x \in Prospects, Promote(r, x)
    PROVE  MovesInv'
  <1>0. TypeInv
    BY DEF MovesInv, ErasedInv
  <1> DEFINE rec == [Idle EXCEPT !.op = "promote", !.at = "done"]
  <1>1. rec \in RequestStates /\ req' = [req EXCEPT ![r] = rec]
    BY DEF Promote, Idle, RequestStates
  <1> HIDE DEF rec
  <1>2. OnlyMoves(r) /\ req'[r] = rec
    BY <1>0, <1>1, Started
  <1>3. req'[r].at = "done"
    BY <1>2 DEF rec, Idle
  <1>4. Placed(r)' /\ NewRowIsOwn(r)' /\ ~Flushed(r)'
    BY <1>3 DEF Placed, NewRowIsOwn, Running, Flushed, At
  <1>5. PICK l : l = <<x, 1>>
    OBVIOUS
  <1>6. stored' = stored \cup {l} /\ email' = email /\ l \notin stored
    BY <1>5 DEF Promote
  <1>7. l \in Leads /\ l \notin Contacts
    BY <1>5, LeadAssumption DEF Leads, Contacts
  <1>8. email[l] # Redacted
    BY <1>6, <1>7 DEF MovesInv, ErasedInv
  <1>9. Addresses'
    BY <1>6, <1>7, <1>8 DEF MovesInv, Addresses
  <1>10. \A y \in Prospects : ~Holds(r, y)'
    BY <1>4 DEF Holds
  <1>11. QED
    BY <1>2, <1>4, <1>6, <1>9, <1>10, MovesKept

LEMMA OverwriteMoves ==
    ASSUME MovesInv, ErasedInv', NEW r \in Requests, Erasing(req[r].op), Overwrite(r)
    PROVE  MovesInv'
  <1>0. TypeInv
    BY DEF MovesInv, ErasedInv
  <1>1. PICK place \in {"failed", "done"} : Goto(r, place)
    BY DEF Overwrite
  <1>2. OnlyMoves(r) /\ req'[r].at = place
    BY <1>0, <1>1, MovedOnFields
  <1>3. Placed(r)' /\ NewRowIsOwn(r)' /\ ~Flushed(r)'
    BY <1>2 DEF Placed, NewRowIsOwn, Running, Flushed, At
  <1>4. CASE UNCHANGED rows
    BY <1>2, <1>3, <1>4, MovesPlain DEF rows
  <1>5. CASE ~UNCHANGED rows
    <2>1. PICK l \in stored : l = req[r].lead
      BY <1>0 DEF TypeInv, Equipped
    <2>2. /\ ByEmail(Redacted) \subseteq {l} /\ email' = [email EXCEPT ![l] = Redacted]
          /\ stored' = stored
      BY <1>5, <2>1 DEF Overwrite
    <2>3. email \in [Leads -> People \cup {None, Redacted}] /\ stored \subseteq Leads
      BY <1>0 DEF TypeInv, TypeOK
    <2>4. /\ email'[l] = Redacted
          /\ \A k \in stored : k # l => email'[k] = email[k] /\ email[k] # Redacted
      BY <2>1, <2>2, <2>3 DEF ByEmail
    <2>5. Addresses'
      BY <2>2, <2>4 DEF MovesInv, Addresses
    <2>6. \A x \in Prospects : ~Holds(r, x)'
      BY <1>3 DEF Holds
    <2>7. QED
      BY <1>2, <1>3, <2>2, <2>5, <2>6, MovesKept
  <1>6. QED
    BY <1>4, <1>5

LEMMA MovesStep == MovesInv /\ ErasedInv' /\ [Next]_vars => MovesInv'
  <1> SUFFICES ASSUME MovesInv, ErasedInv', [Next]_vars PROVE MovesInv'
    OBVIOUS
  <1>0. TypeInv
    BY DEF MovesInv, ErasedInv
  <1>1. ASSUME NEW r \in Requests, NEW p \in People, FormLookup(r, p) PROVE MovesInv'
    <2>1. /\ OnlyMoves(r) /\ req'[r].op = "form" /\ req'[r].at = "read"
          /\ req'[r].lead \in stored \cup {None}
      BY <1>0, <1>1, FormLookupStep
    <2>2. UNCHANGED <<stored, email>>
      BY <1>1 DEF FormLookup, rows
    <2>3. Placed(r)' /\ NewRowIsOwn(r)' /\ ~Flushed(r)'
      BY <2>1, <2>2 DEF Placed, NewRowIsOwn, Flushed, At
    <2>4. QED
      BY <2>1, <2>2, <2>3, MovesPlain
  <1>2. ASSUME NEW r \in Requests, NEW s \in stored, NEW t \in stored, MergeLoad(r, s, t)
        PROVE  MovesInv'
    <2>1. OnlyMoves(r) /\ req'[r].op = "merge" /\ req'[r].at \in {"read", "failed"}
      BY <1>0, <1>2, MergeLoadStep
    <2>2. Placed(r)' /\ NewRowIsOwn(r)' /\ ~Flushed(r)' /\ UNCHANGED <<stored, email>>
      BY <1>2, <2>1 DEF Placed, NewRowIsOwn, Running, Flushed, At, MergeLoad, rows
    <2>3. QED
      BY <2>1, <2>2, MovesPlain
  <1>3. ASSUME NEW r \in Requests, NEW l \in stored, EraseLoad(r, l) \/ EraseRowLoad(r, l)
        PROVE  MovesInv'
    <2>1. PICK op \in {"erase", "eraseRow"}, place \in {"read", "redact"} :
              /\ Loading(r, l, op, place)
              /\ op = "eraseRow" => place = "redact"
      BY <1>3 DEF EraseLoad, EraseRowLoad
    <2>2. OnlyMoves(r) /\ req'[r].op = op /\ req'[r].at = place
      BY <1>0, <2>1, LoadingStep
    <2>3. Placed(r)' /\ NewRowIsOwn(r)' /\ ~Flushed(r)' /\ UNCHANGED <<stored, email>>
      BY <2>1, <2>2 DEF Placed, NewRowIsOwn, Flushed, At, Loading, rows
    <2>4. QED
      BY <2>2, <2>3, MovesPlain
  <1>4. ASSUME NEW r \in Requests, NEW c \in Contacts, EventLoad(r, c) PROVE MovesInv'
    <2>1. OnlyMoves(r) /\ req'[r].op = "event" /\ req'[r].at \in {"failed", "read"}
      BY <1>0, <1>4, EventLoadStep
    <2>2. Placed(r)' /\ NewRowIsOwn(r)' /\ ~Flushed(r)' /\ UNCHANGED <<stored, email>>
      BY <1>4, <2>1 DEF Placed, NewRowIsOwn, Running, Flushed, At, EventLoad, rows
    <2>3. QED
      BY <2>1, <2>2, MovesPlain
  <1>5. ASSUME NEW r \in Requests, FormSync(r) PROVE MovesInv'
    <2>1. /\ OnlyMoves(r) /\ req[r].op = "form" /\ req[r].at = "flushed"
          /\ req'[r].op = "form" /\ req'[r].who = req[r].who /\ req'[r].lead = req[r].lead
          /\ req'[r].at \in {"synced", "failed"}
      BY <1>0, <1>5, FormSyncStep
    <2>2. UNCHANGED <<stored, email>>
      BY <1>5 DEF FormSync, rows
    <2>3. Placed(r)' /\ \A x \in Prospects : Holds(r, x)' => Holds(r, x)
      BY <2>1 DEF Placed, Running, Holds, Flushed, At
    <2>4. NewRowIsOwn(r)'
      BY <2>1, <2>2 DEF MovesInv, NewRowIsOwn, Running
    <2>5. Addresses'
      BY <2>2 DEF MovesInv, Addresses
    <2>6. QED
      BY <2>1, <2>2, <2>3, <2>4, <2>5, MovesKept
  <1>6. ASSUME NEW r \in Requests, MergeCommit(r) \/ PatchCommit(r) \/ EventCommit(r)
        PROVE  MovesInv'
    <2>1. Goto(r, "done") /\ UNCHANGED <<stored, email>>
      BY <1>6 DEF MergeCommit, PatchCommit, EventCommit
    <2>2. OnlyMoves(r) /\ req'[r].at = "done"
      BY <1>0, <2>1, MovedOnFields
    <2>3. QED
      BY <2>1, <2>2, MovesPlain DEF Placed, NewRowIsOwn, Running, Flushed, At
  <1>7. ASSUME NEW r \in Requests, EraseContact(r) PROVE MovesInv'
    <2>1. PICK place \in {"redact", "failed"} : Goto(r, place)
      BY <1>7 DEF EraseContact
    <2>2. OnlyMoves(r) /\ req'[r].at = place /\ req'[r].op = "erase"
      BY <1>0, <1>7, <2>1, MovedOnFields DEF EraseContact, At
    <2>3. Placed(r)' /\ NewRowIsOwn(r)' /\ ~Flushed(r)' /\ UNCHANGED <<stored, email>>
      BY <1>7, <2>2 DEF Placed, NewRowIsOwn, Running, Flushed, At, EraseContact, rows
    <2>4. QED
      BY <2>2, <2>3, MovesPlain
  <1>8. ASSUME NEW r \in Requests, Redact(r) \/ RedactRow(r) PROVE MovesInv'
    BY <1>8, OverwriteMoves DEF Redact, RedactRow, At, Erasing
  <1>9. ASSUME NEW r \in Requests, NEW l \in stored, NEW c \in Contacts \cup {None},
               PatchLoad(r, l, c)
        PROVE  MovesInv'
    <2>1. OnlyMoves(r) /\ req'[r].op = "patch" /\ req'[r].at = "read"
      BY <1>0, <1>9, PatchLoadStep
    <2>2. Placed(r)' /\ NewRowIsOwn(r)' /\ ~Flushed(r)' /\ UNCHANGED <<stored, email>>
      BY <1>9, <2>1 DEF Placed, NewRowIsOwn, Running, Flushed, At, PatchLoad, rows
    <2>3. QED
      BY <2>1, <2>2, MovesPlain
  <1>10. CASE UNCHANGED vars
    <2>1. UNCHANGED <<stored, email, req>>
      BY <1>10 DEF vars, rows
    <2>2. OneHolder' /\ Addresses' /\ \A r \in Requests : Placed(r)' /\ NewRowIsOwn(r)'
      BY <2>1 DEF MovesInv, OneHolder, Addresses, Placed, NewRowIsOwn, Holds, Running, Flushed, At
    <2>3. QED
      BY <2>2 DEF MovesInv
  <1>11. QED
    BY <1>1, <1>2, <1>3, <1>4, <1>5, <1>6, <1>7, <1>8, <1>9, <1>10, FormFlushMoves,
       FormCommitMoves, PromoteMoves DEF Next, Begin, Work

\* While a form has flushed, one such form can go on.
LEMMA HolderMoves ==
    ASSUME MovesInv, NEW r \in Requests, Flushed(r)
    PROVE  \E s \in Requests : Ready(s)
  <1>1. CASE \E s \in Requests : At(s, "form", "flushed")
    BY <1>1 DEF Ready
  <1>2. CASE \A s \in Requests : ~At(s, "form", "flushed")
    <2>1. \A s \in Requests : Flushed(s) => At(s, "form", "synced")
      BY <1>2 DEF Flushed
    <2>2. CASE ~RestLocked(Matches[req[r].who], r)
      BY <2>1, <2>2 DEF Ready, CommitReady
    <2>3. CASE RestLocked(Matches[req[r].who], r)
      <3>1. PICK x : x = Matches[req[r].who]
        OBVIOUS
      <3>2. PICK s \in Requests : Holds(s, x)
        BY <2>3, <3>1 DEF RestLocked
      <3>3. At(s, "form", "synced") /\ Matches[req[s].who] = x
        BY <2>1, <3>2 DEF Holds
      <3>4. x \in Prospects
        <4>1. req[s].who \in People
          BY <3>2, LeadAssumption DEF Holds
        <4>2. QED
          BY <3>2, <3>3, <4>1, LeadAssumption DEF Holds
      <3>5. ~RestLocked(x, s)
        BY <3>2, <3>4 DEF RestLocked, MovesInv, OneHolder
      <3>6. QED
        BY <3>3, <3>5 DEF Ready, CommitReady
    <2>4. QED
      BY <2>2, <2>3
  <1>3. QED
    BY <1>1, <1>2

\* An address that no row has leaves its person a row to come back with.
LEMMA RowIsFree ==
    ASSUME MovesInv, NEW p \in People, ByEmail(p) = {}
    PROVE  Free(p) # {}
  <1>1. PICK k, l : k = <<p, 1>> /\ l = <<p, 2>>
    OBVIOUS
  <1>2. k \in Contacts /\ l \in Contacts /\ k[1] = p /\ l[1] = p /\ k # l
    BY <1>1 DEF Contacts
  <1>3. k \in stored => email[k] = Redacted
    BY <1>2 DEF MovesInv, Addresses, ByEmail
  <1>4. l \in stored => email[l] = Redacted
    BY <1>2 DEF MovesInv, Addresses, ByEmail
  <1>5. k \notin stored \/ l \notin stored
    BY <1>2, <1>3, <1>4 DEF MovesInv, Addresses
  <1>6. k \in {p} \X {1, 2} /\ l \in {p} \X {1, 2}
    BY <1>1
  <1>7. QED
    BY <1>5, <1>6 DEF Free

LEMMA MovesOn == MovesInv => SomeoneMoves
  <1> SUFFICES ASSUME MovesInv, NEW r \in Requests, Running(r)
               PROVE  \E s \in Requests : Ready(s)
    BY DEF SomeoneMoves
  <1>1. CASE \E s \in Requests : Flushed(s)
    BY <1>1, HolderMoves
  <1>2. CASE \A s \in Requests : ~Flushed(s)
    <2>1. (\A l : ~RowLocked(l)) /\ (\A x : ~RestLocked(x, r))
      BY <1>2 DEF RowLocked, RestLocked, Holds
    <2>2. Placed(r) /\ ~Flushed(r)
      BY <1>2 DEF MovesInv
    <2>3. CASE req[r].op = "form" /\ req[r].at = "read"
      <3>1. req[r].who \in People
        BY <2>3 DEF MovesInv, ErasedInv, TypeInv, Equipped, Running
      <3>2. ByEmail(req[r].who) = {} => Free(req[r].who) # {}
        BY <3>1, RowIsFree
      <3>3. FlushReady(r)
        BY <2>1, <2>3, <3>2 DEF FlushReady, At
      <3>4. QED
        BY <3>3 DEF Ready
    <2>4. CASE ~(req[r].op = "form" /\ req[r].at = "read")
      BY <2>1, <2>2, <2>4 DEF Placed, Ready, MergeReady, RowFree, Flushed, At
    <2>5. QED
      BY <2>3, <2>4
  <1>3. QED
    BY <1>1, <1>2

\* Whoever fills in forms, merges and erases at once, the requests never all
\* wait for each other: create_lead's locks are held by forms of which one can
\* go on (api/routers/leads.py).
THEOREM NobodyStuck == Spec => []SomeoneMoves
  <1>1. Init => ErasedInv /\ MovesInv
    BY ErasedInit, MovesInit
  <1>2. ErasedInv /\ MovesInv /\ [Next]_vars => (ErasedInv /\ MovesInv)'
    BY ErasedStep, MovesStep
  <1>3. QED
    BY <1>1, <1>2, MovesOn, PTL DEF Spec
=============================================================================
