----------------------------- MODULE LeadRecords -----------------------------
(***************************************************************************)
(* A lead's identity: the rows of leads and the HubSpot contact each row   *)
(* names.  Leads come in through the website form (src/src/api/routers/    *)
(* leads.py) and promotion, are merged (crm.py), given CRM references by   *)
(* PATCH, updated by HubSpot webhooks (src/src/tasks/hubspot_tasks.py) and *)
(* erased (compliance.py, leads.py).  No handler locks what it reads, each *)
(* writes only the columns it changed, and HubSpot is called in between: a *)
(* request is a sequence of steps, and its record keeps what it has read.  *)
(***************************************************************************)
EXTENDS Naturals, FiniteSets

CONSTANTS
    People,     \* who fill in the form; HubSpot keys contacts by their address
    Prospects,  \* restaurants
    Matches,    \* the restaurant of a person's company, or None
    Sure,       \* people whose match is certain enough to load its scores
    Requests,   \* bound: the requests and tasks that run, each once
    None, Redacted

\* Rows of people and of restaurants have identifiers of their own.
ASSUME LeadAssumption ==
    /\ Matches \in [People -> Prospects \cup {None}]
    /\ Sure \subseteq People
    /\ Redacted \notin People \cup {None}
    /\ None \notin People /\ People \cap Prospects = {}

\* Bound: a person comes back once, as a lead and as a contact.
Contacts == People \X {1, 2}
Leads    == Contacts \cup (Prospects \X {1})

ASSUME NoneAssumption == None \notin Contacts \cup Leads

VARIABLES
    stored,   \* leads that have a row, and its committed columns:
    email,    \*   unique address, or None, or Redacted
    data,     \*   whose personal data the row holds, and in which columns
    rest,     \*   the restaurant, unique unless None
    hub,      \*   the HubSpot contact the row names, or None
    into,     \*   the lead it is merged into, or None
    hubspot,  \* contacts HubSpot has
    gone,     \* contacts HubSpot has deleted
    req,      \* what each request is doing and what it has read
    overlap   \* leads whose erasure another request had the row loaded during,
              \* and erased leads a merge was asked to fill

\* The columns of a lead that tell a person (names, company, message, utm), and
\* those that tell the business: business_type, locations, interest.
Fields == {"person", "business"}

rows == <<stored, email, data, rest, hub, into>>
vars == <<rows, hubspot, gone, req, overlap>>

Idle == [op |-> "none", at |-> "idle", who |-> None, lead |-> None,
         source |-> None, hub |-> None, contact |-> None, data |-> {}]

\* Leads that were stored before: synced with HubSpot or not, and matched or
\* not (their restaurant may have been crawled after them).
StoredBefore(known, synced, matched) ==
    /\ \A p \in matched : Matches[p] # None
    /\ \A p, q \in matched : p # q => Matches[p] # Matches[q]
    /\ stored = known \X {1}
    /\ email = [l \in Leads |-> IF l \in stored THEN l[1] ELSE None]
    /\ data = [l \in Leads |-> IF l \in stored THEN {l[1]} \X Fields ELSE {}]
    /\ rest = [l \in Leads |-> IF l \in matched \X {1} THEN Matches[l[1]] ELSE None]
    /\ hub = [l \in Leads |-> IF l \in synced \X {1} THEN l ELSE None]
    /\ into = [l \in Leads |-> None]
    /\ hubspot = synced \X {1}
    /\ gone = {}

Init ==
    /\ \E known \in SUBSET People : \E synced, matched \in SUBSET known :
          StoredBefore(known, synced, matched)
    /\ req = [r \in Requests |-> Idle]
    /\ overlap = {}

At(r, op, place) == req[r].op = op /\ req[r].at = place
Goto(r, place)   == req' = [req EXCEPT ![r].at = place]
Running(r)       == req[r].at \notin {"idle", "done", "failed"}

-----------------------------------------------------------------------------
(* The database: unique keys, and the locks of forms that have flushed.    *)

Flushed(r)       == At(r, "form", "flushed") \/ At(r, "form", "synced")
RowLocked(l)     == \E r \in Requests : Flushed(r) /\ req[r].lead = l
RowFree(r)       == ~RowLocked(req[r].lead)
Holds(s, x)      == Flushed(s) /\ req[s].who \in Sure /\ x # None /\ Matches[req[s].who] = x
LockedForAll(x, r) == \E s \in Requests : Holds(s, x)
RestLocked(x, r) == \E s \in Requests \ {r} : Holds(s, x)

ByEmail(a)     == {l \in stored : email[l] = a}
RestTaken(x, l) == x # None /\ \E k \in stored \ {l} : rest[k] = x

-----------------------------------------------------------------------------
(* The website form: look up by address, flush, match, sync, commit.       *)

FormLookup(r, p) ==
    /\ req[r].at = "idle"
    /\ \/ \E l \in ByEmail(p) :
             req' = [req EXCEPT ![r] = [Idle EXCEPT !.op = "form", !.at = "read", !.who = p,
                                                   !.lead = l, !.hub = hub[l]]]
       \/ /\ ByEmail(p) = {}
          /\ req' = [req EXCEPT ![r] = [Idle EXCEPT !.op = "form", !.at = "read", !.who = p]]
    /\ UNCHANGED <<rows, hubspot, gone, overlap>>

Free(p) == {l \in {p} \X {1, 2} : l \notin stored}

\* The form waits for the row it found, for a new row with the same address,
\* and for the restaurant if its match is certain.
FlushReady(r) ==
    LET p == req[r].who IN
    /\ At(r, "form", "read")
    /\ ~RestLocked(Matches[p], r) \/ p \notin Sure
    /\ \/ req[r].lead # None /\ ~RowLocked(req[r].lead)
       \/ req[r].lead = None /\ ByEmail(p) # {}
       \/ req[r].lead = None /\ Free(p) # {} /\ \A l \in Free(p) : ~RowLocked(l)

\* A new row takes the address, unless a form of the same person has it: then
\* it waits for that form and fails.  A certain match flushes the restaurant too.
FormFlush(r) ==
    LET p == req[r].who IN
    /\ FlushReady(r)
    /\ \/ /\ req[r].lead # None
          /\ Goto(r, IF p \in Sure /\ RestTaken(Matches[p], req[r].lead)
                     THEN "failed" ELSE "flushed")
       \/ /\ req[r].lead = None /\ ByEmail(p) # {}
          /\ Goto(r, "failed")
       \/ /\ req[r].lead = None /\ ByEmail(p) = {}
          /\ \E l \in Free(p) :
                /\ l[2] = 2 => <<p, 1>> \in stored
                /\ req' = [req EXCEPT ![r].lead = l,
                             ![r].at = IF p \in Sure /\ RestTaken(Matches[p], l)
                                       THEN "failed" ELSE "flushed"]
    /\ UNCHANGED <<rows, hubspot, gone, overlap>>

\* What the search for the address finds, and the contact a create makes.
HitsAny(p) == hubspot
Hits(p)    == {c \in hubspot : c[1] = p}

FreshArchived(p) == {<<p, 1>>} \ hubspot
Fresh(p) == IF <<p, 1>> \in gone THEN {<<p, 2>>} \ gone ELSE {<<p, 1>>}

\* HubSpot finds the contact by address or creates it; it may answer an error,
\* and a call that keeps raising (after HubSpot did it or not) ends the request.
FormSync(r) ==
    LET p == req[r].who IN
    /\ At(r, "form", "flushed")
    /\ \/ \E c \in IF Hits(p) # {} THEN Hits(p) ELSE Fresh(p) :
             /\ hubspot' = hubspot \cup {c}
             /\ \/ req' = [req EXCEPT ![r].at = "synced", ![r].contact = c]
                \/ req' = [req EXCEPT ![r].at = "failed", ![r].contact = c]
       \/ /\ \E place \in {"synced", "failed"} : Goto(r, place)
          /\ UNCHANGED hubspot
    /\ UNCHANGED <<rows, gone, overlap>>

\* The contact is written unless the row had it when it was loaded.
LinkDropped(r) == hub
Link(r) ==
    IF req[r].contact \in {None, req[r].hub} THEN hub
    ELSE [hub EXCEPT ![req[r].lead] = req[r].contact]

CommitReady(r) == At(r, "form", "synced") /\ ~RestLocked(Matches[req[r].who], r)

\* The restaurant of an uncertain match is first written now, and may be taken.
\* Only the columns of the person have to be filled in.
FormCommit(r) ==
    LET p == req[r].who  l == req[r].lead IN
    /\ CommitReady(r)
    /\ \/ /\ RestTaken(Matches[p], l)
          /\ Goto(r, "failed")
          /\ UNCHANGED rows
       \/ /\ ~RestTaken(Matches[p], l)
          /\ Goto(r, "done")
          /\ stored' = stored \cup {l}
          /\ email' = IF l \in stored THEN email ELSE [email EXCEPT ![l] = p]
          /\ \E filled \in {{"person"}, Fields} : data' = [data EXCEPT ![l] = @ \cup {p} \X filled]
          /\ rest' = IF Matches[p] = None THEN rest ELSE [rest EXCEPT ![l] = Matches[p]]
          /\ hub' = Link(r)
          /\ UNCHANGED into
    /\ UNCHANGED <<hubspot, gone, overlap>>

-----------------------------------------------------------------------------
(* Promotion of a restaurant that no lead has yet: a lead without a person. *)

Promote(r, x) ==
    /\ req[r].at = "idle"
    /\ ~RestLocked(x, r)
    /\ \A l \in stored : rest[l] # x
    /\ <<x, 1>> \notin stored
    /\ stored' = stored \cup {<<x, 1>>}
    /\ rest' = [rest EXCEPT ![<<x, 1>>] = x]
    /\ req' = [req EXCEPT ![r] = [Idle EXCEPT !.op = "promote", !.at = "done"]]
    /\ UNCHANGED <<email, data, hub, into, hubspot, gone, overlap>>

-----------------------------------------------------------------------------
(* Merge: only the source is asked whether it was merged before.           *)

\* Whatever the target lacks it gets, as both were loaded.  A restaurant it
\* lacks the source keeps, so writing it breaks the unique key: the merge fails.
MergeLoad(r, s, t) ==
    /\ req[r].at = "idle"
    /\ s # t /\ into[s] = None
    /\ \E filled \in SUBSET Fields :
          req' = [req EXCEPT ![r] = [Idle EXCEPT !.op = "merge", !.lead = t, !.source = s,
                     !.at = IF rest[t] = None /\ rest[s] # None THEN "failed" ELSE "read",
                     !.hub = IF hub[t] = None THEN hub[s] ELSE None,
                     !.data = {d \in data[s] : d[2] \in filled}]]
    /\ overlap' = IF email[t] = Redacted THEN overlap \cup {t} ELSE overlap
    /\ UNCHANGED <<rows, hubspot, gone>>

MergeReady(r) == At(r, "merge", "read") /\ RowFree(r) /\ ~RowLocked(req[r].source)

MergeCommit(r) ==
    LET s == req[r].source  t == req[r].lead IN
    /\ MergeReady(r)
    /\ data' = [data EXCEPT ![t] = @ \cup req[r].data]
    /\ hub' = IF req[r].hub = None THEN hub ELSE [hub EXCEPT ![t] = req[r].hub]
    /\ into' = [into EXCEPT ![s] = t]
    /\ Goto(r, "done")
    /\ UNCHANGED <<stored, email, rest, hubspot, gone, overlap>>

-----------------------------------------------------------------------------
(* PATCH: whoever keeps the CRM sets the contact of a row, or clears it.   *)

\* The contact named is one HubSpot has or had.  Erased rows are not refused.
PatchLoad(r, l, c) ==
    /\ req[r].at = "idle"
    /\ c \in hubspot \cup gone \cup {None}
    /\ req' = [req EXCEPT ![r] = [Idle EXCEPT !.op = "patch", !.at = "read", !.lead = l,
                                              !.hub = hub[l], !.contact = c]]
    /\ overlap' = IF email[l] = Redacted /\ c # None THEN overlap \cup {l} ELSE overlap
    /\ UNCHANGED <<rows, hubspot, gone>>

\* The contact is written unless it is the one that was loaded.
PatchCommit(r) ==
    /\ At(r, "patch", "read") /\ RowFree(r)
    /\ hub' = IF req[r].contact = req[r].hub THEN hub
              ELSE [hub EXCEPT ![req[r].lead] = req[r].contact]
    /\ Goto(r, "done")
    /\ UNCHANGED <<stored, email, data, rest, into, hubspot, gone, overlap>>

-----------------------------------------------------------------------------
(* Erasure: with HubSpot (compliance.py), or of the row alone (leads.py).  *)

Loading(r, l, op, place) ==
    /\ req[r].at = "idle"
    /\ req' = [req EXCEPT ![r] = [Idle EXCEPT !.op = op, !.at = place, !.lead = l,
                                              !.hub = hub[l], !.data = data[l]]]
    /\ UNCHANGED <<rows, hubspot, gone, overlap>>

EraseLoad(r, l)    == Loading(r, l, "erase", IF hub[l] # None THEN "read" ELSE "redact")
EraseRowLoad(r, l) == Loading(r, l, "eraseRow", "redact")

\* HubSpot deletes the contact, answers an error, which stops nothing, or the
\* call keeps raising.
EraseContact(r) ==
    LET c == req[r].hub IN
    /\ At(r, "erase", "read")
    /\ \/ hubspot' = hubspot \ {c} /\ gone' = gone \cup {c} /\ Goto(r, "redact")
       \/ Goto(r, "redact") /\ UNCHANGED <<hubspot, gone>>
       \/ Goto(r, "failed") /\ UNCHANGED <<hubspot, gone>>
       \/ hubspot' = hubspot \ {c} /\ gone' = gone \cup {c} /\ Goto(r, "failed")
    /\ UNCHANGED <<rows, overlap>>

Loaded(r, l) == Running(r) /\ l \in {req[r].lead, req[r].source}

\* The link is cleared if the row had one when it was loaded.
UnlinkDropped(r) == hub
Unlink(r) == IF req[r].hub = None THEN hub ELSE [hub EXCEPT ![req[r].lead] = None]

\* The erasure of the row alone leaves the columns of the business.
Cleared(r) == {d \in data[req[r].lead] : req[r].op = "erase" \/ d[2] = "person"}

\* Every erased row gets the one address, which is unique.  A field that was
\* empty when loaded is not written, and keeps what another request put there.
Overwrite(r) ==
    LET l == req[r].lead  kept == Cleared(r) \ req[r].data IN
    /\ RowFree(r)
    /\ \/ /\ ByEmail(Redacted) \ {l} # {}
          /\ Goto(r, "failed")
          /\ UNCHANGED <<rows, overlap>>
       \/ /\ ByEmail(Redacted) \subseteq {l}
          /\ Goto(r, "done")
          /\ email' = [email EXCEPT ![l] = Redacted]
          /\ \E left \in {{}, kept} : data' = [data EXCEPT ![l] = (@ \ Cleared(r)) \cup left]
          /\ hub' = Unlink(r)
          /\ overlap' = IF kept # {} \/ req[r].hub # hub[l]
                           \/ \E s \in Requests \ {r} : Loaded(s, l)
                        THEN overlap \cup {l} ELSE overlap
          /\ UNCHANGED <<stored, rest, into>>
    /\ UNCHANGED <<hubspot, gone>>

Redact(r)    == At(r, "erase", "redact") /\ Overwrite(r)
RedactRow(r) == At(r, "eraseRow", "redact") /\ Overwrite(r)

-----------------------------------------------------------------------------
(* A contact property changed in HubSpot: the one lead that names it.      *)

EventLoad(r, c) ==
    /\ req[r].at = "idle"
    /\ c \in hubspot
    /\ LET named == {l \in stored : hub[l] = c} IN
       \/ /\ Cardinality(named) = 1
          /\ \E l \in named : req' = [req EXCEPT ![r] = [Idle EXCEPT !.op = "event",
                                        !.at = "read", !.who = c[1], !.lead = l]]
       \/ /\ Cardinality(named) # 1
          /\ req' = [req EXCEPT ![r] = [Idle EXCEPT !.op = "event", !.at = "failed"]]
    /\ UNCHANGED <<rows, hubspot, gone, overlap>>

EventCommit(r) ==
    LET l == req[r].lead IN
    /\ At(r, "event", "read") /\ RowFree(r)
    /\ data' = [data EXCEPT ![l] = @ \cup {<<req[r].who, "person">>}]
    /\ Goto(r, "done")
    /\ UNCHANGED <<stored, email, rest, hub, into, hubspot, gone, overlap>>

-----------------------------------------------------------------------------
Ended == \A r \in Requests : ~Running(r)

Work(r) == FormFlush(r) \/ FormSync(r) \/ FormCommit(r) \/ MergeCommit(r)
           \/ PatchCommit(r) \/ EraseContact(r) \/ Redact(r) \/ RedactRow(r) \/ EventCommit(r)

Begin(r) ==
    \/ \E p \in People : FormLookup(r, p)
    \/ \E x \in Prospects : Promote(r, x)
    \/ \E s, t \in stored : MergeLoad(r, s, t)
    \/ \E l \in stored, c \in Contacts \cup {None} : PatchLoad(r, l, c)
    \/ \E l \in stored : EraseLoad(r, l) \/ EraseRowLoad(r, l)
    \/ \E c \in Contacts : EventLoad(r, c)

Next == \E r \in Requests : Begin(r) \/ Work(r)

Spec == Init /\ [][Next]_vars

-----------------------------------------------------------------------------
(* Properties.                                                             *)

RequestStates ==
    [op : {"none", "form", "promote", "merge", "patch", "erase", "eraseRow", "event"},
     at : {"idle", "read", "flushed", "synced", "redact", "done", "failed"},
     who : People \cup {None}, lead : Leads \cup {None}, source : Leads \cup {None},
     hub : Contacts \cup {None}, contact : Contacts \cup {None}, data : SUBSET (People \X Fields)]

\* Type invariant; HubSpot has no contact it has deleted.
TypeOK ==
    /\ stored \subseteq Leads /\ overlap \subseteq Leads
    /\ email \in [Leads -> People \cup {None, Redacted}]
    /\ data \in [Leads -> SUBSET (People \X Fields)]
    /\ rest \in [Leads -> Prospects \cup {None}]
    /\ hub \in [Leads -> Contacts \cup {None}]
    /\ into \in [Leads -> Leads \cup {None}]
    /\ hubspot \subseteq Contacts /\ gone \subseteq Contacts \ hubspot
    /\ req \in [Requests -> RequestStates]

\* Once a lead is erased its row stays without a HubSpot contact and without the
\* columns its erasure clears (the erasure with HubSpot all of them, whichever
\* comes first), whatever forms, events and promotions follow: only a request
\* that had the row loaded while it was erased, a merge into it or a PATCH that
\* names a contact can write them again (compliance.py: erase_lead_data).
ErasedFully == {req[r].lead : r \in {s \in Requests : At(s, "erase", "done")}}
ErasedStaysErased ==
    \A l \in stored \ overlap : email[l] = Redacted =>
        /\ hub[l] = None
        /\ \A d \in data[l] : d[2] = "business" /\ l \notin ErasedFully

\* Two leads name one HubSpot contact only after a merge touched one of them or a
\* PATCH wrote its contact: the webhook's scalar_one_or_none then finds two rows
\* and drops the event (hubspot_tasks.py: _find_lead_by_contact_id).
Joined == UNION {{req[r].lead, req[r].source} : r \in {s \in Requests : At(s, "merge", "done")}}
Patched == {req[r].lead : r \in {s \in Requests :
                At(s, "patch", "done") /\ req[s].contact # req[s].hub}}
SharedExplained ==
    \A k, l \in stored :
        k # l /\ hub[k] = hub[l] /\ hub[k] # None =>
            {k, l} \cap (Joined \cup Patched \cup overlap) # {}

\* A row names a contact HubSpot has deleted only while its erasure is under
\* way, after one that failed past the deletion, or because a merge or a PATCH had
\* put the contact there or another request overlapped the erasure (compliance.py
\* calls HubSpot before it writes the row).
DanglingExplained ==
    \A l \in stored : hub[l] \in gone =>
        \E r \in Requests :
            /\ req[r].op = "erase" /\ req[r].hub = hub[l]
            /\ \/ req[r].at \in {"redact", "failed"}
               \/ {l, req[r].lead} \cap (Joined \cup Patched \cup overlap) # {}

\* A contact that no lead names was left by a form that failed after HubSpot
\* had stored it (or is about to be named), by a form whose link was overwritten
\* by an erasure, a merge or a PATCH that had loaded the row before it, by a
\* PATCH that replaced it, or by an erasure that HubSpot refused or that never
\* asked HubSpot: nothing else leaves a person in HubSpot that the database has
\* forgotten.
Relinked == {req[r].lead : r \in {s \in Requests : At(s, "merge", "done") /\ req[s].hub # None}}
OrphanExplained ==
    \A c \in hubspot : (\A l \in stored : hub[l] # c) =>
        \E r \in Requests :
            \/ req[r].op = "form" /\ req[r].contact = c /\ req[r].at \in {"synced", "failed"}
            \/ At(r, "form", "done") /\ req[r].contact = c
                  /\ req[r].lead \in overlap \cup Relinked \cup Patched
            \/ At(r, "patch", "done") /\ req[r].hub = c /\ req[r].contact # c
            \/ req[r].op \in {"erase", "eraseRow"} /\ req[r].hub = c /\ req[r].at = "done"

\* The contacts the rows name and the contacts HubSpot has agree but for those
\* accidents (services/compliance.py, lead_enrichment.py, api/routers/crm.py).
ContactsExplained == SharedExplained /\ DanglingExplained /\ OrphanExplained

\* Nothing r's next step needs is locked: the guards of the actions of Work.
Ready(r) ==
    \/ FlushReady(r) \/ At(r, "form", "flushed") \/ CommitReady(r)
    \/ MergeReady(r) \/ At(r, "erase", "read")
    \/ RowFree(r) /\ \/ At(r, "erase", "redact") \/ At(r, "eraseRow", "redact")
                     \/ At(r, "event", "read") \/ At(r, "patch", "read")

\* Requests never all wait for each other's row, address or restaurant: as long
\* as one is under way, one of them can take its next step (the locks of
\* leads.py: create_lead are held across its HubSpot calls).
SomeoneMoves ==
    (\E r \in Requests : Running(r)) => \E r \in Requests : Ready(r)

\* What leads.py:173-174 says of an erasure: the personal fields are overwritten.
ErasureRedacts == \A r \in Requests : ~At(r, "eraseRow", "failed")
=============================================================================
