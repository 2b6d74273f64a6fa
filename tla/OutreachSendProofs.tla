------------------------- MODULE OutreachSendProofs -------------------------
(***************************************************************************)
(* Proofs about OutreachSend for every number of requests, targets, leads  *)
(* and unsubscribe endpoints, and for every bound on retries, faults and   *)
(* consent changes.                                                        *)
(***************************************************************************)
EXTENDS OutreachSend, FiniteSetTheorems, TLAPS

\* The message of the attempt a request is in.
Current(r) == [request |-> r, attempt |-> attempt[r]]

\* What the attempts have cost: every attempt but the running or last one
\* was ended by a fault; a message the provider answered for is accepted, and
\* one that will not be recorded is either not sent or paid for.
Paid(r) ==
    /\ attempt[r] <= faults[r] + 1
    /\ IF pc[r] = "queued" THEN attempt[r] <= faults[r] ELSE attempt[r] >= 1
    /\ pc[r] = "call" => Current(r) \notin accepted
    /\ pc[r] \in {"load", "flush", "commit"} =>
          IF outcome[r] = Sent
          THEN Current(r) \in accepted
          ELSE Current(r) \in accepted => attempt[r] <= faults[r]
    /\ pc[r] = "done" /\ Current(r) \in accepted \ activities
          => attempt[r] <= faults[r]

AttemptsPaid == \A r \in Requests : Paid(r)

\* A late mail's lead has opted out, which no later gate lets through.
LateMeetsGate ==
    /\ \A m \in late : /\ Channel[m.request] = "email"
                       /\ Lead(m.request) \in optOut
                       /\ pc[m.request] # "call"
    /\ \A m, n \in late : m.request = n.request => m = n

StatusHasActivity ==
    \A t \in Targets :
        status[t] \notin {Queued, Failed, OptedOut}
            => \E m \in activities : TargetOf[m.request] = t

IInv == TypeOK /\ AttemptsPaid /\ LateMeetsGate /\ StatusHasActivity

-----------------------------------------------------------------------------
(* The transition table and the messages of a request.                     *)

LEMMA TransitionsType ==
    ASSUME NEW s \in Statuses
    PROVE  ValidTransitions[s] \subseteq Statuses
  BY DEF ValidTransitions, Statuses, Queued, Sent, Delivered, Opened, Clicked,
     Replied, Bounced, Failed, OptedOut

LEMMA OutcomesAreStatuses ==
    /\ {Sent, Failed, OptedOut} \subseteq Statuses
    /\ Queued \in Statuses
    /\ Sent # Failed /\ Sent # OptedOut
  BY DEF Statuses, Queued, Sent, Failed, OptedOut

\* Messages of one request told apart by attempts up to n are at most n.
LEMMA CountByAttempt ==
    ASSUME NEW r, NEW n \in Nat, NEW S,
           \A m \in S : m \in Messages /\ m.request = r /\ m.attempt \in 1..n
    PROVE  IsFiniteSet(S) /\ Cardinality(S) <= n
  <1> DEFINE f == [m \in S |-> m.attempt]
  <1>1. f \in [S -> 1..n]
    OBVIOUS
  <1>2. \A m, k \in S : f[m] = f[k] => m = k
    <2> SUFFICES ASSUME NEW m \in S, NEW k \in S, f[m] = f[k]
                 PROVE  m = k
      OBVIOUS
    <2>1. m \in Messages /\ k \in Messages
      OBVIOUS
    <2>2. m.attempt = k.attempt /\ m.request = k.request
      OBVIOUS
    <2>3. QED
      BY <2>1, <2>2 DEF Messages
  <1>3. f \in Injection(S, 1..n)
    BY <1>1, <1>2 DEF Injection, IsInjective
  <1>4. IsFiniteSet(1..n) /\ Cardinality(1..n) = n
    BY FS_Interval
  <1>5. QED
    BY <1>3, <1>4, FS_Injection

-----------------------------------------------------------------------------
(* The invariant is inductive.                                             *)

LEMMA InitInv == Init => IInv
  BY SendAssumption, OutcomesAreStatuses
     DEF Init, IInv, TypeOK, AttemptsPaid, Paid, LateMeetsGate, StatusHasActivity

\* A step of one request leaves the other requests' accounts alone.
LEMMA OthersPaid ==
    ASSUME IInv, NEW r \in Requests, Paid(r)',
           \A q \in Requests \ {r} :
               /\ pc'[q] = pc[q] /\ attempt'[q] = attempt[q]
               /\ faults'[q] = faults[q] /\ outcome'[q] = outcome[q],
           accepted' \subseteq accepted \cup {Current(r)'}, accepted \subseteq accepted',
           activities \subseteq activities'
    PROVE  AttemptsPaid'
  <1> SUFFICES ASSUME NEW q \in Requests, q # r
               PROVE  Paid(q)'
    BY DEF AttemptsPaid
  <1>1. Current(q)' = Current(q) /\ Current(q) # Current(r)'
    BY DEF Current
  <1>2. Paid(q)
    BY DEF IInv, AttemptsPaid
  <1>3. QED
    BY <1>1, <1>2 DEF Paid

LEMMA StartEmailInv ==
    ASSUME IInv, NEW r \in Requests, StartEmail(r)
    PROVE  IInv'
  <1> USE SendAssumption DEF IInv
  <1>1. attempt'[r] = attempt[r] + 1 /\ \A q \in Requests \ {r} : attempt'[q] = attempt[q]
    BY DEF StartEmail, TypeOK
  <1>2. Current(r)' \notin accepted
    <2>1. \A m \in accepted : m.request = r => m.attempt <= attempt[r]
      BY DEF TypeOK
    <2>2. QED
      BY <1>1, <2>1 DEF Current, TypeOK
  <1>3. TypeOK'
    <2>1. \A m \in accepted : m.attempt \in 1..attempt'[m.request]
      BY <1>1 DEF TypeOK, Messages
    <2>2. Target(r) \in Targets
      BY DEF Target
    <2>3. QED
      BY <2>1, <2>2, OutcomesAreStatuses DEF StartEmail, TypeOK, people
  <1>4. Paid(r)'
    BY <1>1, <1>2, OutcomesAreStatuses DEF StartEmail, AttemptsPaid, Paid, TypeOK
  <1>5. AttemptsPaid'
    BY <1>4, OthersPaid DEF StartEmail, TypeOK
  <1>6. LateMeetsGate'
    BY DEF LateMeetsGate, StartEmail, TypeOK, people, Lead, Messages
  <1>7. StatusHasActivity'
    BY DEF StatusHasActivity, StartEmail
  <1>8. QED
    BY <1>3, <1>5, <1>6, <1>7

LEMMA StartSmsInv ==
    ASSUME IInv, NEW r \in Requests, StartSms(r)
    PROVE  IInv'
  <1> USE SendAssumption DEF IInv
  <1>1. attempt'[r] = attempt[r] + 1
    BY DEF StartSms, TypeOK
  <1>2. Current(r)' \notin accepted
    BY <1>1 DEF Current, TypeOK
  <1>3. TypeOK'
    <2>1. \A m \in accepted : m.attempt \in 1..attempt'[m.request]
      BY <1>1 DEF StartSms, TypeOK, Messages
    <2>2. QED
      BY <2>1 DEF StartSms, TypeOK, people
  <1>4. Paid(r)'
    BY <1>1, <1>2, OutcomesAreStatuses DEF StartSms, AttemptsPaid, Paid, TypeOK
  <1>5. AttemptsPaid'
    BY <1>4, OthersPaid DEF StartSms, TypeOK
  <1>6. LateMeetsGate'
    BY DEF LateMeetsGate, StartSms, TypeOK, people, Lead, Messages
  <1>7. StatusHasActivity'
    BY DEF StatusHasActivity, StartSms
  <1>8. QED
    BY <1>3, <1>5, <1>6, <1>7

\* What the provider accepts is the running attempt's message, its first.
LEMMA AcceptInv ==
    ASSUME IInv, NEW r \in Requests, pc[r] = "call", Accept(r),
           pc' = [pc EXCEPT ![r] = IF Channel[r] = "sms" THEN "load" ELSE "flush"],
           UNCHANGED <<activities, people, attempt>>
    PROVE  /\ accepted' = accepted \cup {Current(r)}
           /\ accepted' \subseteq Messages /\ late' \subseteq accepted'
           /\ \A m \in accepted' : m.attempt \in 1..attempt[m.request]
           /\ LateMeetsGate'
  <1> USE SendAssumption DEF IInv
  <1>1. accepted' = accepted \cup {Current(r)}
    BY DEF Accept, Current
  <1>2. attempt[r] \in Nat \ {0} /\ Current(r) \in Messages
    <2>1. attempt[r] \in Nat /\ attempt[r] >= 1
      BY DEF TypeOK, AttemptsPaid, Paid
    <2>2. QED
      BY <2>1 DEF Messages, Current
  <1>3. late' \in {late, late \cup {Current(r)}} /\ late' \subseteq accepted'
    BY DEF Accept, Current, TypeOK
  <1>4. \A m \in accepted' : m.attempt \in 1..attempt[m.request]
    BY <1>1, <1>2 DEF TypeOK, Current
  <1>5. \A m \in late : m.request # r
    BY DEF LateMeetsGate
  <1>6. LateMeetsGate'
    BY <1>5 DEF Accept, LateMeetsGate, people, TypeOK, Messages, Lead
  <1>7. QED
    BY <1>1, <1>2, <1>3, <1>4, <1>6 DEF TypeOK

LEMMA CallProviderInv ==
    ASSUME IInv, NEW r \in Requests, CallProvider(r)
    PROVE  IInv'
  <1> USE SendAssumption DEF IInv
  <1>1. /\ pc[r] = "call"
        /\ pc' = [pc EXCEPT ![r] = IF Channel[r] = "sms" THEN "load" ELSE "flush"]
        /\ UNCHANGED <<status, activities, people, attempt, tries, held>>
    BY DEF CallProvider
  <1>2. CASE Accept(r)
    <2>1. /\ accepted' = accepted \cup {Current(r)}
          /\ accepted' \subseteq Messages /\ late' \subseteq accepted'
          /\ \A m \in accepted' : m.attempt \in 1..attempt[m.request]
          /\ LateMeetsGate'
      BY <1>1, <1>2, AcceptInv
    <2>2. outcome' \in [Requests -> {Sent, Failed, OptedOut}] /\ faults' \in [Requests -> Nat]
      BY DEF CallProvider, TypeOK
    <2>3. TypeOK'
      BY <1>1, <2>1, <2>2 DEF TypeOK, people
    <2>4. Paid(r)'
      <3>1. attempt[r] \in Nat /\ faults[r] \in Nat /\ attempt[r] >= 1 /\ attempt[r] <= faults[r] + 1
        BY <1>1 DEF AttemptsPaid, Paid, TypeOK
      <3>2. pc'[r] \in {"load", "flush"}
        BY <1>1 DEF TypeOK
      <3>3. \/ outcome'[r] = Sent /\ faults'[r] = faults[r]
            \/ outcome'[r] = Failed /\ faults'[r] = faults[r] + 1
            \/ Current(r) \notin accepted' /\ outcome'[r] = Failed /\ faults'[r] = faults[r]
        BY <1>1, <2>1 DEF CallProvider, TypeOK, AttemptsPaid, Paid
      <3>4. Current(r)' = Current(r) /\ attempt'[r] = attempt[r] /\ Current(r) \in accepted'
        BY <1>1, <2>1 DEF Current
      <3>5. QED
        BY <3>1, <3>2, <3>3, <3>4, OutcomesAreStatuses DEF Paid
    <2>5. AttemptsPaid'
      BY <2>1, <2>4, OthersPaid DEF CallProvider, TypeOK, Current
    <2>6. StatusHasActivity'
      BY <1>1 DEF StatusHasActivity
    <2>7. QED
      BY <2>1, <2>3, <2>5, <2>6
  <1>3. CASE outcome' = [outcome EXCEPT ![r] = Failed] /\ UNCHANGED <<accepted, late, faults>>
    <2>1. TypeOK'
      BY <1>1, <1>3 DEF TypeOK, people
    <2>2. Paid(r)'
      BY <1>1, <1>3, OutcomesAreStatuses DEF AttemptsPaid, Paid, TypeOK, Current
    <2>3. AttemptsPaid'
      BY <1>1, <1>3, <2>2, OthersPaid DEF TypeOK
    <2>4. LateMeetsGate' /\ StatusHasActivity'
      BY <1>1, <1>3 DEF LateMeetsGate, StatusHasActivity, TypeOK, people, Lead, Messages
    <2>5. QED
      BY <2>1, <2>3, <2>4
  <1>4. QED
    BY <1>2, <1>3 DEF CallProvider

LEMMA LoadInv ==
    ASSUME IInv, NEW r \in Requests, Load(r)
    PROVE  IInv'
  <1> USE SendAssumption DEF IInv, Load
  <1>1. TypeOK'
    BY DEF TypeOK, people, Target
  <1>2. Paid(r)'
    BY DEF AttemptsPaid, Paid, TypeOK, Current
  <1>3. AttemptsPaid'
    BY <1>2, OthersPaid DEF TypeOK
  <1>4. LateMeetsGate' /\ StatusHasActivity'
    BY DEF LateMeetsGate, StatusHasActivity, TypeOK, people, Lead, Messages
  <1>5. QED
    BY <1>1, <1>3, <1>4

LEMMA FlushInv ==
    ASSUME IInv, NEW r \in Requests, Flush(r)
    PROVE  IInv'
  <1> USE SendAssumption DEF IInv, Flush
  <1>1. TypeOK'
    BY DEF TypeOK, people
  <1>2. Paid(r)'
    BY DEF AttemptsPaid, Paid, TypeOK, Current
  <1>3. AttemptsPaid'
    BY <1>2, OthersPaid DEF TypeOK
  <1>4. LateMeetsGate' /\ StatusHasActivity'
    BY DEF LateMeetsGate, StatusHasActivity, TypeOK, people, Lead, Messages
  <1>5. QED
    BY <1>1, <1>3, <1>4

\* Committing a send writes its activity with whatever status it moves to.
LEMMA CommitInv ==
    ASSUME IInv, NEW r \in Requests, Commit(r)
    PROVE  IInv'
  <1> USE SendAssumption, OutcomesAreStatuses DEF IInv
  <1>1. /\ pc[r] = "commit"
        /\ status' = IF Moves(r) THEN [status EXCEPT ![Target(r)] = outcome[r]] ELSE status
        /\ activities' = IF outcome[r] = Sent THEN activities \cup {Current(r)} ELSE activities
        /\ pc' = [pc EXCEPT ![r] = "done"]
        /\ held' = [held EXCEPT ![r] = Queued]
        /\ outcome' = [outcome EXCEPT ![r] = Sent]
        /\ UNCHANGED <<people, attempt, tries, faults, accepted, late>>
    BY DEF Commit, EndAttempt, Current
  <1>2. activities' \subseteq accepted
    BY <1>1 DEF TypeOK, AttemptsPaid, Paid
  <1>3. TypeOK'
    <2>1. status' \in [Targets -> Statuses]
      BY <1>1 DEF TypeOK, Target
    <2>2. QED
      BY <1>1, <1>2, <2>1 DEF TypeOK, people
  <1>4. Paid(r)'
    BY <1>1 DEF AttemptsPaid, Paid, TypeOK, Current
  <1>5. AttemptsPaid'
    BY <1>1, <1>4, OthersPaid DEF TypeOK
  <1>6. LateMeetsGate'
    BY <1>1 DEF LateMeetsGate, TypeOK, people, Lead, Messages
  <1>7. StatusHasActivity'
    <2> SUFFICES ASSUME NEW t \in Targets, status'[t] \notin {Queued, Failed, OptedOut}
                 PROVE  \E m \in activities' : TargetOf[m.request] = t
      BY DEF StatusHasActivity
    <2>1. CASE status'[t] = status[t]
      BY <1>1, <2>1 DEF StatusHasActivity
    <2>2. CASE status'[t] # status[t]
      <3>1. t = Target(r) /\ status'[t] = outcome[r]
        BY <1>1, <2>2 DEF TypeOK, Target
      <3>2. Current(r) \in activities'
        BY <1>1, <3>1 DEF TypeOK
      <3>3. QED
        BY <3>1, <3>2 DEF Target, Current
    <2>3. QED
      BY <2>1, <2>2
  <1>8. QED
    BY <1>3, <1>5, <1>6, <1>7

-----------------------------------------------------------------------------
(* What goes wrong, and the people.                                        *)

LEMMA EndAttemptInv ==
    ASSUME IInv, NEW r \in Requests, InAttempt(r), NEW next \in {"queued", "done"},
           faults' = [faults EXCEPT ![r] = @ + 1],
           tries' \in [Requests -> 0..MaxRetries],
           EndAttempt(r, next), 
           UNCHANGED <<status, activities, people, attempt, accepted, late>>
    PROVE  IInv'
  <1> USE SendAssumption, OutcomesAreStatuses DEF IInv, EndAttempt
  <1>1. TypeOK'
    BY DEF TypeOK, people
  <1>2. Paid(r)'
    <2>1. attempt[r] \in Nat /\ faults[r] \in Nat /\ attempt[r] <= faults[r] + 1
      BY DEF AttemptsPaid, Paid, TypeOK
    <2>2. attempt[r] >= 1
      BY DEF InAttempt, AttemptsPaid, Paid
    <2>3. faults'[r] = faults[r] + 1 /\ attempt'[r] = attempt[r] /\ pc'[r] = next
      BY DEF TypeOK
    <2>4. QED
      BY <2>1, <2>2, <2>3 DEF Paid
  <1>3. AttemptsPaid'
    BY <1>2, OthersPaid DEF TypeOK
  <1>4. LateMeetsGate' /\ StatusHasActivity'
    BY DEF LateMeetsGate, StatusHasActivity, TypeOK, people, Lead, Messages
  <1>5. QED
    BY <1>1, <1>3, <1>4

LEMMA ExceptionInv ==
    ASSUME IInv, NEW r \in Requests, Exception(r)
    PROVE  IInv'
  <1>1. tries' \in [Requests -> 0..MaxRetries]
    <2>1. tries \in [Requests -> 0..MaxRetries]
      BY DEF IInv, TypeOK
    <2>2. tries[r] < MaxRetries => tries[r] + 1 \in 0..MaxRetries
      BY <2>1, SendAssumption
    <2>3. QED
      BY <2>1, <2>2 DEF Exception
  <1>2. EndAttempt(r, "queued") \/ EndAttempt(r, "done")
    BY DEF Exception
  <1>3. QED
    BY <1>1, <1>2, EndAttemptInv DEF Exception

LEMMA CrashInv ==
    ASSUME IInv, NEW r \in Requests, Crash(r)
    PROVE  IInv'
  <1>1. tries' \in [Requests -> 0..MaxRetries]
    BY DEF IInv, TypeOK, Crash
  <1>2. EndAttempt(r, "queued") \/ EndAttempt(r, "done")
    BY DEF Crash
  <1>3. QED
    BY <1>1, <1>2, EndAttemptInv DEF Crash

LEMMA CrashBeforeAckInv ==
    ASSUME IInv, NEW r \in Requests, CrashBeforeAck(r)
    PROVE  IInv'
  <1> USE SendAssumption DEF IInv, CrashBeforeAck
  <1>1. TypeOK'
    BY DEF TypeOK, people
  <1>2. Paid(r)'
    <2>1. attempt[r] \in Nat /\ faults[r] \in Nat /\ attempt[r] <= faults[r] + 1
      BY DEF AttemptsPaid, Paid, TypeOK
    <2>2. faults'[r] = faults[r] + 1 /\ attempt'[r] = attempt[r] /\ pc'[r] = "queued"
      BY DEF TypeOK
    <2>3. QED
      BY <2>1, <2>2 DEF Paid
  <1>3. AttemptsPaid'
    BY <1>2, OthersPaid DEF TypeOK
  <1>4. LateMeetsGate' /\ StatusHasActivity'
    BY DEF LateMeetsGate, StatusHasActivity, TypeOK, people, Lead, Messages
  <1>5. QED
    BY <1>1, <1>3, <1>4

LEMMA UnsubscribeInv ==
    ASSUME IInv, NEW l \in Leads, NEW kind \in UnsubKinds, Unsubscribe(l, kind)
    PROVE  IInv'
  <1> USE SendAssumption DEF IInv, Unsubscribe
  <1>1. TypeOK'
    BY DEF TypeOK
  <1>2. AttemptsPaid' /\ StatusHasActivity'
    BY DEF AttemptsPaid, Paid, Current, StatusHasActivity
  <1>3. LateMeetsGate'
    BY DEF LateMeetsGate, Lead
  <1>4. QED
    BY <1>1, <1>2, <1>3

LEMMA RecordConsentInv ==
    ASSUME IInv, NEW l \in Leads, NEW optIn \in BOOLEAN, RecordConsent(l, optIn)
    PROVE  IInv'
  <1> USE SendAssumption DEF IInv, RecordConsent
  <1>1. TypeOK'
    BY DEF TypeOK
  <1>2. AttemptsPaid' /\ StatusHasActivity' /\ LateMeetsGate'
    BY DEF AttemptsPaid, Paid, Current, StatusHasActivity, LateMeetsGate, Lead
  <1>3. QED
    BY <1>1, <1>2

\* An event moves a target on only with a recorded mail to show for it.
LEMMA EngageInv ==
    ASSUME IInv, NEW m \in activities, Engage(m)
    PROVE  IInv'
  <1> USE SendAssumption DEF IInv
  <1>1. m.request \in Requests /\ Target(m.request) \in Targets
    BY DEF TypeOK, Messages, Target
  <1>2. PICK s \in Statuses : status' = [status EXCEPT ![Target(m.request)] = s]
    BY <1>1, TransitionsType DEF Engage, TypeOK
  <1>3. UNCHANGED <<activities, people, pc, attempt, tries, faults, held, outcome, accepted, late>>
    BY DEF Engage
  <1>4. TypeOK'
    BY <1>1, <1>2, <1>3 DEF TypeOK, people
  <1>5. AttemptsPaid' /\ LateMeetsGate'
    BY <1>3 DEF AttemptsPaid, Paid, Current, LateMeetsGate, Lead, people
  <1>6. StatusHasActivity'
    BY <1>1, <1>2, <1>3 DEF StatusHasActivity, Target, TypeOK
  <1>7. QED
    BY <1>4, <1>5, <1>6

LEMMA StutterInv ==
    ASSUME IInv, UNCHANGED vars
    PROVE  IInv'
  BY DEF vars, people, IInv, TypeOK, AttemptsPaid, Paid, Current, LateMeetsGate, Lead,
     StatusHasActivity

LEMMA NextInv == IInv /\ [Next]_vars => IInv'
  <1> SUFFICES ASSUME IInv, [Next]_vars
               PROVE  IInv'
    OBVIOUS
  <1>1. ASSUME NEW r \in Requests, Step(r)
        PROVE  IInv'
    BY <1>1, StartEmailInv, StartSmsInv, CallProviderInv, LoadInv, FlushInv, CommitInv
       DEF Step, Start
  <1>2. ASSUME NEW r \in Requests, Exception(r) \/ Crash(r) \/ CrashBeforeAck(r)
        PROVE  IInv'
    BY <1>2, ExceptionInv, CrashInv, CrashBeforeAckInv
  <1>3. ASSUME NEW l \in Leads, NEW kind \in UnsubKinds, Unsubscribe(l, kind)
        PROVE  IInv'
    BY <1>3, UnsubscribeInv
  <1>4. ASSUME NEW l \in Leads, NEW optIn \in BOOLEAN, RecordConsent(l, optIn)
        PROVE  IInv'
    BY <1>4, RecordConsentInv
  <1>5. ASSUME NEW m \in activities, Engage(m)
        PROVE  IInv'
    BY <1>5, EngageInv
  <1>6. CASE UNCHANGED vars
    BY <1>6, StutterInv
  <1>7. QED
    BY <1>1, <1>2, <1>3, <1>4, <1>5, <1>6 DEF Next

\* The inductive invariant holds in every reachable state.
LEMMA Invariance == Spec => []IInv
  BY InitInv, NextInv, PTL DEF Spec

-----------------------------------------------------------------------------
(* What the invariant says about repeats, records and late mails.          *)

LEMMA RepeatsFollow == IInv => RepeatsAreFaults
  <1> SUFFICES ASSUME IInv, NEW r \in Requests
               PROVE  Cardinality(MessagesOf(r)) <= 1 + faults[r]
    BY DEF RepeatsAreFaults
  <1>1. attempt[r] \in Nat /\ faults[r] \in Nat /\ attempt[r] <= faults[r] + 1
    BY DEF IInv, TypeOK, AttemptsPaid, Paid
  <1>2. \A m \in MessagesOf(r) :
           m \in Messages /\ m.request = r /\ m.attempt \in 1..attempt[r]
    BY DEF MessagesOf, IInv, TypeOK
  <1>3. IsFiniteSet(MessagesOf(r)) /\ Cardinality(MessagesOf(r)) <= attempt[r]
    BY <1>1, <1>2, CountByAttempt
  <1>4. Cardinality(MessagesOf(r)) \in Nat
    BY <1>3, FS_CardinalityType
  <1>5. QED
    BY <1>1, <1>3, <1>4

\* A request that is done leaves unrecorded at most one message per fault.
LEMMA RecordsFollow == IInv => SentIsRecorded
  <1> SUFFICES ASSUME IInv, NEW r \in Requests, pc[r] = "done"
               PROVE  Cardinality(MessagesOf(r) \ activities) <= faults[r]
    BY DEF SentIsRecorded, IInv, StatusHasActivity
  <1> DEFINE lost == MessagesOf(r) \ activities
  <1>1. /\ attempt[r] \in Nat /\ faults[r] \in Nat
        /\ attempt[r] <= faults[r] + 1 /\ attempt[r] >= 1
    BY DEF IInv, TypeOK, AttemptsPaid, Paid
  <1>2. \A m \in lost : m \in Messages /\ m.request = r /\ m.attempt \in 1..attempt[r]
    BY DEF MessagesOf, IInv, TypeOK
  <1>3. \A m \in lost : m.attempt \in 1..faults[r]
    <2> SUFFICES ASSUME NEW m \in lost, ~(attempt[r] <= faults[r])
                 PROVE  m.attempt \in 1..faults[r]
      BY <1>1, <1>2
    <2>1. Current(r) \notin lost
      BY DEF IInv, AttemptsPaid, Paid, MessagesOf
    <2>2. m.attempt # attempt[r]
      BY <1>2, <2>1 DEF Current, Messages
    <2>3. QED
      BY <1>1, <1>2, <2>2
  <1>4. IsFiniteSet(lost) /\ Cardinality(lost) <= faults[r]
    BY <1>1, <1>2, <1>3, CountByAttempt
  <1>5. QED
    BY <1>4

LEMMA LateFollows == IInv => OneLateMail
  <1> SUFFICES ASSUME IInv, NEW r \in Requests
               PROVE  Cardinality({m \in late : m.request = r}) <= 1
    BY DEF OneLateMail
  <1> DEFINE mine == {m \in late : m.request = r}
  <1>1. mine = {} \/ \E m : mine = {m}
    BY DEF IInv, LateMeetsGate
  <1>2. Cardinality(mine) \in {0, 1}
    <2> HIDE DEF mine
    <2>1. CASE mine = {}
      BY <2>1, FS_EmptySet
    <2>2. CASE \E m : mine = {m}
      BY <2>2, FS_Singleton
    <2>3. QED
      BY <1>1, <2>1, <2>2
  <1>3. QED
    BY <1>2

-----------------------------------------------------------------------------
(* What is given up.                                                       *)

\* No transition leads back to queued, and every outcome leads away from it.
LEMMA NoWayBack ==
    /\ \A s \in Statuses : Queued \notin ValidTransitions[s]
    /\ \A s \in {Sent, Failed, OptedOut} : IsValidTransition(Queued, s)
  BY DEF ValidTransitions, IsValidTransition, Statuses, Queued, Sent, Delivered, Opened,
     Clicked, Replied, Bounced, Failed, OptedOut

\* A retry is a fault made up for.  A running mail has read its target queued,
\* so that its commit will move it, or the target has moved already.
Repaid(r) ==
    /\ tries[r] <= faults[r]
    /\ Channel[r] = "email" => pc[r] # "load"
    /\ Channel[r] = "email" /\ status[Target(r)] = Queued =>
          /\ pc[r] \in {"call", "flush", "commit"} => held[r] = Queued
          /\ pc[r] = "done" => faults[r] > tries[r]

AllRepaid == \A r \in Requests : Repaid(r)

\* What one request's step does to the others' accounts.
LEMMA OthersRepaid ==
    ASSUME IInv, AllRepaid, NEW r \in Requests, Repaid(r)',
           \A q \in Requests \ {r} :
               /\ pc'[q] = pc[q] /\ tries'[q] = tries[q]
               /\ faults'[q] = faults[q] /\ held'[q] = held[q],
           \A t \in Targets : status'[t] = Queued => status[t] = Queued
    PROVE  AllRepaid'
  <1> SUFFICES ASSUME NEW q \in Requests, q # r
               PROVE  Repaid(q)'
    BY DEF AllRepaid
  <1>1. Target(q) \in Targets
    BY SendAssumption DEF Target
  <1> QED BY <1>1 DEF AllRepaid, Repaid, Target

LEMMA StepRepaid ==
    ASSUME IInv, AllRepaid, NEW r \in Requests, Step(r)
    PROVE  AllRepaid'
  <1> USE SendAssumption DEF IInv
  <1>1. Repaid(r) /\ Target(r) \in Targets /\ held[r] \in Statuses
        /\ tries[r] \in Nat /\ faults[r] \in Nat /\ Channel[r] \in {"email", "sms"}
    BY DEF AllRepaid, Target, TypeOK
  <1>2. CASE StartEmail(r)
    <2>1. pc'[r] \in {"flush", "call"} /\ held'[r] = status[Target(r)] /\ status' = status
          /\ tries' = tries /\ faults' = faults
      BY <1>2 DEF StartEmail, TypeOK
    <2>2. Repaid(r)'
      BY <1>1, <2>1 DEF Repaid, Target
    <2> QED BY <1>2, <2>2, OthersRepaid DEF StartEmail, TypeOK
  <1>3. CASE StartSms(r)
    <2>1. Repaid(r)'
      BY <1>1, <1>3 DEF Repaid, StartSms
    <2> QED BY <1>3, <2>1, OthersRepaid DEF StartSms, TypeOK
  <1>4. CASE CallProvider(r)
    <2>1. /\ pc[r] = "call" /\ UNCHANGED <<status, tries, held>>
          /\ pc'[r] = IF Channel[r] = "sms" THEN "load" ELSE "flush"
          /\ faults'[r] \in {faults[r], faults[r] + 1}
          /\ \A q \in Requests \ {r} : pc'[q] = pc[q] /\ faults'[q] = faults[q]
      BY <1>4 DEF CallProvider, TypeOK
    <2>2. Repaid(r)'
      BY <1>1, <2>1 DEF Repaid, Target
    <2> QED BY <2>1, <2>2, OthersRepaid
  <1>5. CASE Load(r)
    <2>1. Channel[r] = "sms"
      BY <1>1, <1>5 DEF Load, Repaid
    <2>2. Repaid(r)'
      BY <1>1, <1>5, <2>1 DEF Load, Repaid
    <2> QED BY <1>5, <2>2, OthersRepaid DEF Load, TypeOK
  <1>6. CASE Flush(r)
    <2>1. Repaid(r)'
      BY <1>1, <1>6 DEF Flush, Repaid, Target, TypeOK
    <2> QED BY <1>6, <2>1, OthersRepaid DEF Flush, TypeOK
  <1>7. CASE Commit(r)
    <2>1. /\ pc[r] = "commit" /\ pc' = [pc EXCEPT ![r] = "done"]
          /\ held' = [held EXCEPT ![r] = Queued]
          /\ status' = IF Moves(r) THEN [status EXCEPT ![Target(r)] = outcome[r]] ELSE status
          /\ UNCHANGED <<tries, faults>>
      BY <1>7 DEF Commit, EndAttempt
    <2>2. outcome[r] \in {Sent, Failed, OptedOut} /\ outcome[r] # Queued
      BY DEF TypeOK, Queued, Sent, Failed, OptedOut
    <2>3. \A t \in Targets : status'[t] = Queued => status[t] = Queued
      BY <1>1, <2>1, <2>2 DEF TypeOK
    <2>4. Channel[r] = "email" => status'[Target(r)] # Queued
      <3>1. held[r] = Queued => Moves(r)
        BY <2>2, NoWayBack DEF Moves
      <3>2. Moves(r) => status'[Target(r)] # Queued
        BY <1>1, <2>1, <2>2 DEF TypeOK
      <3> QED BY <1>1, <2>1, <3>1, <3>2 DEF Repaid
    <2>5. Repaid(r)'
      BY <1>1, <2>1, <2>4 DEF Repaid, Target, TypeOK
    <2> QED BY <2>1, <2>3, <2>5, OthersRepaid DEF TypeOK
  <1> QED BY <1>2, <1>3, <1>4, <1>5, <1>6, <1>7 DEF Step, Start

\* What an exception costs it gives back as a retry, unless it is the last.
LEMMA FaultRepaid ==
    ASSUME IInv, AllRepaid, NEW r \in Requests, Exception(r) \/ Crash(r) \/ CrashBeforeAck(r)
    PROVE  AllRepaid'
  <1> USE SendAssumption DEF IInv
  <1>1. Repaid(r) /\ tries[r] \in Nat /\ faults[r] \in Nat
    BY DEF AllRepaid, TypeOK
  <1>2. /\ status' = status /\ faults' = [faults EXCEPT ![r] = @ + 1]
        /\ \A q \in Requests \ {r} : pc'[q] = pc[q] /\ tries'[q] = tries[q] /\ held'[q] = held[q]
    BY DEF Exception, Crash, CrashBeforeAck, EndAttempt, TypeOK
  <1>3. \/ pc'[r] = "queued" /\ tries'[r] \in {tries[r], tries[r] + 1}
        \/ pc'[r] = "done" /\ tries'[r] = tries[r]
    BY DEF Exception, Crash, CrashBeforeAck, EndAttempt, TypeOK
  <1>4. faults'[r] = faults[r] + 1 /\ \A q \in Requests \ {r} : faults'[q] = faults[q]
    BY <1>2 DEF TypeOK
  <1>5. Repaid(r)'
    BY <1>1, <1>2, <1>3, <1>4 DEF Repaid
  <1> QED BY <1>2, <1>4, <1>5, OthersRepaid

LEMMA RepaidStep == IInv /\ AllRepaid /\ [Next]_vars => AllRepaid'
  <1> SUFFICES ASSUME IInv, AllRepaid, [Next]_vars
               PROVE  AllRepaid'
    OBVIOUS
  <1>1. CASE UNCHANGED <<pc, tries, faults, held>> /\ \A t \in Targets : status'[t] = Queued => status[t] = Queued
    <2>1. \A q \in Requests : Target(q) \in Targets
      BY SendAssumption DEF Target
    <2> QED BY <1>1, <2>1 DEF AllRepaid, Repaid, Target
  <1>2. ASSUME NEW m \in activities, Engage(m)
        PROVE  AllRepaid'
    <2>1. Target(m.request) \in Targets
      BY SendAssumption DEF Target, IInv, TypeOK, Messages
    <2>2. \A t \in Targets : status'[t] = Queued => status[t] = Queued
      BY <1>2, <2>1, NoWayBack DEF Engage, IInv, TypeOK
    <2> QED BY <1>1, <1>2, <2>2 DEF Engage
  <1>3. ASSUME NEW l \in Leads, NEW kind \in UnsubKinds, Unsubscribe(l, kind)
        PROVE  AllRepaid'
    BY <1>1, <1>3 DEF Unsubscribe
  <1>4. ASSUME NEW l \in Leads, NEW optIn \in BOOLEAN, RecordConsent(l, optIn)
        PROVE  AllRepaid'
    BY <1>1, <1>4 DEF RecordConsent
  <1>5. CASE UNCHANGED vars
    BY <1>1, <1>5 DEF vars
  <1> QED BY <1>2, <1>3, <1>4, <1>5, StepRepaid, FaultRepaid DEF Next

LEMMA InitRepaid == Init => AllRepaid
  BY DEF Init, AllRepaid, Repaid

LEMMA GivenUpFollows == AllRepaid => QueuedIsGivenUp
  BY DEF AllRepaid, Repaid, QueuedIsGivenUp

-----------------------------------------------------------------------------
\* Every variable stays in its type, and no message is accepted or recorded
\* for an attempt that was not made.
THEOREM TypeCorrect == Spec => []TypeOK
  BY Invariance, PTL DEF IInv

\* A request never sends more messages than faults interrupted it, plus one:
\* retries of send_email_task and redeliveries of its message are the only
\* way to write twice.
THEOREM RepeatsOnlyByFault == Spec => []RepeatsAreFaults
  BY Invariance, RepeatsFollow, PTL

\* A finished send_outreach_email or send_sms has recorded every message but
\* those a fault hit, and no target is past the send without an activity.
THEOREM SendsRecorded == Spec => []SentIsRecorded
  BY Invariance, RecordsFollow, PTL

\* After an unsubscribe commits, each request mails the lead at most once
\* more, however often the task is retried or redelivered.
THEOREM AtMostOneLateMail == Spec => []OneLateMail
  BY Invariance, LateFollows, PTL

\* When send_email_task is through with a mail whose target is still queued, a
\* fault hit it that no retry made up for: a process that died, or the failure
\* after the last retry.
THEOREM GivenUpByFault == Spec => []QueuedIsGivenUp
  <1>1. Spec => [](IInv /\ AllRepaid)
    BY Invariance, InitRepaid, RepaidStep, PTL DEF Spec
  <1> QED BY <1>1, GivenUpFollows, PTL
============================================================================
