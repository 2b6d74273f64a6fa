--------------------------- MODULE CommLifecycle ---------------------------
(***************************************************************************)
(* What the state machine of communication_status.py promises to everybody *)
(* who reads OutreachTarget.communication_status: seen from one commit to  *)
(* the next, a target only ever moves along paths of the transition table  *)
(* and never leaves a terminal status.  EmailEvents is checked against it.  *)
(***************************************************************************)
EXTENDS CommunicationStatus

CONSTANT Targets

VARIABLE status

\* The statuses a path of valid transitions leads to; the longest path of
\* the table is Queued -> Sent -> Delivered -> Opened -> Clicked -> Replied.
Successors(S) == S \cup UNION {ValidTransitions[s] : s \in S}

Reachable(s) == Successors(Successors(Successors(Successors(Successors({s})))))

Init == status = [t \in Targets |-> Queued]

Advance(T) ==
    /\ status' \in [Targets -> Statuses]
    /\ \A t \in T : status'[t] \in Reachable(status[t]) \ {status[t]}
    /\ \A t \in Targets \ T : status'[t] = status[t]

Next == \E T \in SUBSET Targets : Advance(T)

Spec == Init /\ [][Next]_status
============================================================================
