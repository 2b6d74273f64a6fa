--------------------------- MODULE MCEmailEvents ---------------------------
(* Instances of EmailEvents: one mail to each of two leads.                *)
EXTENDS EmailEvents, TLC

CONSTANTS w1, w2, t1, t2, l1, l2, m1, m2, e1, e2, e3, e4, e5, e6, null

MCLeadOf   == t1 :> l1 @@ t2 :> l2
MCTargetOf == m1 :> t1 @@ m2 :> t2

Of(id, mid, type) == [id |-> id, mid |-> mid, type |-> type, ts |-> null]

\* The statuses of a target are in one batch, which the provider may post
\* twice; the opt-outs of the leads are in two, in opposite orders, and a
\* reply to the first mail arrives on its own.
SeparateBatches ==
    {<<Of(e1, m1, "delivered"), Of(e2, m1, "open")>>,
     <<Of(e3, m2, "spamreport"), Of(e4, m1, "unsubscribe")>>,
     <<Of(e5, m1, "spamreport"), Of(e6, m2, "bounce")>>,
     <<Of(null, m1, "reply")>>}

\* Two events that ask for different statuses of one target, posted apart.
SplitBatches == {<<Of(e1, m1, "delivered")>>, <<Of(e2, m1, "bounce")>>}

\* An event the provider sends again, behind an event it sends only once.
RegroupedBatches ==
    {<<Of(e1, m1, "open"), Of(e2, m2, "click")>>, <<Of(e2, m2, "click")>>}
============================================================================
