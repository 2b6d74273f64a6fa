------------------------ MODULE CommunicationStatus ------------------------
(***************************************************************************)
(* The communication status of an outreach target, shared by every channel *)
(* (src/src/services/communication_status.py): the nine statuses, the      *)
(* transition table that transition_status consults, and the statuses a    *)
(* provider event asks for (src/src/tasks/email_tasks.py).                 *)
(***************************************************************************)

Queued    == "queued"
Sent      == "sent"
Delivered == "delivered"
Opened    == "opened"
Clicked   == "clicked"
Replied   == "replied"
Bounced   == "bounced"
Failed    == "failed"
OptedOut  == "opted_out"

Statuses == {Queued, Sent, Delivered, Opened, Clicked,
             Replied, Bounced, Failed, OptedOut}

TerminalStatuses == {Replied, Bounced, Failed, OptedOut}

ValidTransitions ==
    [s \in Statuses |->
        CASE s = Queued    -> {Sent, Failed, OptedOut}
          [] s = Sent      -> {Delivered, Bounced, Failed}
          [] s = Delivered -> {Opened, Bounced}
          [] s = Opened    -> {Clicked, Replied}
          [] s = Clicked   -> {Replied}
          [] OTHER         -> {}]

IsValidTransition(current, new) == new \in ValidTransitions[current]

(***************************************************************************)
(* The provider's event types and the status each one asks for.  A soft    *)
(* bounce asks for nothing; "other" stands for the types the handler map   *)
(* does not name ("deferred", "processed").                                *)
(***************************************************************************)
EventTypes == {"delivered", "open", "click", "bounce", "soft_bounce",
               "dropped", "spamreport", "unsubscribe", "other"}

EventHandler ==
    [type \in EventTypes |->
        CASE type = "delivered"   -> {Delivered}
          [] type = "open"        -> {Opened}
          [] type = "click"       -> {Clicked}
          [] type = "bounce"      -> {Bounced}
          [] type = "dropped"     -> {Failed}
          [] type \in {"spamreport", "unsubscribe"} -> {OptedOut}
          [] OTHER                -> {}]

\* The event types after which the lead may not be mailed again.
OptOutTypes == {"bounce", "spamreport", "unsubscribe"}
============================================================================
