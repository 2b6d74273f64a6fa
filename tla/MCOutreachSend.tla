--------------------------- MODULE MCOutreachSend ---------------------------
(* A mail and a text message to one target of one lead.                    *)
EXTENDS OutreachSend, TLC

CONSTANTS mail, text, t1, l1

MCChannel  == mail :> "email" @@ text :> "sms"
MCTargetOf == mail :> t1 @@ text :> t1
MCLeadOf   == t1 :> l1
MCMaxFaults == mail :> 2 @@ text :> 1
============================================================================
