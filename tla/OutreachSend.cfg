SPECIFICATION Spec
CONSTANTS
    mail = mail
    text = text
    t1 = t1
    l1 = l1
    Requests = {mail, text}
    Channel <- MCChannel
    Targets = {t1}
    TargetOf <- MCTargetOf
    Leads = {l1}
    LeadOf <- MCLeadOf
    UnsubKinds = {"one-click"}
    MaxRetries = 1
    MaxFaults <- MCMaxFaults
    MaxConsents = 1
INVARIANTS
    TypeOK
    RepeatsAreFaults
    SentIsRecorded
    OneLateMail
    QueuedIsGivenUp
