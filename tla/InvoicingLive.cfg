CONSTANTS
    Invoices = {i1}
    CreditNotes = {a1}
    Requests = {r1, r2, r3}
    Workers = {w1}
    LastMonth = 2
    None = None
SPECIFICATION FairSpec
PROPERTIES EveryCallEnds
CHECK_DEADLOCK FALSE
