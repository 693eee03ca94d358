CONSTANTS
    Invoices = {i1, i2}
    CreditNotes = {a1}
    Requests = {r1, r2, r3}
    Workers = {w1}
    LastMonth = 1
    None = None
SYMMETRY Symmetry
SPECIFICATION Spec
INVARIANTS ContinuousNumbers
CHECK_DEADLOCK FALSE
