CONSTANTS
    Invoices = {i1, i2}
    CreditNotes = {a1}
    Requests = {r1, r2, r3}
    Workers = {w1, w2}
    LastMonth = 2
    None = None
SYMMETRY Symmetry
SPECIFICATION Spec
INVARIANTS TypeOK UniqueNumbers HolesAreRenumberings PdfKeyOpensOwnPdf
PROPERTIES GaplessIssue
CHECK_DEADLOCK FALSE
