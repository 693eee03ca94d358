------------------------------ MODULE Invoicing ------------------------------
(***************************************************************************)
(* Customer invoices and credit notes of one tenant                        *)
(* (backend/app/modules/billing, the PDF tasks of backend/app/infra).      *)
(*                                                                         *)
(* A document is created as a draft, validated by an HTTP request that     *)
(* takes the next number of the sequence of its prefix and of the current  *)
(* month, and rendered to a PDF by a Celery worker that the request        *)
(* notifies after its commit.  Every handler runs in a database            *)
(* transaction of its own at READ COMMITTED: it reads the document, checks *)
(* what it read, and writes later without checking again.                  *)
(***************************************************************************)
EXTENDS Naturals, FiniteSets

CONSTANTS Invoices,      \* ids of invoices
          CreditNotes,   \* ids of credit notes (avoirs)
          Requests,      \* HTTP calls of a .../validate endpoint, one call each
          Workers,       \* Celery worker processes
          LastMonth,     \* the calendar runs from month 1 to LastMonth
          None           \* SQL's NULL

Documents == Invoices \union CreditNotes
Months    == 1..LastMonth
Prefixes  == {"FAC", "AVR"}
Prefix(d) == IF d \in Invoices THEN "FAC" ELSE "AVR"

\* A row of number_sequences is identified by its prefix, year and month; a
\* document number is such a row with a counter: FAC-202601-0001.
Rows    == Prefixes \X Months
Numbers == Rows \X (Nat \ {0})

ASSUME InvoicingAssumption ==
    /\ Invoices \intersect CreditNotes = {}
    /\ LastMonth \in Nat \ {0}
    /\ None \notin Documents
    /\ None \notin Requests
    /\ None \notin Numbers

VARIABLES
    \* tables invoices and credit_notes
    status,        \* status[d]: "absent" before the INSERT, "draft", "validated"
    number,        \* number[d]: invoice_number or credit_note_number
    source,        \* source[c]: the invoice a credit note was made from
    pdfKey,        \* pdf_s3_key; an object key is determined by a number
    \* table number_sequences
    lastNumber,    \* lastNumber[k]: the committed last_number of row k
    rowLock,       \* rowLock[k]: the request whose open transaction holds row k
    \* requests
    pc,            \* where each request stands in its handler
    target,        \* the document it validates
    dated,         \* the sequence row it numbers from (date.today() of the call)
    taken,         \* the last_number it read back inside its transaction
    \* Celery and S3
    queue,         \* queue[d]: PDF tasks waiting for document d
    wpc, wdoc, wnum, \* worker: where it stands, its document, the number it read
    objects,       \* {<<number, document>>}: the bucket, object key and content
    \* the calendar, and the numbers ever committed (observed, not stored)
    month,
    issued

docVars  == <<status, number, source, pdfKey>>
seqVars  == <<lastNumber, rowLock>>
reqVars  == <<pc, target, dated, taken>>
pdfVars  == <<queue, wpc, wdoc, wnum, objects>>
vars     == <<docVars, seqVars, reqVars, pdfVars, month, issued>>

-----------------------------------------------------------------------------
Init ==
    /\ status = [d \in Documents |-> "absent"]
    /\ number = [d \in Documents |-> None]
    /\ source = [c \in CreditNotes |-> None]
    /\ pdfKey = [d \in Documents |-> None]
    /\ lastNumber = [k \in Rows |-> 0]
    /\ rowLock = [k \in Rows |-> None]
    /\ pc = [r \in Requests |-> "idle"]
    /\ target = [r \in Requests |-> None]
    /\ dated = [r \in Requests |-> None]
    /\ taken = [r \in Requests |-> 0]
    /\ queue = [d \in Documents |-> 0]
    /\ wpc = [w \in Workers |-> "idle"]
    /\ wdoc = [w \in Workers |-> None]
    /\ wnum = [w \in Workers |-> None]
    /\ objects = {}
    /\ month = 1
    /\ issued = {}

-----------------------------------------------------------------------------
(* Creation of drafts.  Each handler is one transaction whose only check   *)
(* on existing rows is stable, so it is one step here.                     *)

CreateInvoice(i) ==
    /\ status[i] = "absent"
    /\ status' = [status EXCEPT ![i] = "draft"]
    /\ UNCHANGED <<number, source, pdfKey, seqVars, reqVars, pdfVars, month, issued>>

\* A credit note copies a validated invoice; nothing limits their number.
CreateCreditNote(c, i) ==
    /\ status[c] = "absent"
    /\ status[i] = "validated"
    /\ status' = [status EXCEPT ![c] = "draft"]
    /\ source' = [source EXCEPT ![c] = i]
    /\ UNCHANGED <<number, pdfKey, seqVars, reqVars, pdfVars, month, issued>>

-----------------------------------------------------------------------------
(* Validation of an invoice or of a credit note.                           *)

\* The handler of r ends: its local variables are gone.
Leave(r, how) ==
    /\ pc' = [pc EXCEPT ![r] = how]
    /\ target' = [target EXCEPT ![r] = None]
    /\ dated' = [dated EXCEPT ![r] = None]
    /\ taken' = [taken EXCEPT ![r] = 0]

\* SELECT of the document; the status is checked on the row just read, and
\* the date of the call selects the row of number_sequences.
ReadDraft(r, d) ==
    /\ pc[r] = "idle"
    /\ status[d] = "draft"
    /\ pc' = [pc EXCEPT ![r] = "checked"]
    /\ target' = [target EXCEPT ![r] = d]
    /\ dated' = [dated EXCEPT ![r] = <<Prefix(d), month>>]
    /\ UNCHANGED <<taken, docVars, seqVars, pdfVars, month, issued>>

\* "Only draft invoices can be validated" (and 404 for an unknown id).
Refuse(r, d) ==
    /\ pc[r] = "idle"
    /\ status[d] # "draft"
    /\ Leave(r, "answered")
    /\ UNCHANGED <<docVars, seqVars, pdfVars, month, issued>>

\* Mistake ruled out by UniqueNumbers: a counter that is read and incremented
\* without waiting for the row.
TakeNumberUnlocked(r) ==
    /\ pc[r] = "checked"
    /\ taken' = [taken EXCEPT ![r] = lastNumber[dated[r]] + 1]
    /\ pc' = [pc EXCEPT ![r] = "numbered"]
    /\ UNCHANGED <<seqVars, target, dated, docVars, pdfVars, month, issued>>

\* Mistake ruled out by TypeOK: last_number read before the upsert.
TakeNumberEarly(r) ==
    /\ pc[r] = "checked"
    /\ rowLock[dated[r]] = None
    /\ rowLock' = [rowLock EXCEPT ![dated[r]] = r]
    /\ taken' = [taken EXCEPT ![r] = lastNumber[dated[r]]]
    /\ pc' = [pc EXCEPT ![r] = "numbered"]
    /\ UNCHANGED <<lastNumber, target, dated, docVars, pdfVars, month, issued>>

\* INSERT ... ON CONFLICT DO UPDATE last_number + 1, then SELECT last_number:
\* the upsert waits for the transaction that holds the row and keeps the row
\* until its own commit or rollback.
TakeNumber(r) ==
    /\ pc[r] = "checked"
    /\ rowLock[dated[r]] = None
    /\ rowLock' = [rowLock EXCEPT ![dated[r]] = r]
    /\ taken' = [taken EXCEPT ![r] = lastNumber[dated[r]] + 1]
    /\ pc' = [pc EXCEPT ![r] = "numbered"]
    /\ UNCHANGED <<lastNumber, target, dated, docVars, pdfVars, month, issued>>

\* Mistake ruled out by GaplessIssue: the month evaluated again at the commit.
CommitRedated(r) ==
    /\ pc[r] = "numbered"
    /\ LET row == <<Prefix(target[r]), month>> IN
       /\ number' = [number EXCEPT ![target[r]] = <<row, taken[r]>>]
       /\ lastNumber' = [lastNumber EXCEPT ![row] = taken[r]]
       /\ issued' = issued \union {<<target[r], row, taken[r]>>}
    /\ status' = [status EXCEPT ![target[r]] = "validated"]
    /\ rowLock' = [rowLock EXCEPT ![dated[r]] = None]
    /\ pc' = [pc EXCEPT ![r] = "committed"]
    /\ UNCHANGED <<source, pdfKey, target, dated, taken, pdfVars, month>>

\* UPDATE ... SET status='validated', number=:num WHERE id=:id - the status
\* is not in the WHERE clause - and COMMIT.
Commit(r) ==
    /\ pc[r] = "numbered"
    /\ status' = [status EXCEPT ![target[r]] = "validated"]
    /\ number' = [number EXCEPT ![target[r]] = <<dated[r], taken[r]>>]
    /\ lastNumber' = [lastNumber EXCEPT ![dated[r]] = taken[r]]
    /\ rowLock' = [rowLock EXCEPT ![dated[r]] = None]
    /\ issued' = issued \union {<<target[r], dated[r], taken[r]>>}
    /\ pc' = [pc EXCEPT ![r] = "committed"]
    /\ UNCHANGED <<source, pdfKey, target, dated, taken, pdfVars, month>>

\* celery_app.send_task, after the commit.
SendTask(r) ==
    /\ pc[r] = "committed"
    /\ queue' = [queue EXCEPT ![target[r]] = @ + 1]
    /\ Leave(r, "answered")
    /\ UNCHANGED <<docVars, seqVars, wpc, wdoc, wnum, objects, month, issued>>

\* Mistake ruled out by HolesAreRenumberings: a counter that does not take part
\* in the transaction (a PostgreSQL SEQUENCE) is not rolled back with it.
AbortKeepsCounter(r) ==
    /\ pc[r] \in {"checked", "numbered", "committed"}
    /\ Leave(r, "failed")
    /\ IF pc[r] = "numbered"
       THEN /\ rowLock' = [rowLock EXCEPT ![dated[r]] = None]
            /\ lastNumber' = [lastNumber EXCEPT ![dated[r]] = taken[r]]
       ELSE UNCHANGED seqVars
    /\ UNCHANGED <<docVars, pdfVars, month, issued>>

\* Mistake ruled out by EveryCallEnds: a failing handler leaves its transaction
\* open, and the row with it.
AbortKeepsLock(r) ==
    /\ pc[r] \in {"checked", "numbered", "committed"}
    /\ Leave(r, "failed")
    /\ UNCHANGED <<docVars, seqVars, pdfVars, month, issued>>

\* The handler fails or the server stops: an open transaction is rolled
\* back and its row is free again; after the commit the task is never sent.
Abort(r) ==
    /\ pc[r] \in {"checked", "numbered", "committed"}
    /\ Leave(r, "failed")
    /\ rowLock' = IF pc[r] = "numbered"
                  THEN [rowLock EXCEPT ![dated[r]] = None]
                  ELSE rowLock
    /\ UNCHANGED <<lastNumber, docVars, pdfVars, month, issued>>

-----------------------------------------------------------------------------
(* invoice_generate_pdf and credit_note_generate_pdf                       *)

\* Worker w is ready for its next task.
Finish(w) ==
    /\ wpc' = [wpc EXCEPT ![w] = "idle"]
    /\ wdoc' = [wdoc EXCEPT ![w] = None]
    /\ wnum' = [wnum EXCEPT ![w] = None]

\* First session: the worker reads the row, number included.
StartRendering(w, d) ==
    /\ wpc[w] = "idle"
    /\ queue[d] > 0
    /\ queue' = [queue EXCEPT ![d] = @ - 1]
    /\ wpc' = [wpc EXCEPT ![w] = "rendering"]
    /\ wdoc' = [wdoc EXCEPT ![w] = d]
    /\ wnum' = [wnum EXCEPT ![w] = number[d]]
    /\ UNCHANGED <<objects, docVars, seqVars, reqVars, month, issued>>

\* s3.put_object under the key built from the number it read.
PutObject(w) ==
    /\ wpc[w] = "rendering"
    /\ objects' = {o \in objects : o[1] # wnum[w]} \union {<<wnum[w], wdoc[w]>>}
    /\ wpc' = [wpc EXCEPT ![w] = "saving"]
    /\ UNCHANGED <<queue, wdoc, wnum, docVars, seqVars, reqVars, month, issued>>

\* Mistake ruled out by PdfKeyOpensOwnPdf: the key saved before the upload.
SaveKeyEarly(w) ==
    /\ wpc[w] \in {"rendering", "saving"}
    /\ pdfKey' = [pdfKey EXCEPT ![wdoc[w]] = wnum[w]]
    /\ Finish(w)
    /\ UNCHANGED <<status, number, source, queue, objects, seqVars, reqVars,
                   month, issued>>

\* Second session: UPDATE ... SET pdf_s3_key = :key WHERE id = :id.
SaveKey(w) ==
    /\ wpc[w] = "saving"
    /\ pdfKey' = [pdfKey EXCEPT ![wdoc[w]] = wnum[w]]
    /\ Finish(w)
    /\ UNCHANGED <<status, number, source, queue, objects, seqVars, reqVars,
                   month, issued>>

\* The task raises (rendering, S3, database) or the worker stops: Celery has
\* acknowledged the message before running it and no retry is configured.
LoseTask(w) ==
    /\ wpc[w] \in {"rendering", "saving"}
    /\ Finish(w)
    /\ UNCHANGED <<queue, objects, docVars, seqVars, reqVars, month, issued>>

-----------------------------------------------------------------------------
\* The calendar moves on; LastMonth bounds it.
NextMonth ==
    /\ month < LastMonth
    /\ month' = month + 1
    /\ UNCHANGED <<docVars, seqVars, reqVars, pdfVars, issued>>

Next ==
    \/ \E i \in Invoices : CreateInvoice(i)
    \/ \E c \in CreditNotes, i \in Invoices : CreateCreditNote(c, i)
    \/ \E r \in Requests, d \in Documents : ReadDraft(r, d) \/ Refuse(r, d)
    \/ \E r \in Requests : TakeNumber(r) \/ Commit(r) \/ SendTask(r) \/ Abort(r)
    \/ \E w \in Workers, d \in Documents : StartRendering(w, d)
    \/ \E w \in Workers : PutObject(w) \/ SaveKey(w) \/ LoseTask(w)
    \/ NextMonth

Spec == Init /\ [][Next]_vars

(***************************************************************************)
(* Fairness.  A handler that is running goes on running; PostgreSQL serves *)
(* the waiters of a row lock in turn, so a request that waits for a        *)
(* sequence row is not overtaken for ever (strong fairness of TakeNumber); *)
(* an idle worker takes a waiting task.  Calls, failures and the calendar  *)
(* are not fair.                                                           *)
(***************************************************************************)
Fairness ==
    /\ \A r \in Requests :
          SF_vars(TakeNumber(r)) /\ WF_vars(Commit(r)) /\ WF_vars(SendTask(r))
    /\ \A w \in Workers :
          /\ WF_vars(PutObject(w)) /\ WF_vars(SaveKey(w))
          /\ \A d \in Documents : SF_vars(StartRendering(w, d))

FairSpec == Spec /\ Fairness

-----------------------------------------------------------------------------
(* Properties                                                              *)

\* Every variable has a value of its type.
TypeOK ==
    /\ status \in [Documents -> {"absent", "draft", "validated"}]
    /\ number \in [Documents -> Numbers \union {None}]
    /\ source \in [CreditNotes -> Invoices \union {None}]
    /\ pdfKey \in [Documents -> Numbers \union {None}]
    /\ lastNumber \in [Rows -> Nat]
    /\ rowLock \in [Rows -> Requests \union {None}]
    /\ pc \in [Requests -> {"idle", "checked", "numbered", "committed",
                            "answered", "failed"}]
    /\ target \in [Requests -> Documents \union {None}]
    /\ dated \in [Requests -> Rows \union {None}]
    /\ taken \in [Requests -> Nat]
    /\ queue \in [Documents -> Nat]
    /\ wpc \in [Workers -> {"idle", "rendering", "saving"}]
    /\ wdoc \in [Workers -> Documents \union {None}]
    /\ wnum \in [Workers -> Numbers \union {None}]
    /\ objects \subseteq (Numbers \union {None}) \X (Documents \union {None})
    /\ month \in Months
    /\ issued \subseteq Documents \X Rows \X (Nat \ {0})

\* No two documents of the tenant ever carry the same number, although two
\* validations may read the same draft, and a document carries a number
\* exactly when it is validated (validate_invoice, validate_credit_note,
\* next_invoice_number).  The unique constraints of the tables are a second
\* line of defence that this shows to be never reached.
UniqueNumbers ==
    /\ \A d \in Documents : (number[d] = None) <=> (status[d] # "validated")
    /\ \A d, e \in Documents :
          number[d] # None /\ number[d] = number[e] => d = e

\* A sequence is continuous up to renumbering: every number it has handed out
\* is carried by a document, or by nobody because a later validation of the
\* same document replaced it.  A rolled back transaction leaves no hole.
HolesAreRenumberings ==
    \A k \in Rows : \A n \in 1..lastNumber[k] :
        \E d \in Documents :
            /\ <<d, k, n>> \in issued
            /\ \/ number[d] = <<k, n>>
               \/ \E k2 \in Rows : \E n2 \in 1..lastNumber[k2] :
                     /\ <<k2, n2>> # <<k, n>>
                     /\ <<d, k2, n2>> \in issued
                     /\ number[d] = <<k2, n2>>

\* The row lock is what makes the read-increment-write of last_number atomic:
\* a request that has taken a number holds its row alone, the number is still
\* the next one of that row, and a request in any other place holds no row.
LockProtectsSequence ==
    /\ \A r \in Requests : pc[r] = "numbered" =>
          rowLock[dated[r]] = r /\ taken[r] = lastNumber[dated[r]] + 1
    /\ \A k \in Rows : rowLock[k] # None =>
          pc[rowLock[k]] = "numbered" /\ dated[rowLock[k]] = k

\* The key saved on a document opens a PDF of that document, whichever workers
\* raced to render it: the object is there, nobody overwrote it with another
\* document, and its number was once issued to this document.
PdfKeyOpensOwnPdf ==
    \A d \in Documents : pdfKey[d] # None =>
        /\ <<pdfKey[d], d>> \in objects
        /\ <<d, pdfKey[d][1], pdfKey[d][2]>> \in issued
        /\ \A o \in objects : o[1] = pdfKey[d] => o[2] = d

\* The row numbers are issued one after the other, each to one document, as
\* the promise of numbering.py says.
Sequencer == INSTANCE GaplessNumbering WITH
                 Sequences <- Rows, last <- lastNumber, given <- issued

GaplessIssue == Sequencer!Spec

\* A call that passed the draft check is eventually answered or fails, even
\* if others keep validating: no lock on a sequence row is kept for ever.
EveryCallEnds ==
    \A r \in Requests : (pc[r] = "checked") ~> (pc[r] \in {"answered", "failed"})

\* RG-A-020 of docs/02-modules-A-D.md: the numbers of invoices are strictly
\* increasing and continuous (article 242 nonies A of the French tax code):
\* every number a sequence handed out is the number of a document.
ContinuousNumbers ==
    \A k \in Rows : \A n \in 1..lastNumber[k] :
        \E d \in Documents : number[d] = <<k, n>>

=============================================================================
