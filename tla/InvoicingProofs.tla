--------------------------- MODULE InvoicingProofs ---------------------------
(***************************************************************************)
(* Proofs about Invoicing for any number of documents, requests, workers   *)
(* and months: types, the row lock, the uniqueness of numbers, and that    *)
(* the transactions of billing implement GaplessNumbering.                 *)
(***************************************************************************)
EXTENDS Invoicing, TLAPS

LEMMA DocumentsHavePrefix == \A d \in Documents : Prefix(d) \in Prefixes
  BY DEF Prefix, Prefixes

\* Rows are never NULL, nor are numbers.
LEMMA NoneIsNoNumber == \A k \in Rows, n \in Nat \ {0} : <<k, n>> \in Numbers /\ <<k, n>> # None
  BY InvoicingAssumption DEF Numbers

\* A request that is past its draft check has a document and a row, one inside
\* its transaction a number, and a worker at work a document.
LocalsSet ==
    /\ \A r \in Requests : pc[r] \in {"checked", "numbered", "committed"} =>
          target[r] \in Documents /\ dated[r] \in Rows
    /\ \A r \in Requests : pc[r] = "numbered" => taken[r] # 0
    /\ \A w \in Workers : wpc[w] # "idle" => wdoc[w] \in Documents

\* Types and locals: what every action keeps without help.
Typed == TypeOK /\ LocalsSet

LEMMA TypedInit == Init => Typed
  <1> SUFFICES ASSUME Init PROVE Typed
    OBVIOUS
  <1> USE InvoicingAssumption DEF Init
  <1>1. TypeOK
    BY DEF TypeOK, Months
  <1>2. LocalsSet
    BY DEF LocalsSet
  <1> QED
    BY <1>1, <1>2 DEF Typed

LEMMA TypedStep == Typed /\ [Next]_vars => Typed'
  <1> SUFFICES ASSUME Typed, [Next]_vars PROVE Typed'
    OBVIOUS
  <1> USE DEF Typed, TypeOK, LocalsSet, docVars, seqVars, reqVars, pdfVars
  <1>1. ASSUME NEW i \in Invoices, CreateInvoice(i) PROVE Typed'
    BY <1>1 DEF CreateInvoice, Documents
  <1>2. ASSUME NEW c \in CreditNotes, NEW i \in Invoices, CreateCreditNote(c, i)
        PROVE  Typed'
    BY <1>2 DEF CreateCreditNote, Documents
  <1>3. ASSUME NEW r \in Requests, NEW d \in Documents, ReadDraft(r, d) PROVE Typed'
    BY <1>3, DocumentsHavePrefix DEF ReadDraft, Rows
  <1>4. ASSUME NEW r \in Requests, NEW d \in Documents, Refuse(r, d) PROVE Typed'
    BY <1>4 DEF Refuse, Leave
  <1>5. ASSUME NEW r \in Requests, TakeNumber(r) PROVE Typed'
    BY <1>5 DEF TakeNumber
  <1>6. ASSUME NEW r \in Requests, Commit(r) PROVE Typed'
    BY <1>6, NoneIsNoNumber DEF Commit
  <1>7. ASSUME NEW r \in Requests, SendTask(r) PROVE Typed'
    BY <1>7 DEF SendTask, Leave
  <1>8. ASSUME NEW r \in Requests, Abort(r) PROVE Typed'
    BY <1>8 DEF Abort, Leave
  <1>9. ASSUME NEW w \in Workers, NEW d \in Documents, StartRendering(w, d) PROVE Typed'
    BY <1>9 DEF StartRendering
  <1>10. ASSUME NEW w \in Workers, PutObject(w) PROVE Typed'
    BY <1>10 DEF PutObject
  <1>11. ASSUME NEW w \in Workers, SaveKey(w) PROVE Typed'
    BY <1>11 DEF SaveKey, Finish
  <1>12. ASSUME NEW w \in Workers, LoseTask(w) PROVE Typed'
    BY <1>12 DEF LoseTask, Finish
  <1>13. CASE NextMonth
    BY <1>13, InvoicingAssumption DEF NextMonth, Months
  <1>14. CASE UNCHANGED vars
    BY <1>14 DEF vars
  <1> QED
    BY <1>1, <1>2, <1>3, <1>4, <1>5, <1>6, <1>7, <1>8, <1>9, <1>10, <1>11,
       <1>12, <1>13, <1>14 DEF Next

-----------------------------------------------------------------------------
(* The row lock.                                                           *)

LEMMA LockInit == Init => LockProtectsSequence
  BY InvoicingAssumption DEF Init, LockProtectsSequence

LEMMA LockStep == Typed /\ LockProtectsSequence /\ [Next]_vars => LockProtectsSequence'
  <1> SUFFICES ASSUME Typed, LockProtectsSequence, [Next]_vars
               PROVE  LockProtectsSequence'
    OBVIOUS
  <1> USE InvoicingAssumption DEF Typed, TypeOK, LocalsSet, LockProtectsSequence,
                                  seqVars, reqVars
  <1>1. ASSUME NEW r \in Requests, NEW d \in Documents, ReadDraft(r, d)
        PROVE  LockProtectsSequence'
    BY <1>1 DEF ReadDraft
  <1>2. ASSUME NEW r \in Requests, NEW d \in Documents, Refuse(r, d)
        PROVE  LockProtectsSequence'
    BY <1>2 DEF Refuse, Leave
  <1>3. ASSUME NEW r \in Requests, TakeNumber(r) PROVE LockProtectsSequence'
    BY <1>3 DEF TakeNumber
  <1>4. ASSUME NEW r \in Requests, Commit(r) PROVE LockProtectsSequence'
    \* Nobody else holds the row whose last_number the commit publishes.
    <2>1. \A q \in Requests : pc[q] = "numbered" /\ q # r => dated[q] # dated[r]
      BY <1>4 DEF Commit
    <2> QED
      BY <1>4, <2>1 DEF Commit
  <1>5. ASSUME NEW r \in Requests, SendTask(r) PROVE LockProtectsSequence'
    BY <1>5 DEF SendTask, Leave
  <1>6. ASSUME NEW r \in Requests, Abort(r) PROVE LockProtectsSequence'
    BY <1>6 DEF Abort, Leave
  <1>7. CASE UNCHANGED <<seqVars, reqVars>>
    BY <1>7
  <1> QED
    BY <1>1, <1>2, <1>3, <1>4, <1>5, <1>6, <1>7
    DEF Next, CreateInvoice, CreateCreditNote, StartRendering, PutObject,
        SaveKey, LoseTask, NextMonth, vars

-----------------------------------------------------------------------------
(* The ledger of issued numbers, and the numbers documents carry.          *)

\* What was issued is below the counter of its row and was issued once, and
\* nothing below the counter was left out; an issued document stays validated
\* and carries a number that was issued to it.
Ledger ==
    /\ \A d \in Documents, k \in Rows, n \in Nat \ {0} : <<d, k, n>> \in issued =>
          /\ n <= lastNumber[k]
          /\ number[d] # None
          /\ \A e \in Documents : <<e, k, n>> \in issued => e = d
    /\ \A k \in Rows : \A n \in 1..lastNumber[k] :
          \E d \in Documents : <<d, k, n>> \in issued
    /\ \A d \in Documents :
          /\ (number[d] = None) <=> (status[d] # "validated")
          /\ number[d] # None =>
                /\ number[d] \in Numbers
                /\ <<d, number[d][1], number[d][2]>> \in issued

LEMMA LedgerInit == Init => Ledger
  BY DEF Init, Ledger

LEMMA LedgerStep ==
    Typed /\ LockProtectsSequence /\ Ledger /\ [Next]_vars => Ledger'
  <1> SUFFICES ASSUME Typed, LockProtectsSequence, Ledger, [Next]_vars
               PROVE  Ledger'
    OBVIOUS
  <1> USE DEF Typed, TypeOK
  <1>1. ASSUME NEW i \in Invoices, CreateInvoice(i) PROVE Ledger'
    BY <1>1 DEF CreateInvoice, Ledger, seqVars, Documents
  <1>2. ASSUME NEW c \in CreditNotes, NEW i \in Invoices, CreateCreditNote(c, i)
        PROVE  Ledger'
    BY <1>2 DEF CreateCreditNote, Ledger, seqVars, Documents
  <1>3. ASSUME NEW r \in Requests, Commit(r) PROVE Ledger'
    <2> DEFINE d0 == target[r]
               k0 == dated[r]
               n0 == lastNumber[k0] + 1
    <2>1. /\ d0 \in Documents /\ k0 \in Rows /\ n0 \in Nat \ {0}
          /\ lastNumber' = [lastNumber EXCEPT ![k0] = n0]
          /\ number' = [number EXCEPT ![d0] = <<k0, n0>>]
          /\ status' = [status EXCEPT ![d0] = "validated"]
          /\ issued' = issued \union {<<d0, k0, n0>>}
      <3>1. pc[r] = "numbered"
        BY <1>3 DEF Commit
      <3>2. d0 \in Documents /\ k0 \in Rows /\ n0 \in Nat \ {0}
        BY <3>1 DEF LocalsSet
      <3>3. taken[r] = n0
        BY <3>1 DEF LockProtectsSequence
      <3> QED
        BY <1>3, <3>2, <3>3 DEF Commit
    <2>2. <<k0, n0>> \in Numbers /\ <<k0, n0>> # None
      BY <2>1, NoneIsNoNumber
    <2> HIDE DEF d0, k0, n0
    <2>3. n0 = lastNumber[k0] + 1
      BY DEF n0
    <2>4. \A d \in Documents : <<d, k0, n0>> \notin issued
      BY <2>1, <2>3 DEF Ledger
    <2>5. ASSUME NEW d \in Documents, NEW k \in Rows, NEW n \in Nat \ {0},
                 <<d, k, n>> \in issued'
          PROVE  /\ n <= lastNumber'[k]
                 /\ number'[d] # None
                 /\ \A e \in Documents : <<e, k, n>> \in issued' => e = d
      BY <2>1, <2>2, <2>3, <2>4, <2>5 DEF Ledger
    <2>6. ASSUME NEW k \in Rows, NEW n \in 1..lastNumber'[k]
          PROVE  \E d \in Documents : <<d, k, n>> \in issued'
      <3>1. CASE k = k0 /\ n = n0
        BY <2>1, <3>1
      <3>2. CASE n \in 1..lastNumber[k]
        BY <2>1, <3>2 DEF Ledger
      <3>3. CASE k # k0
        <4>1. lastNumber'[k] = lastNumber[k]
          BY <2>1, <3>3
        <4> QED
          BY <3>2, <4>1
      <3>4. CASE k = k0
        <4>1. lastNumber'[k] = lastNumber[k] + 1 /\ lastNumber[k] \in Nat
          BY <2>1, <2>3, <3>4
        <4>2. n \in 1..lastNumber[k] \/ n = n0
          BY <2>3, <3>4, <4>1
        <4> QED
          BY <3>1, <3>2, <3>4, <4>2
      <3> QED
        BY <3>3, <3>4
    <2>7. ASSUME NEW d \in Documents
          PROVE  /\ (number'[d] = None) <=> (status'[d] # "validated")
                 /\ number'[d] # None =>
                       /\ number'[d] \in Numbers
                       /\ <<d, number'[d][1], number'[d][2]>> \in issued'
      BY <2>1, <2>2 DEF Ledger
    <2> QED
      BY <2>5, <2>6, <2>7 DEF Ledger
  <1>4. CASE UNCHANGED <<status, number, lastNumber, issued>>
    BY <1>4 DEF Ledger
  <1> QED
    BY <1>1, <1>2, <1>3, <1>4
    DEF Next, vars, docVars, seqVars, ReadDraft, Refuse, TakeNumber, SendTask, Abort,
        StartRendering, PutObject, SaveKey, LoseTask, NextMonth

-----------------------------------------------------------------------------
(* The PDFs.                                                               *)

Issued(d, x) == x \in Numbers /\ <<d, x[1], x[2]>> \in issued

\* Tasks are about numbered documents, a worker has a number that was issued to
\* its document, and an object bears a number that was issued to its document;
\* the object is there before its key is saved, and stays.
Rendered ==
    /\ \A d \in Documents : queue[d] > 0 => number[d] # None
    /\ \A r \in Requests : pc[r] = "committed" => number[target[r]] # None
    /\ \A w \in Workers : wpc[w] # "idle" => Issued(wdoc[w], wnum[w])
    /\ \A w \in Workers : wpc[w] = "saving" => <<wnum[w], wdoc[w]>> \in objects
    /\ \A x, d : <<x, d>> \in objects => d \in Documents /\ Issued(d, x)
    /\ \A d \in Documents : pdfKey[d] # None => <<pdfKey[d], d>> \in objects

LEMMA RenderedInit == Init => Rendered
  BY DEF Init, Rendered

\* A number is issued to one document.
LEMMA IssuedOnce ==
  ASSUME Ledger, NEW x, NEW d \in Documents, NEW e \in Documents, Issued(d, x), Issued(e, x)
  PROVE  d = e
  <1>1. PICK k \in Rows, n \in Nat \ {0} : x = <<k, n>>
    BY DEF Issued, Numbers
  <1>2. <<d, k, n>> \in issued /\ <<e, k, n>> \in issued
    BY <1>1 DEF Issued
  <1> QED
    BY <1>2 DEF Ledger

\* An upload replaces no object but its own.
LEMMA UploadsAdd ==
  ASSUME Typed, Ledger, Rendered, NEW w \in Workers, wpc[w] # "idle"
  PROVE  {o \in objects : o[1] # wnum[w]} \union {<<wnum[w], wdoc[w]>>} =
             objects \union {<<wnum[w], wdoc[w]>>}
  <1>1. wdoc[w] \in Documents /\ Issued(wdoc[w], wnum[w])
    BY DEF Typed, LocalsSet, Rendered
  <1>2. ASSUME NEW o \in objects, o[1] = wnum[w] PROVE o = <<wnum[w], wdoc[w]>>
    <2>1. o = <<o[1], o[2]>>
      BY DEF Typed, TypeOK
    <2>2. o[2] \in Documents /\ Issued(o[2], o[1])
      BY <2>1 DEF Rendered
    <2> QED
      BY <1>1, <1>2, <2>1, <2>2, IssuedOnce
  <1> QED
    BY <1>2

LEMMA RenderedStep ==
    Typed /\ LockProtectsSequence /\ Ledger /\ Rendered /\ [Next]_vars => Rendered'
  <1> SUFFICES ASSUME Typed, LockProtectsSequence, Ledger, Rendered, [Next]_vars
               PROVE  Rendered'
    OBVIOUS
  <1> USE DEF Typed, TypeOK
  <1>1. ASSUME NEW r \in Requests, Commit(r) PROVE Rendered'
    <2>1. pc[r] = "numbered" /\ target[r] \in Documents /\ dated[r] \in Rows /\ taken[r] \in Nat \ {0}
      BY <1>1 DEF Commit, LocalsSet
    <2>2. <<dated[r], taken[r]>> # None
      BY <2>1, NoneIsNoNumber
    <2>3. /\ \A d \in Documents : number[d] # None => number'[d] # None
          /\ number'[target[r]] # None
      BY <1>1, <2>1, <2>2 DEF Commit
    <2>4. \A d, x : Issued(d, x) => Issued(d, x)'
      BY <1>1 DEF Commit, Issued
    <2>5. /\ pc' = [pc EXCEPT ![r] = "committed"]
          /\ UNCHANGED <<target, pdfKey, queue, wpc, wdoc, wnum, objects>>
      BY <1>1 DEF Commit, pdfVars
    <2>6. \A q \in Requests : pc'[q] = "committed" => number'[target'[q]] # None
      BY <2>3, <2>5 DEF Rendered, LocalsSet
    <2> HIDE DEF Typed, TypeOK
    <2> QED
      BY <2>3, <2>4, <2>5, <2>6 DEF Rendered
  <1>2. ASSUME NEW r \in Requests, SendTask(r) PROVE Rendered'
    <2>1. target[r] \in Documents /\ number[target[r]] # None
      BY <1>2 DEF SendTask, LocalsSet, Rendered
    <2>2. /\ \A d \in Documents : queue'[d] > 0 => queue[d] > 0 \/ d = target[r]
          /\ \A q \in Requests : pc'[q] = "committed" => pc[q] = "committed" /\ target'[q] = target[q]
          /\ UNCHANGED <<number, pdfKey, wpc, wdoc, wnum, objects, issued>>
      BY <1>2 DEF SendTask, Leave, docVars
    <2> QED
      BY <2>1, <2>2 DEF Rendered, Issued
  <1>3. ASSUME NEW r \in Requests, \/ \E d \in Documents : ReadDraft(r, d) \/ Refuse(r, d)
                                   \/ TakeNumber(r) \/ Abort(r)
        PROVE  Rendered'
    <2>1. /\ \A q \in Requests : pc'[q] = "committed" => pc[q] = "committed" /\ target'[q] = target[q]
          /\ UNCHANGED <<number, pdfKey, queue, wpc, wdoc, wnum, objects, issued>>
      BY <1>3 DEF ReadDraft, Refuse, TakeNumber, Abort, Leave, docVars, pdfVars
    <2> QED
      BY <2>1 DEF Rendered, Issued
  <1>4. ASSUME NEW w \in Workers, NEW d \in Documents, StartRendering(w, d) PROVE Rendered'
    <2>1. number[d] # None /\ Issued(d, number[d])
      BY <1>4 DEF StartRendering, Rendered, Ledger, Issued
    <2>2. /\ \A e \in Documents : queue'[e] > 0 => queue[e] > 0
          /\ \A v \in Workers : IF v = w
                THEN wpc'[v] = "rendering" /\ wdoc'[v] = d /\ wnum'[v] = number[d]
                ELSE wpc'[v] = wpc[v] /\ wdoc'[v] = wdoc[v] /\ wnum'[v] = wnum[v]
          /\ UNCHANGED <<number, pdfKey, pc, target, objects, issued>>
      BY <1>4 DEF StartRendering, docVars, reqVars
    <2> QED
      BY <2>1, <2>2 DEF Rendered, Issued
  <1>5. ASSUME NEW w \in Workers, PutObject(w) PROVE Rendered'
    <2>1. wpc[w] = "rendering" /\ wdoc[w] \in Documents /\ Issued(wdoc[w], wnum[w])
      BY <1>5 DEF PutObject, Rendered, LocalsSet
    <2>2. /\ objects' = objects \union {<<wnum[w], wdoc[w]>>}
          /\ \A v \in Workers : wpc'[v] = IF v = w THEN "saving" ELSE wpc[v]
          /\ UNCHANGED <<number, pdfKey, pc, target, queue, wdoc, wnum, issued>>
      BY <1>5, <2>1, UploadsAdd DEF PutObject, docVars, reqVars
    <2>3. \A x, d : <<x, d>> \in objects' => d \in Documents /\ Issued(d, x)
      BY <2>1, <2>2 DEF Rendered
    <2> QED
      BY <2>1, <2>2, <2>3 DEF Rendered, Issued
  <1>6. ASSUME NEW w \in Workers, SaveKey(w) \/ LoseTask(w) PROVE Rendered'
    <2>1. /\ \A v \in Workers : wpc'[v] # "idle" =>
                wpc'[v] = wpc[v] /\ wdoc'[v] = wdoc[v] /\ wnum'[v] = wnum[v]
          /\ UNCHANGED <<number, pc, target, queue, objects, issued>>
      BY <1>6 DEF SaveKey, LoseTask, Finish, docVars, reqVars
    <2>2. \A d \in Documents : pdfKey'[d] # None => <<pdfKey'[d], d>> \in objects'
      BY <1>6, <2>1 DEF SaveKey, LoseTask, Rendered, docVars
    <2> QED
      BY <2>1, <2>2 DEF Rendered, Issued
  <1>7. CASE UNCHANGED <<number, pdfKey, reqVars, pdfVars, issued>>
    BY <1>7 DEF Rendered, Issued, reqVars, pdfVars
  <1> QED
    BY <1>1, <1>2, <1>3, <1>4, <1>5, <1>6, <1>7
    DEF Next, vars, docVars, CreateInvoice, CreateCreditNote, NextMonth

-----------------------------------------------------------------------------
(* Theorems.                                                               *)

\* The inductive invariant of the transactions and of the PDF tasks.
IInv == Typed /\ LockProtectsSequence /\ Ledger /\ Rendered

LEMMA IInvAlways == Spec => []IInv
  <1>1. Init => IInv
    BY TypedInit, LockInit, LedgerInit, RenderedInit DEF IInv
  <1>2. IInv /\ [Next]_vars => IInv'
    BY TypedStep, LockStep, LedgerStep, RenderedStep DEF IInv
  <1> QED
    BY <1>1, <1>2, PTL DEF Spec

\* Types are respected in every reachable state of validate_invoice,
\* validate_credit_note and the PDF tasks.
THEOREM TypeCorrect == Spec => []TypeOK
  <1>1. IInv => TypeOK
    BY DEF IInv, Typed
  <1> QED
    BY <1>1, IInvAlways, PTL

\* The upsert's row lock protects the counter of next_invoice_number until
\* the transaction ends, for any number of concurrent validations.
THEOREM SequenceProtected == Spec => []LockProtectsSequence
  <1>1. IInv => LockProtectsSequence
    BY DEF IInv
  <1> QED
    BY <1>1, IInvAlways, PTL

\* No two documents ever carry the same number (validate_invoice 282-286).
THEOREM NumbersAreUnique == Spec => []UniqueNumbers
  <1>1. IInv => UniqueNumbers
    <2> SUFFICES ASSUME IInv, NEW d \in Documents, NEW e \in Documents,
                        number[d] # None, number[d] = number[e]
                 PROVE  d = e
      BY DEF IInv, Ledger, UniqueNumbers
    <2>1. number[d] \in Numbers /\ <<d, number[d][1], number[d][2]>> \in issued
      BY DEF IInv, Ledger
    <2>2. PICK k \in Rows, n \in Nat \ {0} : number[d] = <<k, n>>
      BY <2>1 DEF Numbers
    <2>3. <<e, number[e][1], number[e][2]>> \in issued
      BY DEF IInv, Ledger
    <2>4. number[d][1] = k /\ number[d][2] = n /\ number[e][1] = k /\ number[e][2] = n
      BY <2>2
    <2>5. <<d, k, n>> \in issued /\ <<e, k, n>> \in issued
      BY <2>1, <2>3, <2>4
    <2> QED
      BY <2>5 DEF IInv, Ledger
  <1> QED
    BY <1>1, IInvAlways, PTL

\* A hole in a sequence is always a document validated twice, never a lost
\* or rolled back transaction.
THEOREM HolesExplained == Spec => []HolesAreRenumberings
  <1>1. IInv => HolesAreRenumberings
    <2> SUFFICES ASSUME IInv, NEW k \in Rows, NEW n \in 1..lastNumber[k]
                 PROVE  \E d \in Documents :
                          /\ <<d, k, n>> \in issued
                          /\ \/ number[d] = <<k, n>>
                             \/ \E k2 \in Rows : \E n2 \in 1..lastNumber[k2] :
                                  /\ <<k2, n2>> # <<k, n>>
                                  /\ <<d, k2, n2>> \in issued
                                  /\ number[d] = <<k2, n2>>
      BY DEF HolesAreRenumberings
    <2> USE DEF IInv, Typed, TypeOK
    <2>1. PICK d \in Documents : <<d, k, n>> \in issued
      BY DEF Ledger
    <2>2. n \in Nat \ {0}
      OBVIOUS
    <2>3. number[d] \in Numbers /\ <<d, number[d][1], number[d][2]>> \in issued
      BY <2>1, <2>2 DEF Ledger
    <2>4. PICK k2 \in Rows, n2 \in Nat \ {0} : number[d] = <<k2, n2>>
      BY <2>3 DEF Numbers
    <2>5. n2 \in 1..lastNumber[k2]
      BY <2>3, <2>4 DEF Ledger
    <2>6. <<d, k2, n2>> \in issued
      BY <2>3, <2>4
    <2>7. CASE <<k2, n2>> = <<k, n>>
      BY <2>1, <2>4, <2>7
    <2>8. CASE <<k2, n2>> # <<k, n>>
      BY <2>1, <2>4, <2>5, <2>6, <2>8
    <2> QED
      BY <2>7, <2>8
  <1> QED
    BY <1>1, IInvAlways, PTL

\* The key on a document opens a PDF of this document, whichever workers raced
\* to render it (invoice_generate_pdf, credit_note_generate_pdf).
THEOREM PdfKeysOpenOwnPdfs == Spec => []PdfKeyOpensOwnPdf
  <1>1. IInv => PdfKeyOpensOwnPdf
    <2> SUFFICES ASSUME IInv, NEW d \in Documents, pdfKey[d] # None
                 PROVE  /\ <<pdfKey[d], d>> \in objects
                        /\ <<d, pdfKey[d][1], pdfKey[d][2]>> \in issued
                        /\ \A o \in objects : o[1] = pdfKey[d] => o[2] = d
      BY DEF PdfKeyOpensOwnPdf
    <2>1. <<pdfKey[d], d>> \in objects /\ Issued(d, pdfKey[d])
      BY DEF IInv, Rendered
    <2>2. ASSUME NEW o \in objects, o[1] = pdfKey[d] PROVE o[2] = d
      <3>1. o = <<o[1], o[2]>>
        BY DEF IInv, Typed, TypeOK
      <3>2. o[2] \in Documents /\ Issued(o[2], o[1])
        BY <3>1 DEF IInv, Rendered
      <3> QED
        BY <2>1, <2>2, <3>2, IssuedOnce DEF IInv
    <2> QED
      BY <2>1, <2>2 DEF Issued
  <1> QED
    BY <1>1, IInvAlways, PTL

\* The transactions of billing implement the sequencer that numbering.py
\* promises: a commit issues the next number of its row, and nothing else does.
THEOREM ImplementsSequencer == Spec => GaplessIssue
  <1>1. Init => Sequencer!Init
    BY DEF Init, Sequencer!Init
  <1>2. IInv /\ [Next]_vars => [Sequencer!Next]_(Sequencer!vars)
    <2> SUFFICES ASSUME IInv, [Next]_vars PROVE [Sequencer!Next]_(Sequencer!vars)
      OBVIOUS
    <2>1. ASSUME NEW r \in Requests, Commit(r) PROVE Sequencer!Next
      <3>1. target[r] \in Documents /\ dated[r] \in Rows
        BY <2>1 DEF IInv, Typed, LocalsSet, Commit
      <3>2. taken[r] = lastNumber[dated[r]] + 1
        BY <2>1 DEF IInv, LockProtectsSequence, Commit
      <3>3. Sequencer!Issue(target[r], dated[r])
        BY <2>1, <3>1, <3>2 DEF Commit, Sequencer!Issue, IInv, Typed, TypeOK
      <3> QED
        BY <3>1, <3>3 DEF Sequencer!Next
    <2>2. CASE UNCHANGED <<lastNumber, issued>>
      BY <2>2 DEF Sequencer!vars
    <2> QED
      BY <2>1, <2>2
      DEF Next, vars, seqVars, CreateInvoice, CreateCreditNote, ReadDraft, Refuse,
          TakeNumber, SendTask, Abort, StartRendering, PutObject, SaveKey, LoseTask,
          NextMonth
  <1> QED
    BY <1>1, <1>2, IInvAlways, PTL DEF Spec, GaplessIssue, Sequencer!Spec

=============================================================================
