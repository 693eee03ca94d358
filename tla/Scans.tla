--------------------------------- MODULE Scans ---------------------------------
(***************************************************************************)
(* Scanned supplier invoices: the OCR job that reads a scan (backend/app/  *)
(* modules/ocr/router.py and ocr_process_job of backend/app/infra/         *)
(* tasks.py), its validation, which creates the supplier invoice, and the  *)
(* matching and approval of that invoice (backend/app/modules/billing/     *)
(* router_extensions.py).  Rows are numbered in the order of their INSERT; *)
(* what the OCR read, amounts and suppliers are left out.                  *)
(***************************************************************************)
EXTENDS Calls, Naturals, Sequences, FiniteSets

CONSTANTS OcrWorkers,   \* the processes that run ocr_process_job
          MaxScans,     \* bounds the scans
          MaxBills      \* bounds the supplier invoices and the lines of a matching

ASSUME ScansAssumption == {MaxScans, MaxBills} \subseteq Nat /\ None \notin Nat

VARIABLES scans,        \* ocr_jobs
          inbox,        \* the messages ocr_process_job in the queue
          reader,       \* reader[w]: the scan worker w is reading, or None
          bills,        \* supplier_invoices
          billCall      \* billCall[s]: a call that has made its check

scansVars == <<scans, inbox, reader, bills, billCall>>

ScanStatus == {"pending", "processing", "needs_review", "validated"}

Scanned == [status : ScanStatus, bill : Nat \union {None}]

\* scan: the scan a bill was made from; lines: its rows in
\* supplier_invoice_matchings.
Bills == [scan : Nat, status : {"validated", "approved"},
          rapprochement : {"EN_ATTENTE", "RAPPROCHEE", "APPROUVEE"}, lines : 0..MaxBills]

NoBillCall == [step |-> "idle"]
BillCalls  == {NoBillCall} \union [step : {"validate"}, scan : Nat]
                           \union [step : {"approve"}, bill : Nat]

ScansInit ==
    /\ scans = << >> /\ bills = << >> /\ inbox = {}
    /\ reader = [w \in OcrWorkers |-> None]
    /\ billCall = [s \in Sessions |-> NoBillCall]

-----------------------------------------------------------------------------
(* The scan                                                                  *)

\* create_ocr_job commits the row and then sends the message, which a crash
\* in between or an unreachable broker loses.
CreateScan(isSent) ==
    /\ Len(scans) < MaxScans
    /\ scans' = Append(scans, [status |-> "pending", bill |-> None])
    /\ inbox' = IF isSent THEN inbox \union {Len(scans) + 1} ELSE inbox
    /\ UNCHANGED <<reader, bills, billCall>>

\* ocr_process_job: the first commit.  The message is acknowledged already.
StartReading(w, i) ==
    /\ reader[w] = None /\ i \in inbox
    /\ inbox' = inbox \ {i}
    /\ scans' = [scans EXCEPT ![i].status = "processing"]
    /\ reader' = [reader EXCEPT ![w] = i]
    /\ UNCHANGED <<bills, billCall>>

\* The second one, whatever the classification and the extractor found: an
\* extractor that fails leaves its fields empty.
FinishReading(w) ==
    /\ reader[w] # None
    /\ scans' = [scans EXCEPT ![reader[w]].status = "needs_review"]
    /\ reader' = [reader EXCEPT ![w] = None]
    /\ UNCHANGED <<inbox, bills, billCall>>

\* The download or the provider fails, or the worker dies: nothing tries again.
ReadingFails(w) ==
    /\ reader[w] # None
    /\ reader' = [reader EXCEPT ![w] = None]
    /\ UNCHANGED <<scans, inbox, bills, billCall>>

-----------------------------------------------------------------------------
(* validate_ocr_job                                                          *)

CheckScan(s, i) ==
    /\ billCall[s] = NoBillCall
    /\ i \in DOMAIN scans /\ scans[i].status = "needs_review"
    /\ billCall' = [billCall EXCEPT ![s] = [step |-> "validate", scan |-> i]]
    /\ UNCHANGED <<scans, inbox, reader, bills>>

NewBill(i) == [scan |-> i, status |-> "validated", rapprochement |-> "EN_ATTENTE", lines |-> 0]

\* The bill and the scan that points at it commit together, without a look at
\* what the scan is now.
ValidateScan(s) ==
    LET i == billCall[s].scan IN
    /\ billCall[s].step = "validate" /\ Len(bills) < MaxBills
    /\ bills' = Append(bills, NewBill(i))
    /\ scans' = [scans EXCEPT ![i].status = "validated", ![i].bill = Len(bills) + 1]
    /\ billCall' = [billCall EXCEPT ![s] = NoBillCall]
    /\ UNCHANGED <<inbox, reader>>

-----------------------------------------------------------------------------
(* The supplier invoice                                                      *)

\* match_supplier_invoice adds a line for each mission of the body, which may
\* name none, and takes an invoice in any state.
MatchBill(b, n) ==
    /\ b \in DOMAIN bills /\ bills[b].lines + n <= MaxBills
    /\ bills' = [bills EXCEPT ![b].lines = @ + n, ![b].rapprochement = "RAPPROCHEE"]
    /\ UNCHANGED <<scans, inbox, reader, billCall>>

\* Mistake ruled out by ApprovalFollowsMatching: the check reads the wrong column.
CheckMatchedByStatus(s, b) ==
    /\ billCall[s] = NoBillCall
    /\ b \in DOMAIN bills /\ bills[b].status = "validated"
    /\ billCall' = [billCall EXCEPT ![s] = [step |-> "approve", bill |-> b]]
    /\ UNCHANGED <<scans, inbox, reader, bills>>

\* approve_supplier_invoice: the check ...
CheckMatched(s, b) ==
    /\ billCall[s] = NoBillCall
    /\ b \in DOMAIN bills /\ bills[b].rapprochement = "RAPPROCHEE"
    /\ billCall' = [billCall EXCEPT ![s] = [step |-> "approve", bill |-> b]]
    /\ UNCHANGED <<scans, inbox, reader, bills>>

\* ... and the UPDATE.
ApproveBill(s) ==
    /\ billCall[s].step = "approve"
    /\ bills' = [bills EXCEPT ![billCall[s].bill].status = "approved",
                              ![billCall[s].bill].rapprochement = "APPROUVEE"]
    /\ billCall' = [billCall EXCEPT ![s] = NoBillCall]
    /\ UNCHANGED <<scans, inbox, reader>>

BillCallFails(s) ==
    /\ billCall[s] # NoBillCall
    /\ billCall' = [billCall EXCEPT ![s] = NoBillCall]
    /\ UNCHANGED <<scans, inbox, reader, bills>>

-----------------------------------------------------------------------------

ScansNext ==
    \/ \E isSent \in BOOLEAN : CreateScan(isSent)
    \/ \E w \in OcrWorkers :
        \/ \E i \in inbox : StartReading(w, i)
        \/ FinishReading(w) \/ ReadingFails(w)
    \/ \E s \in Sessions :
        \/ \E i \in DOMAIN scans : CheckScan(s, i)
        \/ \E b \in DOMAIN bills : CheckMatched(s, b)
        \/ ValidateScan(s) \/ ApproveBill(s) \/ BillCallFails(s)
    \/ \E b \in DOMAIN bills, n \in 0..MaxBills : MatchBill(b, n)

ScansSpec == ScansInit /\ [][ScansNext]_scansVars

\* The workers take what is in the queue and end what they began, one way or
\* the other.
ScansFairSpec ==
    /\ ScansSpec
    /\ \A w \in OcrWorkers : /\ WF_scansVars(\E i \in inbox : StartReading(w, i))
                             /\ WF_scansVars(FinishReading(w))

-----------------------------------------------------------------------------

\* A validated scan points at the newest bill that was made from it, however
\* many validations overlap (validate_ocr_job).
ValidatedScansHaveBills ==
    \A i \in DOMAIN scans : scans[i].status = "validated" =>
        /\ scans[i].bill \in DOMAIN bills
        /\ \A b \in DOMAIN bills : bills[b].scan = i => b <= scans[i].bill

\* The rows, what refers to them and what the calls remember are of their kinds.
ScansTypeOK ==
    /\ scans \in Seq(Scanned) /\ Len(scans) <= MaxScans /\ ValidatedScansHaveBills
    /\ inbox \subseteq DOMAIN scans
    /\ reader \in [OcrWorkers -> DOMAIN scans \union {None}]
    /\ bills \in Seq(Bills)
    /\ billCall \in [Sessions -> BillCalls]

\* No bill is approved that was never matched, though the approval works from
\* an earlier read and matchings come between (approve_supplier_invoice).
ApprovalFollowsMatching ==
    [][\A b \in DOMAIN bills : bills[b].rapprochement = "EN_ATTENTE"
            => bills'[b].rapprochement # "APPROUVEE" /\ bills'[b].status # "approved"]_scansVars

\* A validation makes one bill of a scan: "Validate OCR extraction and create a
\* supplier invoice" (validate_ocr_job).
\* The code does not keep this.
OneBillPerScan ==
    \A b, c \in DOMAIN bills : bills[b].scan = bills[c].scan => b = c

\* A scan that is created gets read: what create_ocr_job dispatches its task for.
\* The code does not keep this.
ScansGetRead ==
    \A i \in 1..MaxScans :
        (i \in DOMAIN scans /\ scans[i].status = "pending")
            ~> (i \in DOMAIN scans /\ scans[i].status # "pending")

=============================================================================
