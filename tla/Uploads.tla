------------------------------- MODULE Uploads -------------------------------
(***************************************************************************)
(* The programs that fill and tidy the documents of the running system     *)
(* from outside, over HTTP: upload_all_documents.py and load_all_data.py   *)
(* send scanned papers, cleanup_duplicate_documents.py rejects duplicates. *)
(* Beside them the compliance tab of the page sends papers too, and        *)
(* backfill_compliance.py writes rows that have no file.                   *)
(*                                                                         *)
(* Each request may be lost, or be answered too late (timeout=15): then    *)
(* the program counts an error and goes on, and the server may still do    *)
(* what was asked.  What happens inside create_document, and the rule on   *)
(* compliance, are the subject of module Compliance: here it is one step.  *)
(***************************************************************************)
EXTENDS Naturals, Sequences, FiniteSets

CONSTANTS Uploaders,    \* runs of the two programs that upload
          Parcels,      \* Parcels[p]: the files (entity and type) of the papers p sends
          FilledFiles,  \* files of the backfill: it writes entity types in lower case
          Cleaners,     \* runs of cleanup_duplicate_documents.py
          PageSize,     \* limit=500
          MaxPapers,    \* bounds the rows of documents
          MaxWhole,     \* bounds the papers made at a whole second
          MaxErrors,    \* bounds the failures of one upload
          MaxLaunches,  \* bounds the starts of all programs
          MaxOfficeCalls   \* bounds what the office does: uploads and decisions

VARIABLES objects,      \* keys of the objects in storage
          filed,       \* rows of documents, in the order of created_at
          lastKey,      \* keys given so far: uuid4 gives fresh ones
          pageKeys,     \* those of them that the page was given
          uploader,     \* where each upload stands
          onTheWay,     \* POSTs of documents that nobody waits for any more
          filling,      \* files that a backfill has found without a live paper
          cleaner,      \* what each cleanup has still to reject
          refused,      \* papers that the office has refused
          launches, officeCalls

\* What the programs leave alone; the office and its scripts do not.
othersVars == <<pageKeys, filling>>

uploadVars == <<objects, filed, lastKey, uploader, onTheWay, cleaner, refused, launches,
                officeCalls, othersVars>>

\* Files of the API, whose entity types are in upper case.
SentFiles == UNION {{Parcels[p][i] : i \in 1..Len(Parcels[p])} : p \in Uploaders}
Files == SentFiles \union FilledFiles

NoKey == 0

ASSUME UploadsAssumption ==
    /\ \A p \in Uploaders : Parcels[p] \in Seq(Files)
    /\ {PageSize, MaxPapers, MaxWhole, MaxErrors, MaxLaunches, MaxOfficeCalls} \subseteq Nat

Off == [step |-> "off", item |-> 0, key |-> 0, keys |-> {}, errors |-> 0]

UploadsInit ==
    /\ objects = {} /\ filed = <<>> /\ lastKey = 0 /\ onTheWay = {} /\ refused = {}
    /\ uploader = [p \in Uploaders |-> Off]
    /\ cleaner = [c \in Cleaners |-> {}]
    /\ launches = 0 /\ officeCalls = 0 /\ pageKeys = {} /\ filling = {}

Launch == launches < MaxLaunches /\ launches' = launches + 1

-----------------------------------------------------------------------------
(* Sending papers                                                            *)

At(p, step) == uploader[p].step = step

Item(p) == Parcels[p][uploader[p].item]

\* The record of p at the beginning of an item, or at the end of the list.
Turn(p, record) ==
    IF record.item = Len(Parcels[p])
    THEN [record EXCEPT !.step = "done", !.key = 0]
    ELSE [record EXCEPT !.step = "presign", !.key = 0, !.item = record.item + 1]

StartUpload(p) ==
    /\ Launch
    /\ uploader[p].step \in {"off", "done"}
    /\ uploader' = [uploader EXCEPT ![p] = Turn(p, Off)]
    /\ UNCHANGED <<objects, filed, lastKey, onTheWay, cleaner, refused, officeCalls, othersVars>>

\* presign_upload: a URL for a key of its own; nothing is stored.
Presign(p) ==
    /\ At(p, "presign")
    /\ lastKey' = lastKey + 1
    /\ uploader' = [uploader EXCEPT ![p].step = "put", ![p].key = lastKey',
                                      ![p].keys = @ \union {lastKey'}]
    /\ UNCHANGED <<objects, filed, onTheWay, cleaner, refused, launches, officeCalls, othersVars>>

\* The PUT of the file to storage.
PutObject(p) ==
    /\ At(p, "put")
    /\ objects' = objects \union {uploader[p].key}
    /\ uploader' = [uploader EXCEPT ![p].step = "confirm"]
    /\ UNCHANGED <<filed, lastKey, onTheWay, cleaner, refused, launches, officeCalls, othersVars>>

\* confirm_upload looks at the beginning of the key, and not into storage.
ConfirmUpload(p) ==
    /\ At(p, "confirm")
    /\ uploader' = [uploader EXCEPT ![p].step = "record"]
    /\ UNCHANGED <<objects, filed, lastKey, onTheWay, cleaner, refused, launches, officeCalls, othersVars>>

\* whole: the clock stands at a whole second.
Clock(whole) == whole => Cardinality({i \in DOMAIN filed : filed[i].whole}) < MaxWhole

\* create_document: the VALIDE paper of the file with the highest version
\* becomes ARCHIVE, and the new one is VALIDE with the next version.
Stored(file, key, whole) ==
    LET valid == {i \in DOMAIN filed : filed[i].file = file /\ filed[i].statut = "VALIDE"}
        top   == {i \in valid : \A j \in valid : filed[j].version <= filed[i].version}
        row(v) == [file |-> file, key |-> key, statut |-> "VALIDE", version |-> v, whole |-> whole]
    IN  /\ Len(filed) < MaxPapers /\ Clock(whole)
        /\ IF valid = {} THEN filed' = Append(filed, row(1))
           ELSE \E i \in top :
                  filed' = Append([filed EXCEPT ![i].statut = "ARCHIVE"],
                                   row(filed[i].version + 1))

\* POST /v1/documents, answered: the paper counts as uploaded.
RecordPaper(p) ==
    /\ At(p, "record")
    /\ \E whole \in BOOLEAN : Stored(Item(p), uploader[p].key, whole)
    /\ uploader' = [uploader EXCEPT ![p] = Turn(p, @)]
    /\ UNCHANGED <<objects, lastKey, onTheWay, cleaner, refused, launches, officeCalls, othersVars>>

\* The record of p with one more error.
Failed(p) == [uploader[p] EXCEPT !.errors = @ + 1]

\* Mistake ruled out by SentPapersHaveObjects: a PUT that fails is passed over.
GivesUpAndRecords(p) ==
    /\ uploader[p].step \in {"presign", "put", "confirm", "record"}
    /\ \/ /\ At(p, "put")
          /\ objects' \in {objects, objects \union {uploader[p].key}}
          /\ uploader' = [uploader EXCEPT ![p].step = "confirm"]
          /\ UNCHANGED onTheWay
       \/ /\ ~ At(p, "put")
          /\ uploader' = [uploader EXCEPT ![p] = Turn(p, Failed(p))]
          /\ UNCHANGED <<objects, onTheWay>>
    /\ UNCHANGED <<filed, lastKey, cleaner, refused, launches, officeCalls, othersVars>>

\* Extracting the page fails, or a request does or is not answered in time: an
\* error is counted and the next paper is tried.  An object may have been
\* stored, and a document may still be.
GivesUp(p) ==
    /\ uploader[p].step \in {"presign", "put", "confirm", "record"}
    /\ uploader[p].errors < MaxErrors
    /\ objects' \in {objects} \union (IF At(p, "put") THEN {objects \union {uploader[p].key}} ELSE {})
    /\ onTheWay' \in {onTheWay} \union
          (IF At(p, "record") THEN {onTheWay \union {[file |-> Item(p), key |-> uploader[p].key]}}
                            ELSE {})
    /\ uploader' = [uploader EXCEPT ![p] = Turn(p, Failed(p))]
    /\ UNCHANGED <<filed, lastKey, cleaner, refused, launches, officeCalls, othersVars>>

\* A POST that nobody waits for is served.
LateRecord(r) ==
    /\ \E whole \in BOOLEAN : Stored(r.file, r.key, whole)
    /\ onTheWay' = onTheWay \ {r}
    /\ UNCHANGED <<objects, lastKey, uploader, cleaner, refused, launches, officeCalls, othersVars>>

-----------------------------------------------------------------------------
(* The office and the daily task                                             *)

\* validate_document and reject_document: any paper, whatever its statut.
OfficeDecides(i, statut) ==
    /\ officeCalls < MaxOfficeCalls /\ officeCalls' = officeCalls + 1
    /\ filed' = [filed EXCEPT ![i].statut = statut]
    /\ refused' = IF statut = "REJETE" THEN refused \union {i} ELSE refused \ {i}
    /\ UNCHANGED <<objects, lastKey, uploader, onTheWay, cleaner, launches, othersVars>>

\* The compliance tab of the page.  Its uploadFile does not look at the answer of
\* the PUT, so the document is posted whether the object is there or not.  What
\* comes before the POST is about a key of its own.
PageUpload(file) ==
    /\ officeCalls < MaxOfficeCalls /\ officeCalls' = officeCalls + 1
    /\ lastKey' = lastKey + 1 /\ pageKeys' = pageKeys \union {lastKey'}
    /\ objects' \in {objects, objects \union {lastKey'}}
    /\ \E whole \in BOOLEAN : Stored(file, lastKey', whole)
    /\ UNCHANGED <<uploader, onTheWay, cleaner, refused, launches, filling>>

Expires(i) ==
    /\ filed[i].statut = "VALIDE"
    /\ filed' = [filed EXCEPT ![i].statut = "EXPIRE"]
    /\ UNCHANGED <<objects, lastKey, uploader, onTheWay, cleaner, refused, launches, officeCalls, othersVars>>

Live(i) == filed[i].statut \notin {"REJETE", "ARCHIVE"}

\* The backfill looks whether a file has a live paper.
FillLooks(file) ==
    /\ Launch
    /\ ~ \E i \in DOMAIN filed : filed[i].file = file /\ Live(i)
    /\ filling' = filling \union {file}
    /\ UNCHANGED <<objects, filed, lastKey, uploader, onTheWay, cleaner, refused, officeCalls,
                   pageKeys>>

\* Its row is committed: no key, the first version.  The rows of one backfill
\* are committed together; here each in a step of its own, in any order.
FillCommits(file) ==
    /\ Len(filed) < MaxPapers
    /\ \E statut \in {"VALIDE", "EXPIRE"}, whole \in BOOLEAN :
          /\ Clock(whole)
          /\ filed' = Append(filed, [file |-> file, key |-> NoKey, statut |-> statut,
                                     version |-> 1, whole |-> whole])
    /\ filling' = filling \ {file}
    /\ UNCHANGED <<objects, lastKey, uploader, onTheWay, cleaner, refused, launches, officeCalls,
                   pageKeys>>

\* It is cut off before its commit.
FillIsLost(file) ==
    /\ filling' = filling \ {file}
    /\ UNCHANGED <<objects, filed, lastKey, uploader, onTheWay, cleaner, refused, launches,
                   officeCalls, pageKeys>>

-----------------------------------------------------------------------------
(* Cleaning up                                                               *)


\* The newest papers, the rejected and archived ones left out.
Page == {i \in DOMAIN filed : i + PageSize > Len(filed) /\ Live(i)}

\* parse_created_at: a time at a whole second has no fraction, its zone is in
\* the first 26 characters and no format fits: it becomes the earliest time.
\* The sort is stable, and the page came newest first.
Parsed(i) == IF filed[i].whole THEN 0 ELSE i
Later(i, j) == Parsed(i) > Parsed(j) \/ (Parsed(i) = Parsed(j) /\ i > j)

\* Mistake ruled out by LatestSurvives: sorted the other way round.
DuplicatesOldestKept(page) ==
    {i \in page : \E j \in page : filed[j].file = filed[i].file /\ Later(i, j)}

\* All papers of a file but the latest.
Duplicates(page) == {i \in page : \E j \in page : filed[j].file = filed[i].file /\ Later(j, i)}

FetchDocuments(c) ==
    /\ Launch
    /\ cleaner[c] = {}
    /\ cleaner' = [cleaner EXCEPT ![c] = Duplicates(Page)]
    /\ UNCHANGED <<objects, filed, lastKey, uploader, onTheWay, refused, officeCalls, othersVars>>

\* One PATCH .../reject, whatever has become of the paper since.
RejectDuplicate(c, i) ==
    /\ cleaner' = [cleaner EXCEPT ![c] = @ \ {i}]
    /\ filed' = [filed EXCEPT ![i].statut = "REJETE"]
    /\ UNCHANGED <<objects, lastKey, uploader, onTheWay, refused, launches, officeCalls, othersVars>>

\* The PATCH fails: it is printed, and the next one is tried.
SkipDuplicate(c, i) ==
    /\ cleaner' = [cleaner EXCEPT ![c] = @ \ {i}]
    /\ UNCHANGED <<objects, filed, lastKey, uploader, onTheWay, refused, launches, officeCalls, othersVars>>

-----------------------------------------------------------------------------

UploaderStep(p) ==
    \/ StartUpload(p) \/ Presign(p) \/ PutObject(p) \/ ConfirmUpload(p) \/ RecordPaper(p)
    \/ GivesUp(p)

OthersStep ==
    \/ \E r \in onTheWay : LateRecord(r)
    \/ \E i \in DOMAIN filed : Expires(i) \/ \E st \in {"VALIDE", "REJETE"} : OfficeDecides(i, st)
    \/ \E file \in SentFiles : PageUpload(file)
    \/ \E file \in FilledFiles : FillLooks(file)
    \/ \E file \in filling : FillCommits(file) \/ FillIsLost(file)

CleanerStep(c) ==
    FetchDocuments(c) \/ \E i \in cleaner[c] : RejectDuplicate(c, i) \/ SkipDuplicate(c, i)

UploadsNext ==
    \/ \E p \in Uploaders : UploaderStep(p)
    \/ \E c \in Cleaners : CleanerStep(c)
    \/ OthersStep

UploadsSpec == UploadsInit /\ [][UploadsNext]_uploadVars

-----------------------------------------------------------------------------

PaperRows == [file : Files, key : 0..lastKey, statut : {"VALIDE", "ARCHIVE", "REJETE", "EXPIRE"},
              version : 1..MaxPapers, whole : BOOLEAN]

UploadsTypeOK ==
    /\ objects \subseteq 1..lastKey /\ lastKey \in Nat
    /\ Len(filed) <= MaxPapers /\ \A i \in DOMAIN filed : filed[i] \in PaperRows
    /\ uploader \in [Uploaders -> [step : {"off", "presign", "put", "confirm", "record", "done"},
                                   item : Nat, key : 0..lastKey, keys : SUBSET (1..lastKey),
                                   errors : Nat]]
    /\ onTheWay \subseteq [file : Files, key : 1..lastKey]
    /\ cleaner \in [Cleaners -> SUBSET DOMAIN filed]
    /\ refused \subseteq DOMAIN filed /\ pageKeys \subseteq 1..lastKey /\ filling \subseteq FilledFiles
    /\ {launches, officeCalls} \subseteq Nat

\* A paper that the programs have sent can be opened: its key is that of an object
\* in storage, although confirm_upload does not look, any request may fail or be
\* served after it was given up, and the programs go on after a failure.
SentPapersHaveObjects ==
    \A i \in DOMAIN filed : filed[i].key \in pageKeys \union {NoKey} \/ filed[i].key \in objects

\* What docs/02-modules-A-D.md says of every document: it has the key of its file.
\* The code does not keep this.
PapersHaveFiles == \A i \in DOMAIN filed : filed[i].key \in objects

\* The newest paper of a file stays in force, however many cleanups run while
\* papers are sent and whatever page each of them saw: none rejects it and only
\* the office can refuse it.  (No paper of the file was made at a whole second.)
LatestSurvives ==
    \A i \in DOMAIN filed :
        LET ofFile == {j \in DOMAIN filed : filed[j].file = filed[i].file}
        IN  /\ i \notin refused
            /\ \A j \in ofFile : j <= i /\ ~ filed[j].whole
            => Live(i)

\* What the docstring of cleanup_duplicate_documents.py says: of each group the
\* latest by created_at is kept.
\* The code does not keep this.
KeepsLatest ==
    \A c \in Cleaners : \A i \in cleaner[c] :
        \E j \in DOMAIN filed : filed[j].file = filed[i].file /\ j > i

\* What upload_all_documents.py prints at the end: "Done: {total - errors}/{total}
\* uploaded, {errors} errors".
\* The code does not keep this.
ReportIsTrue ==
    \A p \in Uploaders :
        At(p, "done") =>
            LET stored == {i \in DOMAIN filed : filed[i].key \in uploader[p].keys}
            IN  Cardinality(stored) = Len(Parcels[p]) - uploader[p].errors

=============================================================================
