----------------------------- MODULE UpkeepProofs -----------------------------
(***************************************************************************)
(* Proofs about what runs beside the office: the programs that send and    *)
(* tidy papers (Uploads), load the sheets (FleetSheets), check identifiers *)
(* (Identifiers), remind of invoices (Reminders), number missions          *)
(* (MissionNumbers), repair documents (Repairs) and seed the tables        *)
(* (Seeding), one section each, and all of them together (MCUpkeep).       *)
(***************************************************************************)
EXTENDS MCUpkeep, TLAPS, FiniteSetTheorems, SequenceTheorems

Statuts == {"VALIDE", "ARCHIVE", "REJETE", "EXPIRE"}
Active  == {"presign", "put", "confirm", "record"}

Papers == [file : Files, key : Nat, statut : Statuts, version : Nat, whole : BOOLEAN]

Uploader == [step : Active \union {"off", "done"}, item : Nat, key : Nat, keys : SUBSET Nat,
             errors : Nat]

\* The types that the steps below need, and the place of an upload in its list.
Shaped ==
    /\ filed \in Seq(Papers) /\ lastKey \in Nat
    /\ uploader \in [Uploaders -> Uploader]
    /\ \A p \in Uploaders : uploader[p].step \in Active => uploader[p].item \in 1..Len(Parcels[p])
    /\ onTheWay \subseteq [file : Files, key : Nat]
    /\ cleaner \in [Cleaners -> SUBSET DOMAIN filed]
    /\ filling \subseteq FilledFiles

\* Whatever the programs may still make a row of has its object already.
KeysStored ==
    /\ SentPapersHaveObjects
    /\ \A p \in Uploaders : uploader[p].step \in {"confirm", "record"} => uploader[p].key \in objects
    /\ \A r \in onTheWay : r.key \in objects

\* j is a paper of the file of i that a cleanup takes for a later one.
Supersedes(j, i) == filed[j].file = filed[i].file /\ Later(j, i)

\* A paper that is out of force has a successor, or the office has refused it.
Fates ==
    /\ \A i \in DOMAIN filed : filed[i].statut = "ARCHIVE" =>
            \E j \in DOMAIN filed : j > i /\ filed[j].file = filed[i].file
    /\ \A i \in DOMAIN filed : filed[i].statut = "REJETE" =>
            i \in refused \/ \E j \in DOMAIN filed : Supersedes(j, i)
    /\ \A c \in Cleaners : \A i \in cleaner[c] : \E j \in DOMAIN filed : Supersedes(j, i)

UploadsInv == Shaped /\ KeysStored /\ Fates

LEMMA UploadsInvInit == UploadsInit => UploadsInv
  BY UploadsAssumption
  DEF UploadsInit, UploadsInv, Shaped, KeysStored, Fates, SentPapersHaveObjects, Off, Uploader, Active,
      Papers

-----------------------------------------------------------------------------
(* Uploads: what the steps do to rows                                          *)

\* Rows are never lost, and their file, key and time stay.
Grows ==
    /\ filed' \in Seq(Papers)
    /\ DOMAIN filed \subseteq DOMAIN filed'
    /\ \A i \in DOMAIN filed : /\ filed'[i].file = filed[i].file
                               /\ filed'[i].key = filed[i].key
                               /\ filed'[i].whole = filed[i].whole

\* A row is added at the end, in force or expired, and rows of its file may become
\* ARCHIVE.
Appended(file, key) ==
    /\ Grows
    /\ DOMAIN filed' = DOMAIN filed \union {Len(filed) + 1}
    /\ filed'[Len(filed) + 1].key = key /\ filed'[Len(filed) + 1].file = file
    /\ filed'[Len(filed) + 1].statut \in {"VALIDE", "EXPIRE"}
    /\ \A i \in DOMAIN filed :
           \/ filed'[i].statut = filed[i].statut
           \/ filed'[i].statut = "ARCHIVE" /\ filed[i].file = file

\* create_document adds such a row.
LEMMA StoredAppends ==
  ASSUME Shaped, NEW file \in Files, NEW key \in Nat, NEW whole \in BOOLEAN,
         Stored(file, key, whole)
  PROVE  Appended(file, key)
  <1> DEFINE row(v) == [file |-> file, key |-> key, statut |-> "VALIDE", version |-> v, whole |-> whole]
  <1>1. filed \in Seq(Papers) /\ Len(filed) \in Nat /\ DOMAIN filed = 1..Len(filed)
    BY DEF Shaped
  <1>2. \A v \in Nat : row(v) \in Papers
    BY DEF Papers, Statuts
  <1>3. \A i \in DOMAIN filed : filed[i] \in Papers /\ filed[i].version + 1 \in Nat
    <2>1. \A i \in DOMAIN filed : filed[i] \in Papers
      BY <1>1
    <2> QED
      BY <2>1 DEF Papers
  <1>4. CASE filed' = Append(filed, row(1))
    <2> HIDE DEF row
    <2>1. /\ filed' \in Seq(Papers) /\ Len(filed') = Len(filed) + 1
          /\ \A i \in DOMAIN filed : filed'[i] = filed[i]
          /\ filed'[Len(filed) + 1] = row(1)
      BY <1>1, <1>2, <1>4
    <2> QED
      BY <1>1, <2>1 DEF Appended, Grows, row
  <1>5. ASSUME NEW i \in DOMAIN filed, filed[i].file = file,
               filed' = Append([filed EXCEPT ![i].statut = "ARCHIVE"], row(filed[i].version + 1))
        PROVE  Appended(file, key)
    <2> DEFINE old == [filed EXCEPT ![i].statut = "ARCHIVE"]
               new == row(filed[i].version + 1)
    <2>1. [filed[i] EXCEPT !.statut = "ARCHIVE"] \in Papers
      BY <1>3 DEF Papers, Statuts
    <2>2. /\ old \in Seq(Papers) /\ Len(old) = Len(filed) /\ DOMAIN old = DOMAIN filed
          /\ old[i] = [filed[i] EXCEPT !.statut = "ARCHIVE"]
          /\ \A k \in DOMAIN filed \ {i} : old[k] = filed[k]
      BY <1>1, <2>1
    <2>3. new \in Papers /\ new.file = file /\ new.key = key /\ new.statut = "VALIDE"
      BY <1>2, <1>3
    <2>4. filed' = Append(old, new)
      BY <1>5
    <2> HIDE DEF old, new
    <2>5. /\ filed' \in Seq(Papers) /\ Len(filed') = Len(filed) + 1
          /\ \A k \in DOMAIN filed : filed'[k] = old[k]
          /\ filed'[Len(filed) + 1] = new
      BY <1>1, <2>2, <2>3, <2>4
    <2>6. \A k \in DOMAIN filed : /\ filed'[k].file = filed[k].file
                                  /\ filed'[k].key = filed[k].key
                                  /\ filed'[k].whole = filed[k].whole
                                  /\ k # i => filed'[k].statut = filed[k].statut
      <3>1. \A k \in DOMAIN filed \ {i} : filed'[k] = filed[k]
        BY <2>2, <2>5
      <3>2. /\ filed'[i].file = filed[i].file /\ filed'[i].key = filed[i].key
            /\ filed'[i].whole = filed[i].whole
        <4>1. filed[i] \in Papers /\ filed'[i] = [filed[i] EXCEPT !.statut = "ARCHIVE"]
          BY <1>3, <2>2, <2>5
        <4> QED
          BY <4>1 DEF Papers
      <3> QED
        BY <3>1, <3>2
    <2>7. filed'[i].statut = "ARCHIVE"
      BY <1>3, <2>2, <2>5 DEF Papers
    <2>8. DOMAIN filed' = DOMAIN filed \union {Len(filed) + 1}
      BY <1>1, <2>5
    <2> QED
      BY <1>5, <2>3, <2>5, <2>6, <2>7, <2>8 DEF Appended, Grows
  <1> QED
    BY <1>4, <1>5 DEF Stored

\* One row gets another statut.
LEMMA StatutChanges ==
  ASSUME Shaped, NEW i \in DOMAIN filed, NEW statut \in Statuts,
         filed' = [filed EXCEPT ![i].statut = statut]
  PROVE  /\ Grows /\ DOMAIN filed' = DOMAIN filed
         /\ filed'[i].statut = statut
         /\ \A k \in DOMAIN filed \ {i} : filed'[k] = filed[k]
  <1>1. filed \in Seq(Papers) /\ filed[i] \in Papers
    BY DEF Shaped
  <1>2. /\ [filed[i] EXCEPT !.statut = statut] \in Papers
        /\ [filed[i] EXCEPT !.statut = statut].file = filed[i].file
        /\ [filed[i] EXCEPT !.statut = statut].key = filed[i].key
        /\ [filed[i] EXCEPT !.statut = statut].whole = filed[i].whole
        /\ [filed[i] EXCEPT !.statut = statut].statut = statut
    BY <1>1 DEF Papers
  <1>3. /\ filed'[i] = [filed[i] EXCEPT !.statut = statut]
        /\ DOMAIN filed' = DOMAIN filed
        /\ \A k \in DOMAIN filed \ {i} : filed'[k] = filed[k]
        /\ filed' \in Seq(Papers)
    BY <1>1, <1>2
  <1> QED
    BY <1>2, <1>3 DEF Grows

\* Successors stay successors.
LEMMA SuccessorsStay ==
  ASSUME Shaped, Grows, NEW i \in DOMAIN filed, NEW j \in DOMAIN filed, Supersedes(j, i)
  PROVE  Supersedes(j, i)'
  BY DEF Grows, Supersedes, Later, Parsed

-----------------------------------------------------------------------------
(* Uploads: what the steps do to them                                        *)

\* An upload takes up a paper of its list or is done.
LEMMA TurnShaped ==
  ASSUME NEW p \in Uploaders, NEW record \in Uploader, record.item \in 0..Len(Parcels[p])
  PROVE  /\ Turn(p, record) \in Uploader
         /\ Turn(p, record).step \in Active => Turn(p, record).item \in 1..Len(Parcels[p])
         /\ Turn(p, record).step \notin {"confirm", "record"}
  <1>1. Len(Parcels[p]) \in Nat
    BY UploadsAssumption
  <1>2. CASE record.item = Len(Parcels[p])
    BY <1>2 DEF Turn, Uploader, Active
  <1>3. CASE record.item # Len(Parcels[p])
    <2> DEFINE place == record.item + 1
               next == [record EXCEPT !.step = "presign", !.key = 0, !.item = place]
    <2>1. Turn(p, record) = next
      BY <1>3 DEF Turn
    <2>2. place \in Nat /\ place \in 1..Len(Parcels[p])
      BY <1>1, <1>3
    <2> HIDE DEF place
    <2>3. next \in Uploader /\ next.step = "presign" /\ next.item = place
      BY <2>2 DEF Uploader, Active
    <2> QED
      BY <2>1, <2>2, <2>3
  <1> QED
    BY <1>2, <1>3

\* One upload gets another record.
LEMMA UploadMoves ==
  ASSUME Shaped, NEW p \in Uploaders, NEW record \in Uploader,
         record.step \in Active => record.item \in 1..Len(Parcels[p]),
         uploader' = [uploader EXCEPT ![p] = record]
  PROVE  /\ uploader' \in [Uploaders -> Uploader]
         /\ uploader'[p] = record
         /\ \A q \in Uploaders \ {p} : uploader'[q] = uploader[q]
         /\ \A q \in Uploaders : uploader'[q].step \in Active => uploader'[q].item \in 1..Len(Parcels[q])
  <1>1. uploader \in [Uploaders -> Uploader]
    BY DEF Shaped
  <1>2. /\ uploader' \in [Uploaders -> Uploader] /\ uploader'[p] = record
        /\ \A q \in Uploaders \ {p} : uploader'[q] = uploader[q]
    BY <1>1
  <1> QED
    BY <1>2 DEF Shaped

LEMMA QuietFates ==
  ASSUME Fates, UNCHANGED <<filed, cleaner, refused>>
  PROVE  Fates'
  BY DEF Fates, Supersedes, Later, Parsed

\* Steps of an upload that store no paper: what they may do to objects and to
\* the requests on the way keeps the invariant.
LEMMA QuietUpload ==
  ASSUME UploadsInv, NEW p \in Uploaders, NEW record \in Uploader,
         record.step \in Active => record.item \in 1..Len(Parcels[p]),
         uploader' = [uploader EXCEPT ![p] = record],
         UNCHANGED <<filed, cleaner, refused>>, UNCHANGED othersVars,
         lastKey' \in Nat, objects \subseteq objects',
         record.step \in {"confirm", "record"} => record.key \in objects',
         \A r \in onTheWay' : r \in [file : Files, key : Nat] /\ r.key \in objects'
  PROVE  UploadsInv'
  <1>1. /\ uploader' \in [Uploaders -> Uploader] /\ uploader'[p] = record
        /\ \A q \in Uploaders \ {p} : uploader'[q] = uploader[q]
        /\ \A q \in Uploaders : uploader'[q].step \in Active => uploader'[q].item \in 1..Len(Parcels[q])
    BY UploadMoves DEF UploadsInv
  <1>2. Shaped'
    BY <1>1 DEF UploadsInv, Shaped, othersVars
  <1>3. KeysStored'
    BY <1>1 DEF UploadsInv, KeysStored, SentPapersHaveObjects, othersVars
  <1>4. Fates'
    BY QuietFates DEF UploadsInv
  <1> QED
    BY <1>2, <1>3, <1>4 DEF UploadsInv

LEMMA StartUploadKeeps ==
  ASSUME UploadsInv, NEW p \in Uploaders, StartUpload(p)  PROVE  UploadsInv'
  <1>1. Off \in Uploader /\ Off.item \in 0..Len(Parcels[p])
    BY UploadsAssumption DEF Off, Uploader, Active
  <1>2. /\ Turn(p, Off) \in Uploader
        /\ Turn(p, Off).step \in Active => Turn(p, Off).item \in 1..Len(Parcels[p])
        /\ Turn(p, Off).step \notin {"confirm", "record"}
    BY <1>1, TurnShaped
  <1>3. /\ uploader' = [uploader EXCEPT ![p] = Turn(p, Off)]
        /\ UNCHANGED <<filed, cleaner, refused>> /\ UNCHANGED othersVars /\ UNCHANGED <<objects, onTheWay, lastKey>>
    BY DEF StartUpload
  <1>4. lastKey' \in Nat /\ \A r \in onTheWay' : r \in [file : Files, key : Nat] /\ r.key \in objects'
    BY <1>3 DEF UploadsInv, Shaped, KeysStored
  <1> QED
    BY <1>2, <1>3, <1>4, QuietUpload

LEMMA PresignKeeps ==
  ASSUME UploadsInv, NEW p \in Uploaders, Presign(p)  PROVE  UploadsInv'
  <1> DEFINE record == [uploader[p] EXCEPT !.step = "put", !.key = lastKey', !.keys = @ \union {lastKey'}]
  <1>1. /\ uploader[p] \in Uploader /\ lastKey' \in Nat
        /\ uploader[p].step = "presign" /\ uploader[p].item \in 1..Len(Parcels[p])
    BY DEF Presign, At, UploadsInv, Shaped, Active
  <1>2. record \in Uploader /\ record.step = "put" /\ record.item = uploader[p].item
    BY <1>1 DEF Uploader, Active
  <1>3. uploader' = [uploader EXCEPT ![p] = record]
    BY DEF Presign, UploadsInv, Shaped
  <1>4. UNCHANGED <<filed, cleaner, refused>> /\ UNCHANGED othersVars /\ UNCHANGED <<objects, onTheWay>>
    BY DEF Presign
  <1>5. \A r \in onTheWay' : r \in [file : Files, key : Nat] /\ r.key \in objects'
    BY <1>4 DEF UploadsInv, Shaped, KeysStored
  <1> HIDE DEF record
  <1> QED
    BY <1>1, <1>2, <1>3, <1>4, <1>5, QuietUpload

LEMMA PutObjectKeeps ==
  ASSUME UploadsInv, NEW p \in Uploaders, PutObject(p)  PROVE  UploadsInv'
  <1> DEFINE record == [uploader[p] EXCEPT !.step = "confirm"]
  <1>1. uploader[p] \in Uploader /\ uploader[p].step = "put" /\ uploader[p].item \in 1..Len(Parcels[p])
    BY DEF PutObject, At, UploadsInv, Shaped, Active
  <1>2. /\ record \in Uploader /\ record.step = "confirm"
        /\ record.item = uploader[p].item /\ record.key = uploader[p].key
    BY <1>1 DEF Uploader, Active
  <1>3. /\ uploader' = [uploader EXCEPT ![p] = record]
        /\ UNCHANGED <<filed, cleaner, refused>> /\ UNCHANGED othersVars /\ UNCHANGED <<lastKey, onTheWay>>
        /\ objects' = objects \union {uploader[p].key}
    BY DEF PutObject
  <1>4. lastKey' \in Nat /\ \A r \in onTheWay' : r \in [file : Files, key : Nat] /\ r.key \in objects'
    BY <1>3 DEF UploadsInv, Shaped, KeysStored
  <1> HIDE DEF record
  <1> QED
    BY <1>1, <1>2, <1>3, <1>4, QuietUpload

LEMMA ConfirmUploadKeeps ==
  ASSUME UploadsInv, NEW p \in Uploaders, ConfirmUpload(p)  PROVE  UploadsInv'
  <1> DEFINE record == [uploader[p] EXCEPT !.step = "record"]
  <1>1. /\ uploader[p] \in Uploader /\ uploader[p].item \in 1..Len(Parcels[p])
        /\ uploader[p].key \in objects
    BY DEF ConfirmUpload, At, UploadsInv, Shaped, KeysStored, Active
  <1>2. /\ record \in Uploader /\ record.step = "record"
        /\ record.item = uploader[p].item /\ record.key = uploader[p].key
    BY <1>1 DEF Uploader, Active
  <1>3. /\ uploader' = [uploader EXCEPT ![p] = record]
        /\ UNCHANGED <<filed, cleaner, refused>> /\ UNCHANGED othersVars /\ UNCHANGED <<objects, lastKey, onTheWay>>
    BY DEF ConfirmUpload
  <1>4. lastKey' \in Nat /\ \A r \in onTheWay' : r \in [file : Files, key : Nat] /\ r.key \in objects'
    BY <1>3 DEF UploadsInv, Shaped, KeysStored
  <1> HIDE DEF record
  <1> QED
    BY <1>1, <1>2, <1>3, <1>4, QuietUpload

\* The paper whose POST is given up has its object: the PUT was answered.
LEMMA GivesUpKeeps ==
  ASSUME UploadsInv, NEW p \in Uploaders, GivesUp(p)  PROVE  UploadsInv'
  <1> DEFINE posted == [file |-> Item(p), key |-> uploader[p].key]
  <1>1. /\ uploader[p] \in Uploader /\ uploader[p].item \in 1..Len(Parcels[p])
        /\ uploader[p].step = "record" => uploader[p].key \in objects
    BY DEF GivesUp, UploadsInv, Shaped, KeysStored, Active
  <1>2. Failed(p) \in Uploader /\ Failed(p).item \in 0..Len(Parcels[p])
    <2>1. Len(Parcels[p]) \in Nat
      BY UploadsAssumption
    <2> QED
      BY <1>1, <2>1 DEF Failed, Uploader, Active
  <1>3. posted \in [file : Files, key : Nat]
    <2>1. Parcels[p] \in Seq(Files)
      BY UploadsAssumption
    <2>2. Item(p) \in Files
      BY <1>1, <2>1 DEF Item
    <2> QED
      BY <1>1, <2>2 DEF Uploader
  <1>4. UNCHANGED <<filed, cleaner, refused>> /\ UNCHANGED othersVars /\ lastKey' = lastKey
    BY DEF GivesUp
  <1>5. uploader' = [uploader EXCEPT ![p] = Turn(p, Failed(p))]
    BY DEF GivesUp
  <1>6. objects \subseteq objects'
    BY DEF GivesUp
  <1>7. onTheWay' = onTheWay \/ (uploader[p].step = "record" /\ onTheWay' = onTheWay \union {posted})
    BY DEF GivesUp, At
  <1>8. /\ Turn(p, Failed(p)) \in Uploader
        /\ Turn(p, Failed(p)).step \in Active => Turn(p, Failed(p)).item \in 1..Len(Parcels[p])
        /\ Turn(p, Failed(p)).step \notin {"confirm", "record"}
    BY <1>2, TurnShaped
  <1>9. \A r \in onTheWay' : r \in [file : Files, key : Nat] /\ r.key \in objects'
    BY <1>1, <1>3, <1>6, <1>7 DEF UploadsInv, Shaped, KeysStored
  <1>10. lastKey' \in Nat
    BY <1>4 DEF UploadsInv, Shaped
  <1> QED
    BY <1>4, <1>5, <1>6, <1>8, <1>9, <1>10, QuietUpload

-----------------------------------------------------------------------------
(* Uploads: steps that change rows                                           *)

\* Adding a row, whoever does it: one that the programs ask for has its object.
LEMMA AppendingKeeps ==
  ASSUME UploadsInv, NEW file, NEW key, Appended(file, key),
         key \in objects' \union pageKeys' \union {NoKey},
         objects \subseteq objects', pageKeys \subseteq pageKeys',
         UNCHANGED <<cleaner, refused>>
  PROVE  /\ Fates' /\ SentPapersHaveObjects'
         /\ filed' \in Seq(Papers) /\ cleaner' \in [Cleaners -> SUBSET DOMAIN filed']
  <1> DEFINE new == Len(filed) + 1
  <1>1. Shaped /\ Fates /\ SentPapersHaveObjects
    BY DEF UploadsInv, KeysStored
  <1>2. Len(filed) \in Nat /\ DOMAIN filed = 1..Len(filed)
    BY <1>1 DEF Shaped
  <1>3. /\ Grows
        /\ DOMAIN filed' = DOMAIN filed \union {new}
        /\ filed'[new].key = key /\ filed'[new].file = file /\ filed'[new].statut \in {"VALIDE", "EXPIRE"}
        /\ \A i \in DOMAIN filed :
                \/ filed'[i].statut = filed[i].statut
                \/ filed'[i].statut = "ARCHIVE" /\ filed[i].file = file
    BY DEF Appended
  <1>4. \A i \in DOMAIN filed : new > i
    BY <1>2
  <1> HIDE DEF new
  <1>5. \A i, j \in DOMAIN filed : Supersedes(j, i) => Supersedes(j, i)'
    BY <1>1, <1>3, SuccessorsStay
  <1>6. ASSUME NEW i \in DOMAIN filed', filed'[i].statut = "ARCHIVE"
        PROVE  \E j \in DOMAIN filed' : j > i /\ filed'[j].file = filed'[i].file
    <2>1. i \in DOMAIN filed /\ filed'[i].file = filed[i].file
      BY <1>3, <1>6 DEF Grows
    <2>2. CASE filed[i].statut = "ARCHIVE"
      BY <1>1, <1>3, <2>1, <2>2 DEF Fates, Grows
    <2>3. CASE filed[i].file = file
      BY <1>3, <1>4, <2>1, <2>3
    <2> QED
      BY <1>3, <1>6, <2>1, <2>2, <2>3
  <1>7. ASSUME NEW i \in DOMAIN filed', filed'[i].statut = "REJETE"
        PROVE  i \in refused' \/ \E j \in DOMAIN filed' : Supersedes(j, i)'
    <2>1. i \in DOMAIN filed /\ filed[i].statut = "REJETE"
      BY <1>3, <1>7
    <2> QED
      BY <1>1, <1>3, <1>5, <2>1 DEF Fates
  <1>8. ASSUME NEW c \in Cleaners, NEW i \in cleaner'[c]
        PROVE  \E j \in DOMAIN filed' : Supersedes(j, i)'
    <2>1. i \in cleaner[c] /\ i \in DOMAIN filed
      BY <1>1 DEF Shaped
    <2> QED
      BY <1>1, <1>3, <1>5, <2>1 DEF Fates
  <1>9. Fates'
    BY <1>6, <1>7, <1>8 DEF Fates
  <1>10. SentPapersHaveObjects'
    BY <1>1, <1>3 DEF SentPapersHaveObjects, Grows
  <1>11. filed' \in Seq(Papers)
    BY <1>3 DEF Grows
  <1>12. cleaner' \in [Cleaners -> SUBSET DOMAIN filed']
    BY <1>1, <1>3 DEF Shaped
  <1> QED
    BY <1>9, <1>10, <1>11, <1>12

\* Storing a paper for the programs: its object is there.
LEMMA StoringKeeps ==
  ASSUME UploadsInv, NEW file \in Files, NEW key \in objects, key \in Nat,
         NEW whole \in BOOLEAN, Stored(file, key, whole),
         UNCHANGED <<objects, lastKey, cleaner, refused, othersVars>>
  PROVE  /\ Fates' /\ SentPapersHaveObjects'
         /\ filed' \in Seq(Papers) /\ lastKey' \in Nat /\ cleaner' \in [Cleaners -> SUBSET DOMAIN filed']
         /\ filling' \subseteq FilledFiles
  <1>1. Appended(file, key)
    BY StoredAppends DEF UploadsInv
  <1>2. /\ Fates' /\ SentPapersHaveObjects'
        /\ filed' \in Seq(Papers) /\ cleaner' \in [Cleaners -> SUBSET DOMAIN filed']
    BY <1>1, AppendingKeeps DEF othersVars
  <1>3. lastKey' \in Nat /\ filling' \subseteq FilledFiles
    BY DEF UploadsInv, Shaped, othersVars
  <1> QED
    BY <1>2, <1>3

LEMMA RecordPaperKeeps ==
  ASSUME UploadsInv, NEW p \in Uploaders, RecordPaper(p)  PROVE  UploadsInv'
  <1>1. /\ uploader[p] \in Uploader /\ uploader[p].item \in 1..Len(Parcels[p])
        /\ uploader[p].key \in objects
    BY DEF RecordPaper, At, UploadsInv, Shaped, KeysStored, Active
  <1>2. /\ uploader' = [uploader EXCEPT ![p] = Turn(p, uploader[p])]
        /\ UNCHANGED <<objects, lastKey, cleaner, refused, othersVars>> /\ onTheWay' = onTheWay
    BY DEF RecordPaper
  <1>3. Item(p) \in Files
    <2>1. Parcels[p] \in Seq(Files)
      BY UploadsAssumption
    <2> QED
      BY <1>1, <2>1 DEF Item
  <1>4. uploader[p].key \in Nat /\ uploader[p].item \in 0..Len(Parcels[p])
    <2>1. Len(Parcels[p]) \in Nat
      BY UploadsAssumption
    <2> QED
      BY <1>1, <2>1 DEF Uploader
  <1>5. PICK whole \in BOOLEAN : Stored(Item(p), uploader[p].key, whole)
    BY DEF RecordPaper
  <1>6. /\ Fates' /\ SentPapersHaveObjects'
        /\ filed' \in Seq(Papers) /\ lastKey' \in Nat /\ cleaner' \in [Cleaners -> SUBSET DOMAIN filed']
        /\ filling' \subseteq FilledFiles
    BY <1>1, <1>2, <1>3, <1>4, <1>5, StoringKeeps
  <1>7. /\ Turn(p, uploader[p]) \in Uploader
        /\ Turn(p, uploader[p]).step \in Active => Turn(p, uploader[p]).item \in 1..Len(Parcels[p])
        /\ Turn(p, uploader[p]).step \notin {"confirm", "record"}
    BY <1>1, <1>4, TurnShaped
  <1>8. /\ uploader' \in [Uploaders -> Uploader] /\ uploader'[p] = Turn(p, uploader[p])
        /\ \A q \in Uploaders \ {p} : uploader'[q] = uploader[q]
        /\ \A q \in Uploaders : uploader'[q].step \in Active => uploader'[q].item \in 1..Len(Parcels[q])
    BY <1>2, <1>7, UploadMoves DEF UploadsInv
  <1>9. Shaped'
    BY <1>2, <1>6, <1>8 DEF UploadsInv, Shaped
  <1>10. KeysStored'
    BY <1>2, <1>6, <1>7, <1>8 DEF UploadsInv, KeysStored
  <1> QED
    BY <1>6, <1>9, <1>10 DEF UploadsInv

LEMMA LateRecordKeeps ==
  ASSUME UploadsInv, NEW r \in onTheWay, LateRecord(r)  PROVE  UploadsInv'
  <1>1. r.file \in Files /\ r.key \in Nat /\ r.key \in objects
    BY DEF UploadsInv, Shaped, KeysStored
  <1>2. /\ onTheWay' = onTheWay \ {r} /\ uploader' = uploader
        /\ UNCHANGED <<objects, lastKey, cleaner, refused, othersVars>>
    BY DEF LateRecord
  <1>3. PICK whole \in BOOLEAN : Stored(r.file, r.key, whole)
    BY DEF LateRecord
  <1>4. /\ Fates' /\ SentPapersHaveObjects'
        /\ filed' \in Seq(Papers) /\ lastKey' \in Nat /\ cleaner' \in [Cleaners -> SUBSET DOMAIN filed']
        /\ filling' \subseteq FilledFiles
    BY <1>1, <1>2, <1>3, StoringKeeps
  <1>5. Shaped'
    BY <1>2, <1>4 DEF UploadsInv, Shaped
  <1>6. KeysStored'
    BY <1>2, <1>4 DEF UploadsInv, KeysStored
  <1> QED
    BY <1>4, <1>5, <1>6 DEF UploadsInv

\* A change of statut, by the office, the daily task or a cleanup.
LEMMA StatutKeeps ==
  ASSUME UploadsInv, NEW i \in DOMAIN filed, NEW statut \in {"VALIDE", "REJETE", "EXPIRE"},
         filed' = [filed EXCEPT ![i].statut = statut],
         refused \ {i} \subseteq refused',
         statut = "REJETE" => i \in refused' \/ \E j \in DOMAIN filed : Supersedes(j, i),
         cleaner' \in [Cleaners -> SUBSET DOMAIN filed],
         \A c \in Cleaners : cleaner'[c] \subseteq cleaner[c],
         UNCHANGED <<objects, lastKey, uploader, onTheWay, othersVars>>
  PROVE  UploadsInv'
  <1>1. Shaped /\ Fates /\ KeysStored
    BY DEF UploadsInv
  <1>2. /\ Grows /\ DOMAIN filed' = DOMAIN filed /\ filed'[i].statut = statut
        /\ \A k \in DOMAIN filed \ {i} : filed'[k] = filed[k]
    BY <1>1, StatutChanges DEF Statuts
  <1>3. \A k, j \in DOMAIN filed : Supersedes(j, k) => Supersedes(j, k)'
    BY <1>1, <1>2, SuccessorsStay
  <1>4. ASSUME NEW k \in DOMAIN filed', filed'[k].statut = "ARCHIVE"
        PROVE  \E j \in DOMAIN filed' : j > k /\ filed'[j].file = filed'[k].file
    <2>1. k \in DOMAIN filed /\ k # i /\ filed[k].statut = "ARCHIVE"
      BY <1>2, <1>4
    <2> QED
      BY <1>1, <1>2, <2>1 DEF Fates, Grows
  <1>5. ASSUME NEW k \in DOMAIN filed', filed'[k].statut = "REJETE"
        PROVE  k \in refused' \/ \E j \in DOMAIN filed' : Supersedes(j, k)'
    <2>1. CASE k = i
      BY <1>2, <1>3, <1>5, <2>1
    <2>2. CASE k # i
      <3>1. k \in DOMAIN filed /\ filed[k].statut = "REJETE"
        BY <1>2, <1>5, <2>2
      <3> QED
        BY <1>1, <1>2, <1>3, <2>2, <3>1 DEF Fates
    <2> QED
      BY <2>1, <2>2
  <1>6. ASSUME NEW c \in Cleaners, NEW k \in cleaner'[c]
        PROVE  \E j \in DOMAIN filed' : Supersedes(j, k)'
    <2>1. k \in cleaner[c] /\ k \in DOMAIN filed
      BY <1>1 DEF Shaped
    <2> QED
      BY <1>1, <1>2, <1>3, <2>1 DEF Fates
  <1>7. Fates'
    BY <1>4, <1>5, <1>6 DEF Fates
  <1>8. Shaped'
    BY <1>1, <1>2 DEF Shaped, Grows, othersVars
  <1>9. KeysStored'
    BY <1>1, <1>2 DEF KeysStored, SentPapersHaveObjects, Grows, othersVars
  <1> QED
    BY <1>7, <1>8, <1>9 DEF UploadsInv

LEMMA OfficeDecidesKeeps ==
  ASSUME UploadsInv, NEW i \in DOMAIN filed, NEW statut \in {"VALIDE", "REJETE"},
         OfficeDecides(i, statut)
  PROVE  UploadsInv'
  <1>1. /\ filed' = [filed EXCEPT ![i].statut = statut] /\ cleaner' = cleaner
        /\ refused \ {i} \subseteq refused'
        /\ statut = "REJETE" => i \in refused'
        /\ UNCHANGED <<objects, lastKey, uploader, onTheWay, othersVars>>
    BY DEF OfficeDecides
  <1>2. cleaner' \in [Cleaners -> SUBSET DOMAIN filed] /\ \A c \in Cleaners : cleaner'[c] \subseteq cleaner[c]
    BY <1>1 DEF UploadsInv, Shaped
  <1>3. statut \in {"VALIDE", "REJETE", "EXPIRE"}
    OBVIOUS
  <1> QED
    BY <1>1, <1>2, <1>3, StatutKeeps

LEMMA ExpiresKeeps ==
  ASSUME UploadsInv, NEW i \in DOMAIN filed, Expires(i)  PROVE  UploadsInv'
  <1>1. /\ filed' = [filed EXCEPT ![i].statut = "EXPIRE"] /\ UNCHANGED <<cleaner, refused>>
        /\ UNCHANGED <<objects, lastKey, uploader, onTheWay, othersVars>>
    BY DEF Expires
  <1>2. cleaner' \in [Cleaners -> SUBSET DOMAIN filed] /\ \A c \in Cleaners : cleaner'[c] \subseteq cleaner[c]
    BY <1>1 DEF UploadsInv, Shaped
  <1> QED
    BY <1>1, <1>2, StatutKeeps

\* The page's upload may leave its paper without an object: its key is the page's.
LEMMA PageUploadKeeps ==
  ASSUME UploadsInv, NEW file \in SentFiles, PageUpload(file)  PROVE  UploadsInv'
  <1>1. /\ lastKey' = lastKey + 1 /\ pageKeys' = pageKeys \union {lastKey'}
        /\ objects \subseteq objects'
        /\ UNCHANGED <<uploader, onTheWay, cleaner, refused, filling>>
    BY DEF PageUpload
  <1>2. PICK whole \in BOOLEAN : Stored(file, lastKey', whole)
    BY DEF PageUpload
  <1>3. lastKey' \in Nat /\ file \in Files
    BY <1>1 DEF UploadsInv, Shaped, Files
  <1>4. Appended(file, lastKey')
    BY <1>2, <1>3, StoredAppends DEF UploadsInv
  <1>5. /\ Fates' /\ SentPapersHaveObjects'
        /\ filed' \in Seq(Papers) /\ cleaner' \in [Cleaners -> SUBSET DOMAIN filed']
    BY <1>1, <1>4, AppendingKeeps
  <1>6. Shaped'
    BY <1>1, <1>3, <1>5 DEF UploadsInv, Shaped
  <1>7. KeysStored'
    BY <1>1, <1>5 DEF UploadsInv, KeysStored
  <1> QED
    BY <1>5, <1>6, <1>7 DEF UploadsInv

\* The backfill's row.
LEMMA FillAppends ==
  ASSUME Shaped, NEW file \in filling, FillCommits(file)  PROVE  Appended(file, NoKey)
  <1>1. filed \in Seq(Papers) /\ Len(filed) \in Nat /\ DOMAIN filed = 1..Len(filed)
    BY DEF Shaped
  <1>2. PICK statut \in {"VALIDE", "EXPIRE"}, whole \in BOOLEAN :
            filed' = Append(filed, [file |-> file, key |-> NoKey, statut |-> statut, version |-> 1,
                                    whole |-> whole])
    BY DEF FillCommits
  <1> DEFINE row == [file |-> file, key |-> NoKey, statut |-> statut, version |-> 1, whole |-> whole]
  <1>3. /\ row \in Papers /\ row.key = NoKey /\ row.file = file
        /\ row.statut \in {"VALIDE", "EXPIRE"}
    BY DEF Papers, Statuts, NoKey, Files, Shaped
  <1> HIDE DEF row
  <1>4. filed' = Append(filed, row)
    BY <1>2 DEF row
  <1>5. /\ filed' \in Seq(Papers) /\ DOMAIN filed' = DOMAIN filed \union {Len(filed) + 1}
        /\ \A i \in DOMAIN filed : filed'[i] = filed[i]
        /\ filed'[Len(filed) + 1] = row
    BY <1>1, <1>3, <1>4
  <1> QED
    BY <1>3, <1>5 DEF Appended, Grows

LEMMA FillCommitsKeeps ==
  ASSUME UploadsInv, NEW file \in filling, FillCommits(file)  PROVE  UploadsInv'
  <1>1. /\ filling' = filling \ {file}
        /\ UNCHANGED <<objects, lastKey, uploader, onTheWay, cleaner, refused, pageKeys>>
    BY DEF FillCommits
  <1>2. Appended(file, NoKey)
    BY FillAppends DEF UploadsInv
  <1>3. /\ Fates' /\ SentPapersHaveObjects'
        /\ filed' \in Seq(Papers) /\ cleaner' \in [Cleaners -> SUBSET DOMAIN filed']
    BY <1>1, <1>2, AppendingKeeps
  <1>4. Shaped'
    BY <1>1, <1>3 DEF UploadsInv, Shaped
  <1>5. KeysStored'
    BY <1>1, <1>3 DEF UploadsInv, KeysStored
  <1> QED
    BY <1>3, <1>4, <1>5 DEF UploadsInv

\* Looking for a live paper and being cut off write no row.
LEMMA FillMovesKeeps ==
  ASSUME UploadsInv, filling' \subseteq FilledFiles,
         UNCHANGED <<objects, filed, lastKey, uploader, onTheWay, cleaner, refused, pageKeys>>
  PROVE  UploadsInv'
  <1>1. Shaped' /\ KeysStored'
    BY DEF UploadsInv, Shaped, KeysStored, SentPapersHaveObjects
  <1>2. Fates'
    BY QuietFates DEF UploadsInv
  <1> QED
    BY <1>1, <1>2 DEF UploadsInv

LEMMA BackfillKeeps ==
  ASSUME UploadsInv,
         \/ \E file \in FilledFiles : FillLooks(file)
         \/ \E file \in filling : FillCommits(file) \/ FillIsLost(file)
  PROVE  UploadsInv'
  <1>1. ASSUME NEW file \in FilledFiles, FillLooks(file)  PROVE UploadsInv'
    BY <1>1, FillMovesKeeps DEF FillLooks, UploadsInv, Shaped
  <1>2. ASSUME NEW file \in filling, FillIsLost(file)  PROVE UploadsInv'
    BY <1>2, FillMovesKeeps DEF FillIsLost, UploadsInv, Shaped
  <1> QED
    BY <1>1, <1>2, FillCommitsKeeps

\* What a cleanup puts on its list has a later paper on the same page.
LEMMA FetchDocumentsKeeps ==
  ASSUME UploadsInv, NEW c \in Cleaners, FetchDocuments(c)  PROVE  UploadsInv'
  <1>1. /\ cleaner' = [cleaner EXCEPT ![c] = Duplicates(Page)] /\ UNCHANGED <<filed, refused>>
        /\ UNCHANGED <<objects, lastKey, uploader, onTheWay, othersVars>>
    BY DEF FetchDocuments
  <1>2. Page \subseteq DOMAIN filed
    BY DEF Page
  <1>3. Duplicates(Page) \subseteq DOMAIN filed
    BY <1>2 DEF Duplicates
  <1>4. /\ cleaner' \in [Cleaners -> SUBSET DOMAIN filed] /\ cleaner'[c] = Duplicates(Page)
        /\ \A d \in Cleaners \ {c} : cleaner'[d] = cleaner[d]
    BY <1>1, <1>3 DEF UploadsInv, Shaped
  <1>5. \A i \in Duplicates(Page) : \E j \in DOMAIN filed : Supersedes(j, i)
    BY <1>2 DEF Duplicates, Supersedes
  <1>6. \A d \in Cleaners : \A i \in cleaner'[d] : \E j \in DOMAIN filed : Supersedes(j, i)
    BY <1>4, <1>5 DEF UploadsInv, Fates
  <1>7. \A i, j \in DOMAIN filed : Supersedes(j, i) => Supersedes(j, i)'
    BY <1>1 DEF Supersedes, Later, Parsed
  <1>8. Fates'
    BY <1>1, <1>4, <1>6, <1>7 DEF UploadsInv, Fates
  <1>9. Shaped' /\ KeysStored'
    BY <1>1, <1>4 DEF UploadsInv, Shaped, KeysStored, SentPapersHaveObjects, othersVars
  <1> QED
    BY <1>8, <1>9 DEF UploadsInv

LEMMA CrossOff ==
  ASSUME Shaped, NEW c \in Cleaners, NEW i \in cleaner[c], cleaner' = [cleaner EXCEPT ![c] = @ \ {i}]
  PROVE  /\ cleaner' \in [Cleaners -> SUBSET DOMAIN filed]
         /\ \A d \in Cleaners : cleaner'[d] \subseteq cleaner[d]
  BY DEF Shaped

LEMMA RejectDuplicateKeeps ==
  ASSUME UploadsInv, NEW c \in Cleaners, NEW i \in cleaner[c], RejectDuplicate(c, i)
  PROVE  UploadsInv'
  <1>1. /\ filed' = [filed EXCEPT ![i].statut = "REJETE"] /\ refused' = refused
        /\ cleaner' = [cleaner EXCEPT ![c] = @ \ {i}]
        /\ UNCHANGED <<objects, lastKey, uploader, onTheWay, othersVars>>
    BY DEF RejectDuplicate
  <1>2. i \in DOMAIN filed /\ \E j \in DOMAIN filed : Supersedes(j, i)
    BY DEF UploadsInv, Shaped, Fates
  <1>3. cleaner' \in [Cleaners -> SUBSET DOMAIN filed] /\ \A d \in Cleaners : cleaner'[d] \subseteq cleaner[d]
    BY <1>1, CrossOff DEF UploadsInv
  <1> QED
    BY <1>1, <1>2, <1>3, StatutKeeps

LEMMA SkipDuplicateKeeps ==
  ASSUME UploadsInv, NEW c \in Cleaners, NEW i \in cleaner[c], SkipDuplicate(c, i)
  PROVE  UploadsInv'
  <1>1. /\ UNCHANGED <<filed, refused>> /\ UNCHANGED <<objects, lastKey, uploader, onTheWay, othersVars>>
        /\ cleaner' = [cleaner EXCEPT ![c] = @ \ {i}]
    BY DEF SkipDuplicate
  <1>2. cleaner' \in [Cleaners -> SUBSET DOMAIN filed] /\ \A d \in Cleaners : cleaner'[d] \subseteq cleaner[d]
    BY <1>1, CrossOff DEF UploadsInv
  <1>3. \A d \in Cleaners : \A k \in cleaner'[d] : \E j \in DOMAIN filed : Supersedes(j, k)
    BY <1>2 DEF UploadsInv, Fates
  <1>4. \A k, j \in DOMAIN filed : Supersedes(j, k) => Supersedes(j, k)'
    BY <1>1 DEF Supersedes, Later, Parsed
  <1>5. Fates'
    BY <1>1, <1>2, <1>3, <1>4 DEF UploadsInv, Fates
  <1>6. Shaped' /\ KeysStored'
    BY <1>1, <1>2 DEF UploadsInv, Shaped, KeysStored, SentPapersHaveObjects, othersVars
  <1> QED
    BY <1>5, <1>6 DEF UploadsInv

-----------------------------------------------------------------------------
(* Uploads: the theorems                                                     *)

LEMMA UploadsInvStep == UploadsInv /\ [UploadsNext]_uploadVars => UploadsInv'
  <1> SUFFICES ASSUME UploadsInv, [UploadsNext]_uploadVars  PROVE UploadsInv'
    OBVIOUS
  <1>1. ASSUME NEW p \in Uploaders, UploaderStep(p)  PROVE UploadsInv'
    BY <1>1, StartUploadKeeps, PresignKeeps, PutObjectKeeps, ConfirmUploadKeeps, RecordPaperKeeps,
       GivesUpKeeps DEF UploaderStep
  <1>2. ASSUME NEW c \in Cleaners, CleanerStep(c)  PROVE UploadsInv'
    BY <1>2, FetchDocumentsKeeps, RejectDuplicateKeeps, SkipDuplicateKeeps DEF CleanerStep
  <1>3. CASE OthersStep
    BY <1>3, LateRecordKeeps, ExpiresKeeps, OfficeDecidesKeeps, PageUploadKeeps, BackfillKeeps
    DEF OthersStep
  <1>4. CASE UNCHANGED uploadVars
    <2>1. /\ UNCHANGED <<objects, filed, lastKey, uploader, onTheWay, pageKeys, filling>>
          /\ UNCHANGED <<filed, cleaner, refused>>
      BY <1>4 DEF uploadVars, othersVars
    <2>2. Shaped' /\ KeysStored'
      BY <2>1 DEF UploadsInv, Shaped, KeysStored, SentPapersHaveObjects
    <2> QED
      BY <2>1, <2>2, QuietFates DEF UploadsInv
  <1> QED
    BY <1>1, <1>2, <1>3, <1>4 DEF UploadsNext

LEMMA UploadsInvAlways == UploadsSpec => []UploadsInv
  BY UploadsInvInit, UploadsInvStep, PTL DEF UploadsSpec

\* Every document that the two uploading programs send has its object in storage,
\* whatever requests are lost or served late and whatever the page and the
\* backfill, whose rows may have none, add meanwhile.
THEOREM SentPapersCanBeOpened == UploadsSpec => []SentPapersHaveObjects
  <1>1. UploadsInv => SentPapersHaveObjects
    BY DEF UploadsInv, KeysStored
  <1> QED
    BY <1>1, UploadsInvAlways, PTL

\* However many cleanups run while papers are sent, the newest paper of a file
\* stays in force unless the office refuses it.
THEOREM LatestOutlivesCleanups == UploadsSpec => []LatestSurvives
  <1>1. UploadsInv => LatestSurvives
    <2> SUFFICES ASSUME UploadsInv, NEW i \in DOMAIN filed, i \notin refused,
                        \A j \in DOMAIN filed : filed[j].file = filed[i].file => j <= i /\ ~ filed[j].whole
                 PROVE  Live(i)
      BY DEF LatestSurvives
    <2>1. DOMAIN filed \subseteq Nat
      BY DEF UploadsInv, Shaped
    <2>2. filed[i].statut # "ARCHIVE"
      BY <2>1 DEF UploadsInv, Fates
    <2>3. ASSUME NEW j \in DOMAIN filed, Supersedes(j, i)  PROVE FALSE
      <3>1. filed[j].file = filed[i].file /\ Later(j, i)
        BY <2>3 DEF Supersedes
      <3>2. Parsed(i) = i /\ Parsed(j) = j /\ j <= i
        BY <3>1 DEF Parsed
      <3> QED
        BY <2>1, <3>1, <3>2 DEF Later
    <2>4. filed[i].statut # "REJETE"
      BY <2>3 DEF UploadsInv, Fates
    <2> QED
      BY <2>2, <2>4 DEF Live
  <1> QED
    BY <1>1, UploadsInvAlways, PTL

-----------------------------------------------------------------------------
(* Uploads: keys and versions of papers                                      *)

\* Each row took its number of the sequence, and no version is ahead of it.
RowsCounted ==
    /\ Len(filed) <= MaxPapers
    /\ \A i \in DOMAIN filed : filed[i].key \in 0..lastKey /\ filed[i].version \in 1..i

\* The keys of the record u of an upload were given out when n keys were.
KeysGiven(u, n) == u.key \in 0..n /\ u.keys \subseteq 1..n /\ (u.step = "put" => u.key \in 1..n)

KeysPlaced ==
    /\ objects \subseteq 1..lastKey /\ pageKeys \subseteq 1..lastKey
    /\ \A p \in Uploaders : KeysGiven(uploader[p], lastKey)
    /\ \A r \in onTheWay : r.key \in 1..lastKey

UploadTypesInv ==
    /\ UploadsInv /\ RowsCounted /\ KeysPlaced
    /\ refused \subseteq DOMAIN filed /\ launches \in Nat /\ officeCalls \in Nat

LEMMA UploadTypesInvInit == UploadsInit => UploadTypesInv
  <1> SUFFICES ASSUME UploadsInit PROVE UploadTypesInv
    OBVIOUS
  <1>1. UploadsInv
    BY UploadsInvInit
  <1>2. Len(filed) = 0 /\ DOMAIN filed = {} /\ MaxPapers \in Nat
    BY UploadsAssumption DEF UploadsInit
  <1> QED
    BY <1>1, <1>2 DEF UploadsInit, UploadTypesInv, RowsCounted, KeysPlaced, KeysGiven, Off

\* A stored paper has a key that was given and the next version of its file.
LEMMA StoredCounted ==
  ASSUME Shaped, RowsCounted, lastKey' \in Nat, lastKey <= lastKey', NEW file \in Files, NEW key \in 1..lastKey',
         NEW whole \in BOOLEAN, Stored(file, key, whole)
  PROVE  RowsCounted'
  <1> DEFINE n == Len(filed)
             row(v) == [file |-> file, key |-> key, statut |-> "VALIDE", version |-> v, whole |-> whole]
  <1>1. filed \in Seq(Papers) /\ n \in Nat /\ DOMAIN filed = 1..n /\ n < MaxPapers /\ MaxPapers \in Nat /\ lastKey \in Nat
    BY UploadsAssumption DEF Shaped, Stored
  <1>2. \A v : row(v).key = key /\ row(v).version = v
    OBVIOUS
  <1>3. CASE filed' = Append(filed, row(1))
    <2>1. /\ Len(filed') = n + 1 /\ DOMAIN filed' = 1..(n + 1) /\ filed'[n + 1] = row(1)
          /\ \A k \in 1..n : filed'[k] = filed[k]
      BY <1>1, <1>3
    <2> HIDE DEF n, row
    <2>2. \A k \in 1..(n + 1) : k \in 1..n \/ k = n + 1
      BY <1>1
    <2>3. filed'[n + 1].key \in 0..lastKey' /\ filed'[n + 1].version \in 1..(n + 1)
      BY <1>1, <1>2, <2>1
    <2>4. \A k \in 1..(n + 1) : filed'[k].key \in 0..lastKey' /\ filed'[k].version \in 1..k
      <3>1. \A k \in 1..n : filed[k].key \in 0..lastKey' /\ filed[k].version \in 1..k
        BY <1>1 DEF RowsCounted
      <3>2. \A k \in 1..n : filed'[k].key \in 0..lastKey' /\ filed'[k].version \in 1..k
        BY <2>1, <3>1
      <3> QED
        BY <2>2, <2>3, <3>2
    <2> QED
      BY <1>1, <2>1, <2>4 DEF RowsCounted
  <1>4. ASSUME NEW i \in DOMAIN filed,
               filed' = Append([filed EXCEPT ![i].statut = "ARCHIVE"], row(filed[i].version + 1))
        PROVE  RowsCounted'
    <2> DEFINE old == [filed EXCEPT ![i].statut = "ARCHIVE"]
               a   == [filed[i] EXCEPT !.statut = "ARCHIVE"]
    <2>1. filed[i] \in Papers
      BY <1>1
    <2>2. a \in Papers /\ a.key = filed[i].key /\ a.version = filed[i].version
      BY <2>1 DEF Papers, Statuts
    <2>3. /\ old \in Seq(Papers) /\ Len(old) = n
          /\ \A k \in 1..n : old[k].key = filed[k].key /\ old[k].version = filed[k].version
      BY <1>1, <2>2
    <2> HIDE DEF old, row
    <2>4. /\ Len(filed') = n + 1 /\ DOMAIN filed' = 1..(n + 1) /\ filed'[n + 1] = row(filed[i].version + 1)
          /\ \A k \in 1..n : filed'[k] = old[k]
      BY <1>4, <2>3 DEF old
    <2> HIDE DEF n, a
    <2>5. filed[i].version \in 1..n
      BY <1>1 DEF RowsCounted
    <2>6. filed'[n + 1].key \in 0..lastKey' /\ filed'[n + 1].version \in 1..(n + 1)
      BY <1>1, <1>2, <2>4, <2>5
    <2>7. \A k \in 1..(n + 1) : k \in 1..n \/ k = n + 1
      BY <1>1
    <2>8. \A k \in 1..(n + 1) : filed'[k].key \in 0..lastKey' /\ filed'[k].version \in 1..k
      <3>1. \A k \in 1..n : filed[k].key \in 0..lastKey' /\ filed[k].version \in 1..k
        BY <1>1 DEF RowsCounted
      <3>2. \A k \in 1..n : filed'[k].key \in 0..lastKey' /\ filed'[k].version \in 1..k
        BY <2>3, <2>4, <3>1
      <3> QED
        BY <2>6, <2>7, <3>2
    <2> QED
      BY <1>1, <2>4, <2>8 DEF RowsCounted
  <1> QED
    BY <1>3, <1>4 DEF Stored

LEMMA StatutCounted ==
  ASSUME Shaped, RowsCounted, lastKey' = lastKey, NEW i \in DOMAIN filed, NEW statut \in Statuts,
         filed' = [filed EXCEPT ![i].statut = statut]
  PROVE  RowsCounted' /\ DOMAIN filed' = DOMAIN filed
  <1> DEFINE a == [filed[i] EXCEPT !.statut = statut]
  <1>1. filed \in Seq(Papers) /\ filed[i] \in Papers
    BY DEF Shaped
  <1>2. a \in Papers /\ a.key = filed[i].key /\ a.version = filed[i].version
    BY <1>1 DEF Papers
  <1>3. /\ Len(filed') = Len(filed) /\ DOMAIN filed' = DOMAIN filed
        /\ \A k \in DOMAIN filed : filed'[k].key = filed[k].key /\ filed'[k].version = filed[k].version
    BY <1>1, <1>2
  <1> QED
    BY <1>3 DEF RowsCounted

\* The keys of the objects, and of the requests on the way, were given out.
GivenBefore ==
    /\ objects \subseteq 1..lastKey /\ pageKeys \subseteq 1..lastKey
    /\ \A r \in onTheWay : r.key \in 1..lastKey

\* A step of one upload.
LEMMA UploadPlaced ==
  ASSUME UploadTypesInv, NEW p \in Uploaders, NEW record, KeysGiven(record, lastKey'),
         uploader' = [uploader EXCEPT ![p] = record], lastKey' \in Nat, lastKey <= lastKey',
         GivenBefore'
  PROVE  KeysPlaced'
  <1>1. uploader \in [Uploaders -> Uploader] /\ lastKey \in Nat
    BY DEF UploadTypesInv, UploadsInv, Shaped
  <1>2. \A q \in Uploaders : uploader'[q] = IF q = p THEN record ELSE uploader[q]
    BY <1>1
  <1>3. \A u : KeysGiven(u, lastKey) => KeysGiven(u, lastKey')
    BY <1>1 DEF KeysGiven
  <1> QED
    BY <1>2, <1>3 DEF UploadTypesInv, KeysPlaced, GivenBefore

LEMMA RowsStay ==
  ASSUME UploadTypesInv, lastKey' \in Nat, lastKey <= lastKey', filed' = filed
  PROVE  RowsCounted'
  <1>1. lastKey \in Nat
    BY DEF UploadTypesInv, UploadsInv, Shaped
  <1> QED
    BY <1>1 DEF UploadTypesInv, RowsCounted

\* The next paper begins without a key.
LEMMA TurnGiven ==
  ASSUME NEW p, NEW record \in Uploader, NEW n \in Nat, record.keys \subseteq 1..n
  PROVE  KeysGiven(Turn(p, record), n)
  <1>1. Turn(p, record).key = 0 /\ Turn(p, record).keys = record.keys /\ Turn(p, record).step # "put"
    BY DEF Turn, Uploader
  <1> QED
    BY <1>1 DEF KeysGiven

LEMMA PageKeysPlaced ==
  ASSUME UploadTypesInv, UNCHANGED othersVars, lastKey' \in Nat, lastKey <= lastKey'
  PROVE  pageKeys' \subseteq 1..lastKey'
  <1>1. pageKeys' \subseteq 1..lastKey /\ lastKey \in Nat
    BY DEF UploadTypesInv, UploadsInv, Shaped, KeysPlaced, othersVars
  <1> QED
    BY <1>1

LEMMA UploaderStepPlaced ==
  ASSUME UploadTypesInv, UploadsInv', NEW p \in Uploaders, UploaderStep(p)
  PROVE  UploadTypesInv'
  <1> DEFINE u == uploader[p]
  <1>1. /\ uploader \in [Uploaders -> Uploader] /\ u \in Uploader /\ KeysGiven(u, lastKey)
        /\ lastKey \in Nat /\ lastKey' \in Nat
    BY DEF UploadTypesInv, UploadsInv, Shaped, KeysPlaced
  <1>2. u.keys \subseteq 1..lastKey /\ (u.step = "put" => u.key \in 1..lastKey)
    BY <1>1 DEF KeysGiven
  <1>3. objects \subseteq 1..lastKey /\ \A r \in onTheWay : r.key \in 1..lastKey
    BY DEF UploadTypesInv, KeysPlaced
  <1>4. UNCHANGED othersVars /\ lastKey <= lastKey'
    BY <1>1 DEF UploaderStep, StartUpload, Presign, PutObject, ConfirmUpload, RecordPaper, GivesUp
  <1>5. pageKeys' \subseteq 1..lastKey'
    BY <1>1, <1>4, PageKeysPlaced
  <1>6. u.step \in {"confirm", "record"} => u.key \in 1..lastKey
    BY <1>3 DEF UploadTypesInv, UploadsInv, KeysStored
  <1>7. CASE StartUpload(p)
    <2>1. Off \in Uploader /\ Off.keys \subseteq 1..lastKey
      BY DEF Off, Uploader, Active
    <2>2. KeysGiven(Turn(p, Off), lastKey)
      BY <1>1, <2>1, TurnGiven
    <2> DEFINE record == Turn(p, Off)
    <2> HIDE DEF record
    <2>3. /\ uploader' = [uploader EXCEPT ![p] = Turn(p, Off)] /\ launches' = launches + 1
          /\ UNCHANGED <<objects, filed, lastKey, onTheWay, refused, officeCalls>>
      BY <1>7 DEF StartUpload, Launch
    <2>4. KeysGiven(record, lastKey') /\ uploader' = [uploader EXCEPT ![p] = record]
      BY <2>2, <2>3 DEF record
    <2>5. lastKey <= lastKey' /\ GivenBefore'
      BY <1>1, <1>3, <1>5, <2>3 DEF GivenBefore
    <2>6. KeysPlaced' /\ RowsCounted'
      BY <1>1, <2>3, <2>4, <2>5, UploadPlaced, RowsStay
    <2> QED
      BY <2>3, <2>6 DEF UploadTypesInv
  <1>8. CASE Presign(p)
    <2> DEFINE n == lastKey'
               ks == u.keys \union {n}
               record == [[[u EXCEPT !.step = "put"] EXCEPT !.key = n] EXCEPT !.keys = ks]
    <2>1. uploader' = [uploader EXCEPT ![p] = record] /\ lastKey' = lastKey + 1
      BY <1>1, <1>8 DEF Presign
    <2>2. UNCHANGED <<objects, filed, onTheWay, refused, launches, officeCalls>>
      BY <1>8 DEF Presign
    <2>3. record.key = n /\ record.keys = ks
      <3> HIDE DEF n, ks
      <3> QED
        BY <1>1 DEF Uploader
    <2>4. ks \subseteq 1..n /\ n \in 1..n
      BY <1>1, <1>2, <2>1
    <2>5. KeysGiven(record, lastKey')
      BY <1>1, <2>3, <2>4 DEF KeysGiven
    <2>6. lastKey <= lastKey' /\ GivenBefore'
      BY <1>1, <1>3, <1>5, <2>1, <2>2 DEF GivenBefore
    <2> HIDE DEF record
    <2>7. KeysPlaced' /\ RowsCounted'
      BY <1>1, <2>1, <2>2, <2>5, <2>6, UploadPlaced, RowsStay
    <2> QED
      BY <2>2, <2>7 DEF UploadTypesInv
  <1>9. CASE PutObject(p)
    <2> DEFINE record == [u EXCEPT !.step = "confirm"]
    <2>1. /\ uploader' = [uploader EXCEPT ![p] = record] /\ u.key \in 1..lastKey
          /\ objects' = objects \union {u.key}
          /\ UNCHANGED <<filed, lastKey, onTheWay, refused, launches, officeCalls>>
      BY <1>1, <1>2, <1>9 DEF PutObject, At
    <2>2. KeysGiven(record, lastKey')
      BY <1>1, <2>1 DEF KeysGiven, Uploader
    <2> HIDE DEF record
    <2>3. lastKey <= lastKey' /\ GivenBefore'
      <3> DEFINE key == u.key
      <3>1. key \in 1..lastKey /\ objects' = objects \union {key} /\ UNCHANGED <<lastKey, onTheWay>>
        BY <2>1
      <3> HIDE DEF key
      <3> QED
        BY <1>1, <1>3, <1>5, <3>1 DEF GivenBefore
    <2>4. KeysPlaced' /\ RowsCounted'
      BY <1>1, <2>1, <2>2, <2>3, UploadPlaced, RowsStay
    <2> QED
      BY <2>1, <2>4 DEF UploadTypesInv
  <1>10. CASE ConfirmUpload(p)
    <2> DEFINE record == [u EXCEPT !.step = "record"]
    <2>1. /\ uploader' = [uploader EXCEPT ![p] = record]
          /\ UNCHANGED <<objects, filed, lastKey, onTheWay, refused, launches, officeCalls>>
      BY <1>1, <1>10 DEF ConfirmUpload
    <2>2. KeysGiven(record, lastKey')
      BY <1>1, <2>1 DEF KeysGiven, Uploader
    <2> HIDE DEF record
    <2>3. lastKey <= lastKey' /\ GivenBefore'
      BY <1>1, <1>3, <1>5, <2>1 DEF GivenBefore
    <2>4. KeysPlaced' /\ RowsCounted'
      BY <1>1, <2>1, <2>2, <2>3, UploadPlaced, RowsStay
    <2> QED
      BY <2>1, <2>4 DEF UploadTypesInv
  <1>11. CASE RecordPaper(p)
    <2>1. PICK whole \in BOOLEAN : Stored(Item(p), u.key, whole)
      BY <1>11 DEF RecordPaper
    <2>2. /\ u.step = "record" /\ uploader' = [uploader EXCEPT ![p] = Turn(p, u)]
          /\ UNCHANGED <<objects, lastKey, onTheWay, refused, launches, officeCalls>>
      BY <1>1, <1>11 DEF RecordPaper, At
    <2>3. Item(p) \in Files
      <3>1. u.item \in 1..Len(Parcels[p])
        BY <2>2 DEF UploadTypesInv, UploadsInv, Shaped, Active
      <3> QED
        BY <3>1, UploadsAssumption DEF Item, Files
    <2>4. RowsCounted'
      <3>1. Shaped /\ RowsCounted /\ lastKey' \in Nat /\ lastKey <= lastKey' /\ u.key \in 1..lastKey'
        BY <1>1, <1>6, <2>2 DEF UploadTypesInv, UploadsInv
      <3> QED
        BY <2>1, <2>3, <3>1, StoredCounted
    <2>5. KeysGiven(Turn(p, u), lastKey')
      BY <1>1, <1>2, <2>2, TurnGiven
    <2> DEFINE record == Turn(p, u)
    <2> HIDE DEF record
    <2>6. KeysGiven(record, lastKey') /\ uploader' = [uploader EXCEPT ![p] = record]
      BY <2>2, <2>5 DEF record
    <2>7. lastKey <= lastKey' /\ GivenBefore'
      BY <1>1, <1>3, <1>5, <2>2 DEF GivenBefore
    <2>8. KeysPlaced'
      BY <1>1, <2>6, <2>7, UploadPlaced
    <2>9. DOMAIN filed \subseteq DOMAIN filed'
      <3>1. u.key \in Nat
        BY <1>1 DEF Uploader
      <3> QED
        BY <2>1, <2>3, <3>1, StoredAppends DEF UploadTypesInv, UploadsInv, Appended, Grows
    <2> QED
      BY <2>2, <2>4, <2>8, <2>9 DEF UploadTypesInv
  <1>12. CASE GivesUp(p)
    <2>1. /\ uploader' = [uploader EXCEPT ![p] = Turn(p, Failed(p))]
          /\ UNCHANGED <<filed, lastKey, refused, launches, officeCalls>>
      BY <1>12 DEF GivesUp
    <2>2. Failed(p) \in Uploader /\ Failed(p).keys = u.keys
      <3> DEFINE e == u.errors + 1
      <3>1. e \in Nat
        BY <1>1 DEF Uploader
      <3>2. Failed(p) = [u EXCEPT !.errors = e]
        BY DEF Failed
      <3> HIDE DEF e
      <3> QED
        BY <1>1, <3>1, <3>2 DEF Uploader
    <2>3. KeysGiven(Turn(p, Failed(p)), lastKey')
      BY <1>1, <1>2, <2>1, <2>2, TurnGiven
    <2>4. objects' \subseteq 1..lastKey
      BY <1>2, <1>3, <1>12 DEF GivesUp, At
    <2>5. \A r \in onTheWay' : r.key \in 1..lastKey
      BY <1>3, <1>6, <1>12 DEF GivesUp, At
    <2> DEFINE record == Turn(p, Failed(p))
    <2> HIDE DEF record
    <2>6. KeysGiven(record, lastKey') /\ uploader' = [uploader EXCEPT ![p] = record]
      BY <2>1, <2>3 DEF record
    <2>7. lastKey <= lastKey' /\ GivenBefore'
      BY <1>1, <1>5, <2>1, <2>4, <2>5 DEF GivenBefore
    <2>8. KeysPlaced' /\ RowsCounted'
      BY <1>1, <2>1, <2>6, <2>7, UploadPlaced, RowsStay
    <2> QED
      BY <2>1, <2>8 DEF UploadTypesInv
  <1> QED
    BY <1>7, <1>8, <1>9, <1>10, <1>11, <1>12 DEF UploaderStep

LEMMA CleanerStepPlaced ==
  ASSUME UploadTypesInv, UploadsInv', NEW c \in Cleaners, CleanerStep(c)
  PROVE  UploadTypesInv'
  <1>1. lastKey \in Nat /\ Shaped /\ RowsCounted /\ cleaner[c] \subseteq DOMAIN filed
    BY DEF UploadTypesInv, UploadsInv, Shaped
  <1>2. UNCHANGED <<objects, lastKey, uploader, onTheWay, pageKeys>>
    BY DEF CleanerStep, FetchDocuments, RejectDuplicate, SkipDuplicate, othersVars
  <1>3. KeysPlaced'
    BY <1>2 DEF UploadTypesInv, KeysPlaced
  <1>4. CASE FetchDocuments(c)
    <2>1. UNCHANGED <<filed, refused, officeCalls>> /\ launches' = launches + 1
      BY <1>4 DEF FetchDocuments, Launch
    <2> QED
      BY <1>2, <1>3, <2>1 DEF UploadTypesInv, RowsCounted
  <1>5. ASSUME NEW i \in cleaner[c], RejectDuplicate(c, i)  PROVE UploadTypesInv'
    <2>1. /\ filed' = [filed EXCEPT ![i].statut = "REJETE"]
          /\ UNCHANGED <<refused, launches, officeCalls>>
      BY <1>5 DEF RejectDuplicate
    <2>2. RowsCounted' /\ DOMAIN filed' = DOMAIN filed
      BY <1>1, <1>2, <2>1, StatutCounted DEF Statuts
    <2> QED
      BY <1>3, <2>1, <2>2 DEF UploadTypesInv
  <1>6. ASSUME NEW i \in cleaner[c], SkipDuplicate(c, i)  PROVE UploadTypesInv'
    BY <1>2, <1>3, <1>6 DEF SkipDuplicate, UploadTypesInv, RowsCounted
  <1> QED
    BY <1>4, <1>5, <1>6 DEF CleanerStep

\* The key that the page is given is the newest.
LEMMA PageUploadPlaced ==
  ASSUME UploadTypesInv, UploadsInv', NEW file \in SentFiles, PageUpload(file)
  PROVE  UploadTypesInv'
  <1>1. lastKey \in Nat /\ Shaped /\ RowsCounted /\ KeysPlaced
    BY DEF UploadTypesInv, UploadsInv, Shaped
  <1>2. /\ lastKey' = lastKey + 1 /\ pageKeys' = pageKeys \union {lastKey'}
        /\ objects' \in {objects, objects \union {lastKey'}} /\ officeCalls' = officeCalls + 1
        /\ UNCHANGED <<uploader, onTheWay, refused, launches>>
    BY DEF PageUpload
  <1>3. PICK whole \in BOOLEAN : Stored(file, lastKey', whole)
    BY DEF PageUpload
  <1>4. lastKey' \in Nat /\ lastKey <= lastKey' /\ lastKey' \in 1..lastKey' /\ file \in Files
    BY <1>1, <1>2 DEF Files
  <1>5. RowsCounted'
    <2> DEFINE key == lastKey'
    <2>1. key \in 1..lastKey' /\ Stored(file, key, whole)
      BY <1>3, <1>4
    <2> HIDE DEF key
    <2> QED
      BY <1>1, <1>4, <2>1, StoredCounted
  <1>6. \A q : KeysGiven(uploader[q], lastKey) => KeysGiven(uploader'[q], lastKey')
    BY <1>1, <1>2 DEF KeysGiven
  <1>7. KeysPlaced'
    <2>1. 1..lastKey \subseteq 1..lastKey'
      BY <1>1, <1>4
    <2>2. objects' \subseteq 1..lastKey' /\ pageKeys' \subseteq 1..lastKey'
      BY <1>1, <1>2, <1>4, <2>1 DEF KeysPlaced
    <2> QED
      BY <1>1, <1>2, <1>6, <2>1, <2>2 DEF KeysPlaced
  <1>8. DOMAIN filed \subseteq DOMAIN filed'
    BY <1>1, <1>3, <1>4, StoredAppends DEF Appended
  <1> QED
    BY <1>2, <1>5, <1>7, <1>8 DEF UploadTypesInv

LEMMA FillCommitsPlaced ==
  ASSUME UploadTypesInv, UploadsInv', NEW file \in filling, FillCommits(file)
  PROVE  UploadTypesInv'
  <1>1. lastKey \in Nat /\ Shaped /\ RowsCounted /\ MaxPapers \in Nat
    BY UploadsAssumption DEF UploadTypesInv, UploadsInv, Shaped
  <1>2. /\ UNCHANGED <<objects, lastKey, uploader, onTheWay, refused, launches, officeCalls, pageKeys>>
        /\ Len(filed) < MaxPapers
    BY DEF FillCommits
  <1>3. PICK statut \in {"VALIDE", "EXPIRE"}, whole \in BOOLEAN :
            filed' = Append(filed, [file |-> file, key |-> NoKey, statut |-> statut, version |-> 1,
                                    whole |-> whole])
    BY DEF FillCommits
  <1> DEFINE row == [file |-> file, key |-> NoKey, statut |-> statut, version |-> 1, whole |-> whole]
             n   == Len(filed)
  <1>4. row.key = 0 /\ row.version = 1
    BY DEF NoKey
  <1> HIDE DEF row
  <1>5. filed \in Seq(Papers) /\ n \in Nat /\ DOMAIN filed = 1..n /\ n < MaxPapers
    BY <1>1, <1>2 DEF Shaped
  <1>6. filed' = Append(filed, row)
    BY <1>3 DEF row
  <1>7. /\ Len(filed') = n + 1 /\ DOMAIN filed' = 1..(n + 1) /\ filed'[n + 1] = row
        /\ \A k \in 1..n : filed'[k] = filed[k]
    BY <1>5, <1>6
  <1> HIDE DEF n
  <1>8. \A k \in 1..(n + 1) : k \in 1..n \/ k = n + 1
    BY <1>5
  <1>9. filed'[n + 1].key \in 0..lastKey' /\ filed'[n + 1].version \in 1..(n + 1)
    BY <1>1, <1>2, <1>4, <1>5, <1>7
  <1>10. RowsCounted'
    BY <1>1, <1>2, <1>5, <1>7, <1>8, <1>9 DEF RowsCounted
  <1> QED
    BY <1>2, <1>5, <1>7, <1>10 DEF UploadTypesInv, KeysPlaced

LEMMA OthersStepPlaced ==
  ASSUME UploadTypesInv, UploadsInv', OthersStep
  PROVE  UploadTypesInv'
  <1>1. lastKey \in Nat /\ Shaped /\ RowsCounted
    BY DEF UploadTypesInv, UploadsInv, Shaped
  <1>2. ASSUME NEW r \in onTheWay, LateRecord(r)  PROVE UploadTypesInv'
    <2>1. PICK whole \in BOOLEAN : Stored(r.file, r.key, whole)
      BY <1>2 DEF LateRecord
    <2>2. /\ onTheWay' = onTheWay \ {r}
          /\ UNCHANGED <<objects, lastKey, uploader, refused, launches, officeCalls, pageKeys>>
      BY <1>2 DEF LateRecord, othersVars
    <2>3. r.key \in 1..lastKey /\ r.file \in Files
      BY <1>1 DEF UploadTypesInv, KeysPlaced, Shaped
    <2>4. RowsCounted'
      BY <1>1, <2>1, <2>2, <2>3, StoredCounted
    <2>5. KeysPlaced'
      BY <2>2 DEF UploadTypesInv, KeysPlaced
    <2>6. DOMAIN filed \subseteq DOMAIN filed'
      BY <1>1, <2>1, <2>3, StoredAppends DEF Appended, Grows
    <2> QED
      BY <2>2, <2>4, <2>5, <2>6 DEF UploadTypesInv
  <1>3. ASSUME NEW i \in DOMAIN filed, Expires(i)  PROVE UploadTypesInv'
    <2>1. /\ filed' = [filed EXCEPT ![i].statut = "EXPIRE"]
          /\ UNCHANGED <<objects, lastKey, uploader, onTheWay, refused, launches, officeCalls, pageKeys>>
      BY <1>3 DEF Expires, othersVars
    <2>2. RowsCounted' /\ DOMAIN filed' = DOMAIN filed
      BY <1>1, <2>1, StatutCounted DEF Statuts
    <2> QED
      BY <2>1, <2>2 DEF UploadTypesInv, KeysPlaced
  <1>4. ASSUME NEW i \in DOMAIN filed, NEW st \in {"VALIDE", "REJETE"}, OfficeDecides(i, st)
        PROVE  UploadTypesInv'
    <2>1. /\ filed' = [filed EXCEPT ![i].statut = st] /\ officeCalls' = officeCalls + 1
          /\ refused' \subseteq refused \union {i}
          /\ UNCHANGED <<objects, lastKey, uploader, onTheWay, launches, pageKeys>>
      BY <1>4 DEF OfficeDecides, othersVars
    <2>2. RowsCounted' /\ DOMAIN filed' = DOMAIN filed
      BY <1>1, <2>1, StatutCounted DEF Statuts
    <2> QED
      BY <2>1, <2>2 DEF UploadTypesInv, KeysPlaced
  <1>5. ASSUME NEW file \in SentFiles, PageUpload(file)  PROVE UploadTypesInv'
    BY <1>5, PageUploadPlaced
  <1>6. ASSUME NEW file \in FilledFiles, FillLooks(file)  PROVE UploadTypesInv'
    BY <1>6 DEF FillLooks, Launch, UploadTypesInv, RowsCounted, KeysPlaced
  <1>7. ASSUME NEW file \in filling, FillCommits(file)  PROVE UploadTypesInv'
    BY <1>7, FillCommitsPlaced
  <1>8. ASSUME NEW file \in filling, FillIsLost(file)  PROVE UploadTypesInv'
    BY <1>8 DEF FillIsLost, UploadTypesInv, RowsCounted, KeysPlaced
  <1> QED
    BY <1>2, <1>3, <1>4, <1>5, <1>6, <1>7, <1>8 DEF OthersStep

LEMMA UploadTypesInvStep == UploadTypesInv /\ [UploadsNext]_uploadVars => UploadTypesInv'
  <1> SUFFICES ASSUME UploadTypesInv, [UploadsNext]_uploadVars  PROVE UploadTypesInv'
    OBVIOUS
  <1>1. UploadsInv'
    BY UploadsInvStep DEF UploadTypesInv
  <1>2. CASE UNCHANGED uploadVars
    BY <1>1, <1>2 DEF uploadVars, othersVars, UploadTypesInv, RowsCounted, KeysPlaced
  <1> QED
    BY <1>1, <1>2, UploaderStepPlaced, CleanerStepPlaced, OthersStepPlaced DEF UploadsNext

LEMMA UploadTypes == UploadTypesInv => UploadsTypeOK
  <1> SUFFICES ASSUME UploadTypesInv  PROVE UploadsTypeOK
    OBVIOUS
  <1>1. Shaped /\ RowsCounted /\ KeysPlaced /\ Len(filed) \in Nat /\ DOMAIN filed = 1..Len(filed)
    BY DEF UploadTypesInv, UploadsInv, Shaped
  <1>2. \A i \in DOMAIN filed : filed[i] \in PaperRows
    <2> SUFFICES ASSUME NEW i \in DOMAIN filed  PROVE filed[i] \in PaperRows
      OBVIOUS
    <2>1. filed[i] \in Papers /\ filed[i].key \in 0..lastKey /\ filed[i].version \in 1..MaxPapers
      BY <1>1, UploadsAssumption DEF Shaped, RowsCounted
    <2> QED
      BY <2>1 DEF Papers, PaperRows, Statuts
  <1>3. \A p \in Uploaders :
            uploader[p] \in [step : {"off", "presign", "put", "confirm", "record", "done"}, item : Nat,
                             key : 0..lastKey, keys : SUBSET (1..lastKey), errors : Nat]
    <2> SUFFICES ASSUME NEW p \in Uploaders
                 PROVE  uploader[p] \in [step : {"off", "presign", "put", "confirm", "record", "done"},
                             item : Nat, key : 0..lastKey, keys : SUBSET (1..lastKey), errors : Nat]
      OBVIOUS
    <2>1. /\ uploader[p] \in Uploader /\ uploader[p].key \in 0..lastKey
          /\ uploader[p].keys \in SUBSET (1..lastKey)
      BY <1>1 DEF Shaped, KeysPlaced, KeysGiven
    <2> QED
      BY <2>1 DEF Uploader, Active
  <1>4. onTheWay \subseteq [file : Files, key : 1..lastKey]
    BY <1>1 DEF Shaped, KeysPlaced
  <1>5. objects \subseteq 1..lastKey /\ lastKey \in Nat /\ cleaner \in [Cleaners -> SUBSET DOMAIN filed]
    BY <1>1 DEF Shaped, KeysPlaced
  <1>9. pageKeys \subseteq 1..lastKey /\ filling \subseteq FilledFiles
    BY <1>1 DEF Shaped, KeysPlaced
  <1>6. DOMAIN uploader = Uploaders /\ uploader \in [Uploaders -> Uploader]
    BY <1>1 DEF Shaped
  <1>7. Len(filed) <= MaxPapers /\ refused \subseteq DOMAIN filed /\ {launches, officeCalls} \subseteq Nat
    BY DEF UploadTypesInv, RowsCounted
  <1>8. uploader \in [Uploaders -> [step : {"off", "presign", "put", "confirm", "record", "done"},
                         item : Nat, key : 0..lastKey, keys : SUBSET (1..lastKey), errors : Nat]]
    BY <1>3, <1>6
  <1> QED
    BY <1>2, <1>4, <1>5, <1>7, <1>8, <1>9 DEF UploadsTypeOK

\* Keys are given out once, no paper has a version ahead of its place, and what an
\* upload or a cleanup still has to do is about keys and rows that exist.
THEOREM UploadsTypeCorrect == UploadsSpec => []UploadsTypeOK
  <1>1. UploadsInit => UploadTypesInv
    BY UploadTypesInvInit
  <1>2. UploadTypesInv /\ [UploadsNext]_uploadVars => UploadTypesInv'
    BY UploadTypesInvStep
  <1>3. UploadTypesInv => UploadsTypeOK
    BY UploadTypes
  <1> QED
    BY <1>1, <1>2, <1>3, PTL DEF UploadsSpec

-----------------------------------------------------------------------------
(* FleetSheets                                                               *)

Loads == [step : {"off", "certificates", "insurance", "drivers", "done"},
          known : SUBSET Plates, left : SUBSET (Plates \union Staff),
          had : [Staff -> SUBSET Flags], errors : Nat]

Pushes == [step : {"off", "smoke", "push", "done", "aborted"},
           known : SUBSET Plates, left : SUBSET Plates]

SheetsInv == SheetsTypeOK /\ load \in Loads /\ push \in Pushes

LEMMA SheetsInvInit == SheetsInit => SheetsInv
  BY SheetsAssumption DEF SheetsInit, SheetsInv, SheetsTypeOK, Loads, Pushes, Groups, Flags, Absent

\* The program goes on, and the rows keep their columns.
LEMMA LoadMoves ==
  ASSUME SheetsInv, load' \in Loads, UNCHANGED push, UNCHANGED puts, loads' \in Nat,
         columns' \in [Plates -> (SUBSET Groups) \union {Absent}], flags' \in [Staff -> SUBSET Flags]
  PROVE  SheetsInv'
  BY DEF SheetsInv, SheetsTypeOK, Loads

LEMMA PushMoves ==
  ASSUME SheetsInv, push' \in Pushes, push'.left \subseteq push'.known, UNCHANGED load,
         UNCHANGED puts, UNCHANGED flags, loads' \in Nat,
         columns' \in [Plates -> (SUBSET Groups) \union {Absent}]
  PROVE  SheetsInv'
  BY DEF SheetsInv, SheetsTypeOK, Pushes

\* A PUT that sends some groups of columns.
LEMMA VehicleWritten ==
  ASSUME SheetsInv, NEW v, NEW sent \in SUBSET Groups
  PROVE  [columns EXCEPT ![v] = sent] \in [Plates -> (SUBSET Groups) \union {Absent}]
  BY DEF SheetsInv, SheetsTypeOK

\* A request of load_all_data that is answered, or fails.
LEMMA RequestMoves ==
  ASSUME SheetsInv, NEW v, NEW columns1, NEW flags1,
         columns1 \in [Plates -> (SUBSET Groups) \union {Absent}], flags1 \in [Staff -> SUBSET Flags],
         Request(v, columns' = columns1 /\ flags' = flags1), UNCHANGED <<push, loads, puts>>
  PROVE  SheetsInv'
  <1> DEFINE done == [load EXCEPT !.left = load.left \ {v}]
             failed == [done EXCEPT !.errors = load.errors + 1]
  <1>1. done \in Loads /\ done.errors = load.errors
    BY DEF SheetsInv, Loads
  <1>2. load.errors + 1 \in Nat
    BY DEF SheetsInv, Loads
  <1>3. failed \in Loads
    BY <1>1, <1>2 DEF Loads
  <1>4. load' = done \/ load' = failed
    BY DEF Request, SheetsInv, Loads
  <1> HIDE DEF done, failed
  <1>5. load' \in Loads
    BY <1>1, <1>3, <1>4
  <1>6. /\ columns' \in [Plates -> (SUBSET Groups) \union {Absent}]
        /\ flags' \in [Staff -> SUBSET Flags]
    BY DEF Request, SheetsInv, SheetsTypeOK
  <1> QED
    BY <1>5, <1>6, LoadMoves DEF SheetsInv, SheetsTypeOK

\* The steps of the program that write no row.
LEMMA LoadSteps ==
  ASSUME SheetsInv, StartLoad \/ BeginInsurance \/ BeginDrivers \/ EndLoad
  PROVE  SheetsInv'
  <1> DEFINE from(record, step, left) == [record EXCEPT !.step = step, !.left = left]
  <1>1. load \in Loads /\ Known \subseteq Plates /\ flags \in [Staff -> SUBSET Flags]
    BY DEF SheetsInv, SheetsTypeOK, Known
  <1>2. Certified \subseteq Plates /\ Insured \subseteq Plates
    BY SheetsAssumption
  <1>3. load' \in Loads
    <2>1. CASE StartLoad
      <3> DEFINE left == Certified \intersect Known
      <3>1. load' = [step |-> "certificates", known |-> Known, left |-> left, had |-> load.had,
                     errors |-> 0]
        BY <1>1, <2>1 DEF StartLoad, Loads
      <3>2. left \in SUBSET (Plates \union Staff)
        BY <1>1
      <3> HIDE DEF left
      <3> QED
        BY <1>1, <3>1, <3>2 DEF Loads
    <2>2. CASE BeginInsurance
      <3> DEFINE left == Insured \ (Certified \intersect load.known)
      <3>1. load' = [step |-> "insurance", known |-> load.known, left |-> left, had |-> load.had,
                     errors |-> load.errors]
        BY <1>1, <2>2 DEF BeginInsurance, Loads
      <3>2. left \in SUBSET (Plates \union Staff)
        BY <1>2
      <3> HIDE DEF left
      <3> QED
        BY <1>1, <3>1, <3>2 DEF Loads
    <2>3. CASE BeginDrivers
      <3> DEFINE left == {d \in Staff : ~ Qualified[d] \subseteq flags[d]}
      <3>1. load' = [step |-> "drivers", known |-> load.known, left |-> left, had |-> flags,
                     errors |-> load.errors]
        BY <1>1, <2>3 DEF BeginDrivers, Loads
      <3>2. left \in SUBSET (Plates \union Staff)
        OBVIOUS
      <3> HIDE DEF left
      <3> QED
        BY <1>1, <3>1, <3>2 DEF Loads
    <2>4. CASE EndLoad
      BY <1>1, <2>4 DEF EndLoad, Loads
    <2> QED
      BY <2>1, <2>2, <2>3, <2>4
  <1>4. loads' \in Nat /\ UNCHANGED <<push, puts, columns, flags>>
    BY DEF StartLoad, StartProgram, BeginInsurance, BeginDrivers, EndLoad, SheetsInv, SheetsTypeOK
  <1> QED
    BY <1>3, <1>4, LoadMoves DEF SheetsInv, SheetsTypeOK

\* A step that writes the row of a vehicle or of a driver.
LEMMA PutSteps ==
  ASSUME SheetsInv, NEW v, PutCertificate(v) \/ PutInsurance(v) \/ CreateInsured(v) \/ (v \in Staff /\ PutFlags(v))
  PROVE  SheetsInv'
  <1>1. /\ {"certificate"} \union (IF v \in Insured THEN {"insurance"} ELSE {}) \in SUBSET Groups
        /\ {"insurance"} \in SUBSET Groups
    BY DEF Groups
  <1>2. columns \in [Plates -> (SUBSET Groups) \union {Absent}] /\ flags \in [Staff -> SUBSET Flags]
    BY DEF SheetsInv, SheetsTypeOK
  <1>3. CASE PutCertificate(v)
    <2> DEFINE sent == {"certificate"} \union (IF v \in Insured THEN {"insurance"} ELSE {})
    <2>1. /\ Request(v, columns' = [columns EXCEPT ![v] = sent] /\ flags' = flags)
          /\ UNCHANGED <<push, loads, puts>>
      BY <1>3 DEF PutCertificate, LoadStep, Request
    <2> HIDE DEF sent
    <2>2. [columns EXCEPT ![v] = sent] \in [Plates -> (SUBSET Groups) \union {Absent}]
      BY <1>1, VehicleWritten DEF sent
    <2> QED
      BY <1>2, <2>1, <2>2, RequestMoves
  <1>4. CASE PutInsurance(v) \/ CreateInsured(v)
    <2> DEFINE sent == {"insurance"}
    <2>1. /\ Request(v, columns' = [columns EXCEPT ![v] = sent] /\ flags' = flags)
          /\ UNCHANGED <<push, loads, puts>>
      BY <1>4 DEF PutInsurance, CreateInsured, LoadStep, Request
    <2> HIDE DEF sent
    <2>2. [columns EXCEPT ![v] = sent] \in [Plates -> (SUBSET Groups) \union {Absent}]
      BY <1>1, VehicleWritten DEF sent
    <2> QED
      BY <1>2, <2>1, <2>2, RequestMoves
  <1>5. CASE v \in Staff /\ PutFlags(v)
    <2> DEFINE sent == Qualified[v] \ load.had[v]
    <2>1. /\ Request(v, columns' = columns /\ flags' = [flags EXCEPT ![v] = sent])
          /\ UNCHANGED <<push, loads, puts>>
      BY <1>5 DEF PutFlags, LoadStep, Request
    <2>2. sent \in SUBSET Flags
      BY <1>5, SheetsAssumption DEF Flags
    <2> HIDE DEF sent
    <2>3. [flags EXCEPT ![v] = sent] \in [Staff -> SUBSET Flags]
      BY <1>2, <2>2
    <2> QED
      BY <1>2, <2>1, <2>3, RequestMoves
  <1> QED
    BY <1>3, <1>4, <1>5

LEMMA PushSteps ==
  ASSUME SheetsInv, PushProgram
  PROVE  SheetsInv'
  <1>1. push \in Pushes /\ push.left \subseteq push.known /\ loads \in Nat
    BY DEF SheetsInv, SheetsTypeOK
  <1>2. /\ {"date"} \in SUBSET Groups
        /\ columns \in [Plates -> (SUBSET Groups) \union {Absent}]
    BY DEF SheetsInv, SheetsTypeOK, Groups
  <1>3. CASE StartPush
    <2>1. push' \in Pushes /\ push'.left \subseteq push'.known
      BY <1>3, SheetsAssumption DEF StartPush, Pushes, Known
    <2>2. loads' \in Nat /\ UNCHANGED <<columns, flags, load, puts>>
      BY <1>1, <1>3 DEF StartPush, StartProgram
    <2> QED
      BY <1>2, <2>1, <2>2, PushMoves
  <1>4. CASE SmokeTest
    <2>1. push' \in Pushes /\ push'.left \subseteq push'.known
      BY <1>1, <1>4 DEF SmokeTest, Pushes
    <2>2. columns' \in [Plates -> (SUBSET Groups) \union {Absent}]
      BY <1>2, <1>4, VehicleWritten DEF SmokeTest, PutDate
    <2> QED
      BY <1>1, <1>4, <2>1, <2>2, PushMoves DEF SmokeTest
  <1>5. ASSUME NEW v \in Dated, PushDate(v) PROVE SheetsInv'
    <2>1. push' \in Pushes /\ push'.left \subseteq push'.known
      BY <1>1, <1>5 DEF PushDate, Pushes
    <2>2. columns' \in [Plates -> (SUBSET Groups) \union {Absent}]
      BY <1>2, <1>5, VehicleWritten DEF PushDate, PutDate
    <2> QED
      BY <1>1, <1>5, <2>1, <2>2, PushMoves DEF PushDate
  <1>6. CASE EndPush
    BY <1>1, <1>2, <1>6, PushMoves DEF EndPush, Pushes
  <1> QED
    BY <1>3, <1>4, <1>5, <1>6 DEF PushProgram

LEMMA SheetsInvStep == SheetsInv /\ [SheetsNext]_sheetVars => SheetsInv'
  <1> SUFFICES ASSUME SheetsInv, [SheetsNext]_sheetVars PROVE SheetsInv'
    OBVIOUS
  <1>1. CASE LoadProgram
    BY <1>1, LoadSteps, PutSteps DEF LoadProgram
  <1>2. CASE OfficeWrites
    BY <1>2 DEF OfficeWrites, OfficeWritesVehicle, OfficeWritesDriver, OfficePut, SheetsInv, SheetsTypeOK
  <1>3. CASE UNCHANGED sheetVars
    BY <1>3 DEF sheetVars, SheetsInv, SheetsTypeOK
  <1> QED
    BY <1>1, <1>2, <1>3, PushSteps DEF SheetsNext

\* Rows hold groups of columns, and the programs work on vehicles and drivers that
\* exist, whatever the office and the two programs write at once.
THEOREM SheetsTypeCorrect == SheetsSpec => []SheetsTypeOK
  <1>1. SheetsInv => SheetsTypeOK
    BY DEF SheetsInv
  <1> QED
    BY <1>1, SheetsInvInit, SheetsInvStep, PTL DEF SheetsSpec

-----------------------------------------------------------------------------
(* Identifiers: induction and recursion over 0..n                            *)

LEMMA HasLeast ==
  ASSUME NEW T \in SUBSET Nat, T # {}
  PROVE  \E x \in T : \A y \in T : x <= y
  <1>1. PICK x \in T : \A y \in T : ~ (<<y, x>> \in OpToRel(<, Nat))
    BY NatLessThanWellFounded, WFMin
  <1>2. ASSUME NEW y \in T PROVE x <= y
    <2>1. x \in Nat /\ y \in Nat /\ <<y, x>> \in Nat \X Nat
      OBVIOUS
    <2>2. ~ (y < x)
      BY <1>1, <2>1 DEF OpToRel
    <2> QED
      BY <2>1, <2>2
  <1> QED
    BY <1>2

LEMMA Induction ==
  ASSUME NEW n \in Nat, NEW T, 0 \in T, \A i \in 1..n : i - 1 \in T => i \in T
  PROVE  \A i \in 0..n : i \in T
  <1> DEFINE Out == {i \in 0..n : i \notin T}
  <1> SUFFICES ASSUME Out # {} PROVE FALSE
    OBVIOUS
  <1>1. PICK i \in Out : \A k \in Out : i <= k
    <2>1. Out \in SUBSET Nat
      OBVIOUS
    <2> QED
      BY <2>1, HasLeast
  <1>2. i \in 1..n /\ i - 1 \in 0..n
    BY <1>1
  <1> QED
    BY <1>1, <1>2

\* f follows step from start on.
Follows(f, start, step, n) == f[0] = start /\ \A i \in 1..n : f[i] = step[<<f[i - 1], i>>]

LEMMA Recursion ==
  ASSUME NEW n \in Nat, NEW D, NEW start \in D, NEW step \in [D \X (1..n) -> D]
  PROVE  \E f \in [0..n -> D] : Follows(f, start, step, n)
  <1> DEFINE Ready(m) == \E f \in [0..m -> D] : Follows(f, start, step, m)
             T == {m \in 0..n : Ready(m)}
  <1>1. 0 \in T
    <2>1. [i \in 0..0 |-> start] \in [0..0 -> D] /\ Follows([i \in 0..0 |-> start], start, step, 0)
      BY DEF Follows
    <2> QED
      BY <2>1
  <1>2. ASSUME NEW m \in 1..n, m - 1 \in T PROVE m \in T
    <2>1. PICK f \in [0..(m - 1) -> D] : Follows(f, start, step, m - 1)
      BY <1>2
    <2> DEFINE g == [i \in 0..m |-> IF i = m THEN step[<<f[m - 1], m>>] ELSE f[i]]
    <2>2. g \in [0..m -> D]
      BY <2>1
    <2>3. g[m] = step[<<f[m - 1], m>>] /\ \A i \in 0..(m - 1) : g[i] = f[i]
      OBVIOUS
    <2> HIDE DEF g
    <2>4. g[0] = start /\ \A i \in 1..m : g[i] = step[<<g[i - 1], i>>]
      <3>1. ASSUME NEW i \in 1..m PROVE g[i] = step[<<g[i - 1], i>>]
        <4>1. CASE i = m
          BY <2>3, <4>1
        <4>2. CASE i # m
          <5>1. i \in 1..(m - 1) /\ i - 1 \in 0..(m - 1) /\ i \in 0..(m - 1)
            BY <4>2
          <5>2. f[i] = step[<<f[i - 1], i>>]
            BY <2>1, <5>1 DEF Follows
          <5> QED
            BY <2>3, <5>1, <5>2
        <4> QED
          BY <4>1, <4>2
      <3>2. g[0] = start
        BY <2>1, <2>3 DEF Follows
      <3> QED
        BY <3>1, <3>2
    <2>5. Follows(g, start, step, m)
      BY <2>4 DEF Follows
    <2> QED
      BY <2>2, <2>5
  <1>3. \A m \in 0..n : m \in T
    <2> HIDE DEF T
    <2> QED
      BY <1>1, <1>2, Induction
  <1> QED
    BY <1>3

\* What a recursion over 0..n that stays in D at each step computes is in D.
LEMMA RecursionStays ==
  ASSUME NEW n \in Nat, NEW D, NEW h, h[0] \in D, \A i \in 1..n : h[i - 1] \in D => h[i] \in D
  PROVE  h[n] \in D
  <1> DEFINE T == {i \in 0..n : h[i] \in D}
  <1>1. 0 \in T /\ \A i \in 1..n : i - 1 \in T => i \in T
    OBVIOUS
  <1>2. T \subseteq 0..n /\ \A i \in T : h[i] \in D
    OBVIOUS
  <1> HIDE DEF T
  <1>3. \A i \in 0..n : i \in T
    BY <1>1, Induction
  <1> QED
    BY <1>2, <1>3

-----------------------------------------------------------------------------
(* Identifiers: Luhn's digit                                                 *)

IsTotal(f, x) == f = [i \in 0..Len(x) |-> IF i = 0 THEN 0 ELSE f[i - 1] + x[i]]

LEMMA TotalAdds ==
  ASSUME NEW n \in Nat, NEW x \in [1..n -> Nat]
  PROVE  \E f \in [0..n -> Nat] : /\ f[0] = 0 /\ \A i \in 1..n : f[i] = f[i - 1] + x[i]
                                  /\ Total(x) = f[n]
  <1>1. x \in Seq(Nat) /\ Len(x) = n
    OBVIOUS
  <1> DEFINE step == [r \in Nat \X (1..n) |-> r[1] + x[r[2]]]
  <1>2. step \in [Nat \X (1..n) -> Nat]
    OBVIOUS
  <1>3. PICK g \in [0..n -> Nat] : Follows(g, 0, step, n)
    <2> HIDE DEF step
    <2> QED
      BY <1>2, Recursion
  <1>4. IsTotal(g, x)
    <2>1. ASSUME NEW i \in 1..n PROVE g[i] = g[i - 1] + x[i]
      <3>1. g[i - 1] \in Nat /\ <<g[i - 1], i>> \in Nat \X (1..n)
        BY <1>3
      <3>2. step[<<g[i - 1], i>>] = g[i - 1] + x[i]
        BY <3>1
      <3> QED
        BY <1>3, <3>2 DEF Follows
    <2>2. g[0] = 0
      BY <1>3 DEF Follows
    <2> QED
      BY <1>1, <2>1, <2>2 DEF IsTotal
  <1> DEFINE h == CHOOSE f : IsTotal(f, x)
  <1>5. IsTotal(h, x)
    BY <1>4
  <1>6. Total(x) = h[Len(x)]
    BY DEF Total, IsTotal
  <1> HIDE DEF h
  <1>7. h[0] = 0 /\ \A i \in 1..n : h[i] = h[i - 1] + x[i]
    BY <1>1, <1>5 DEF IsTotal
  <1>8. \A i \in 0..n : h[i] \in Nat
    <2> DEFINE T == {i \in 0..n : h[i] \in Nat}
    <2>1. 0 \in T
      BY <1>7
    <2>2. ASSUME NEW i \in 1..n, i - 1 \in T PROVE i \in T
      <3>1. h[i] = h[i - 1] + x[i] /\ h[i - 1] \in Nat /\ x[i] \in Nat
        BY <1>7, <2>2
      <3> QED
        BY <3>1
    <2> HIDE DEF T
    <2>3. \A i \in 0..n : i \in T
      BY <2>1, <2>2, Induction
    <2> QED
      BY <2>3 DEF T
  <1>9. h \in [0..n -> Nat]
    BY <1>1, <1>5, <1>8 DEF IsTotal
  <1> QED
    BY <1>1, <1>6, <1>7, <1>9

\* One term changes the sum by what it changes itself.
LEMMA TotalChanges ==
  ASSUME NEW n \in Nat, NEW x \in [1..n -> Nat], NEW y \in [1..n -> Nat], NEW i \in 1..n,
         \A k \in 1..n : k # i => x[k] = y[k]
  PROVE  Total(y) = Total(x) + y[i] - x[i] /\ Total(x) \in Nat /\ Total(y) \in Nat
  <1>1. PICK f \in [0..n -> Nat] : /\ f[0] = 0 /\ \A k \in 1..n : f[k] = f[k - 1] + x[k]
                                   /\ Total(x) = f[n]
    BY TotalAdds
  <1>2. PICK g \in [0..n -> Nat] : /\ g[0] = 0 /\ \A k \in 1..n : g[k] = g[k - 1] + y[k]
                                   /\ Total(y) = g[n]
    BY TotalAdds
  <1> DEFINE T == {k \in 0..n : g[k] = f[k] + (IF k < i THEN 0 ELSE y[i] - x[i])}
  <1>3. 0 \in T
    BY <1>1, <1>2
  <1>4. ASSUME NEW k \in 1..n, k - 1 \in T PROVE k \in T
    <2>1. g[k - 1] = f[k - 1] + (IF k - 1 < i THEN 0 ELSE y[i] - x[i]) /\ k - 1 \in 0..n
      BY <1>4
    <2>2. f[k] = f[k - 1] + x[k] /\ g[k] = g[k - 1] + y[k]
      BY <1>1, <1>2
    <2> HIDE DEF T
    <2>a. k \in 0..n /\ k - 1 \in 0..n /\ k \in Int
      OBVIOUS
    <2>b. f[k] \in Nat /\ f[k - 1] \in Nat /\ g[k] \in Nat /\ g[k - 1] \in Nat
      BY <1>1, <1>2, <2>a
    <2>c. x[k] \in Nat /\ y[k] \in Nat /\ x[i] \in Nat /\ y[i] \in Nat
      OBVIOUS
    <2> USE DEF T
    <2>4. CASE k < i
      BY <2>1, <2>2, <2>a, <2>b, <2>c, <2>4
    <2>5. CASE k = i
      BY <2>1, <2>2, <2>a, <2>b, <2>c, <2>5
    <2>6. CASE k > i
      <3>1. ~ (k < i) /\ ~ (k - 1 < i) /\ x[k] = y[k]
        BY <2>a, <2>6
      <3>2. g[k - 1] = f[k - 1] + y[i] - x[i]
        BY <2>1, <2>b, <2>c, <3>1
      <3>3. g[k] = f[k] + y[i] - x[i]
        <4>1. f[k] = f[k - 1] + x[k] /\ g[k] = g[k - 1] + x[k]
          BY <2>2, <3>1
        <4> DEFINE a == g[k - 1]  b == f[k - 1]  c == g[k]  d == f[k]  t == x[k]
                   u == y[i]  v == x[i]
        <4>2. /\ a \in Nat /\ b \in Nat /\ c \in Nat /\ d \in Nat /\ t \in Nat /\ u \in Nat /\ v \in Nat
              /\ a = b + u - v /\ c = a + t /\ d = b + t
          BY <2>b, <2>c, <3>2, <4>1
        <4> HIDE DEF a, b, c, d, t, u, v
        <4>3. c = d + u - v
          BY <4>2
        <4> QED
          BY <4>3 DEF c, d, u, v
      <3> QED
        BY <2>a, <2>b, <2>c, <3>1, <3>3
    <2> QED
      BY <2>a, <2>4, <2>5, <2>6
  <1>5. n \in T
    <2> HIDE DEF T
    <2>1. \A k \in 0..n : k \in T
      BY <1>3, <1>4, Induction
    <2> QED
      BY <2>1
  <1> QED
    BY <1>1, <1>2, <1>5

\* What digit d counts at place k of n.
Weight(n, k, d) == IF (n - k) % 2 = 1 THEN Doubled(d) ELSE d

LEMMA WeightsTell ==
  ASSUME NEW n \in Nat, NEW k \in 1..n, NEW d \in Digits, NEW e \in Digits
  PROVE  Weight(n, k, d) \in 0..9 /\ (d # e => Weight(n, k, d) # Weight(n, k, e))
  BY DEF Weight, Doubled, Digits

LEMMA LuhnTotal ==
  ASSUME NEW n \in Nat, NEW x \in [1..n -> Digits]
  PROVE  /\ [k \in 1..n |-> Weight(n, k, x[k])] \in [1..n -> Nat]
         /\ LuhnCheck(x) <=> Total([k \in 1..n |-> Weight(n, k, x[k])]) % 10 = 0
  <1>1. Len(x) = n
    OBVIOUS
  <1>2. \A k \in 1..n : Weight(n, k, x[k]) \in Nat
    BY WeightsTell
  <1>3. [k \in 1..Len(x) |-> IF (Len(x) - k) % 2 = 1 THEN Doubled(x[k]) ELSE x[k]]
            = [k \in 1..n |-> Weight(n, k, x[k])]
    BY <1>1 DEF Weight
  <1> QED
    BY <1>2, <1>3 DEF LuhnCheck

Weighed(x, n) == Total([k \in 1..n |-> Weight(n, k, x[k])])

LEMMA LuhnChanges ==
  ASSUME NEW n \in Nat, NEW x \in [1..n -> Digits], NEW i \in 1..n, NEW d \in Digits
  PROVE  /\ Weighed(x, n) \in Nat /\ Weighed(Wrong(x, i, d), n) \in Nat
         /\ LuhnCheck(x) <=> Weighed(x, n) % 10 = 0
         /\ LuhnCheck(Wrong(x, i, d)) <=> Weighed(Wrong(x, i, d), n) % 10 = 0
         /\ Weighed(Wrong(x, i, d), n) = Weighed(x, n) + Weight(n, i, d) - Weight(n, i, x[i])
  <1> DEFINE y == Wrong(x, i, d)
             u == [k \in 1..n |-> Weight(n, k, x[k])]
             v == [k \in 1..n |-> Weight(n, k, y[k])]
  <1>1. y \in [1..n -> Digits] /\ y[i] = d /\ \A k \in 1..n : k # i => y[k] = x[k]
    BY DEF Wrong
  <1> HIDE DEF y
  <1>2. u \in [1..n -> Nat] /\ (LuhnCheck(x) <=> Total(u) % 10 = 0)
    BY LuhnTotal
  <1>3. v \in [1..n -> Nat] /\ (LuhnCheck(y) <=> Total(v) % 10 = 0)
    BY <1>1, LuhnTotal
  <1>4. \A k \in 1..n : k # i => u[k] = v[k]
    BY <1>1
  <1>5. u[i] = Weight(n, i, x[i]) /\ v[i] = Weight(n, i, d)
    BY <1>1
  <1> HIDE DEF u, v
  <1>6. Total(v) = Total(u) + v[i] - u[i] /\ Total(u) \in Nat /\ Total(v) \in Nat
    BY <1>2, <1>3, <1>4, TotalChanges
  <1> QED
    BY <1>2, <1>3, <1>5, <1>6 DEF y, u, v, Weighed

\* Luhn's digit shows every wrong digit.
LEMMA LuhnShowsWrong ==
  ASSUME NEW n \in Nat, NEW x \in [1..n -> Digits], NEW i \in 1..n, NEW d \in Digits,
         d # x[i], LuhnCheck(x)
  PROVE  ~ LuhnCheck(Wrong(x, i, d))
  <1> DEFINE a == Weighed(x, n)
             b == Weighed(Wrong(x, i, d), n)
             p == Weight(n, i, d)
             q == Weight(n, i, x[i])
  <1>1. /\ a \in Nat /\ b \in Nat /\ b = a + p - q
        /\ LuhnCheck(x) <=> a % 10 = 0
        /\ LuhnCheck(Wrong(x, i, d)) <=> b % 10 = 0
    BY LuhnChanges
  <1>2. p \in 0..9 /\ q \in 0..9 /\ p # q
    <2>1. x[i] \in Digits
      OBVIOUS
    <2> QED
      BY <2>1, WeightsTell
  <1> HIDE DEF a, b, p, q
  <1>3. b % 10 # 0
    BY <1>1, <1>2
  <1> QED
    BY <1>1, <1>3

\* What doubling adds, or takes away, tells the digits from each other but 0 and 9.
LEMMA PairsTell ==
  ASSUME NEW c \in 0..9, NEW d \in 0..9, c # d, {c, d} # {0, 9}, NEW a \in Nat, NEW z \in Nat,
         a % 10 = 0, \/ z = a + Doubled(d) - Doubled(c) + c - d
                     \/ z = a + d - c + Doubled(c) - Doubled(d)
  PROVE  z % 10 # 0
  <1> DEFINE g == Doubled(c) - c
             h == Doubled(d) - d
  <1>1. g \in -4..4 /\ h \in -4..4 /\ g # h
    BY DEF Doubled
  <1>2. Doubled(c) = g + c /\ Doubled(d) = h + d
    BY DEF Doubled
  <1> HIDE DEF g, h
  <1>3. z = a + h - g \/ z = a + g - h
    BY <1>1, <1>2
  <1> QED
    BY <1>1, <1>3

\* It shows two neighbours swapped but for 0 and 9.
LEMMA LuhnShowsSwapped ==
  ASSUME NEW n \in Nat, NEW x \in [1..n -> Digits], NEW i \in 1..(n - 1),
         x[i] # x[i + 1], {x[i], x[i + 1]} # {0, 9}, LuhnCheck(x)
  PROVE  ~ LuhnCheck(Swapped(x, i))
  <1> DEFINE c == x[i]
             d == x[i + 1]
             y == Wrong(x, i, d)
  <1>1. i \in 1..n /\ i + 1 \in 1..n /\ c \in Digits /\ d \in Digits
    OBVIOUS
  <1>2. y \in [1..n -> Digits] /\ y[i + 1] = d /\ Swapped(x, i) = Wrong(y, i + 1, c)
    BY <1>1 DEF Wrong, Swapped
  <1>3. c # d /\ {c, d} # {0, 9}
    OBVIOUS
  <1> HIDE DEF c, d, y
  <1> DEFINE a == Weighed(x, n)
             z == Weighed(Swapped(x, i), n)
             p == Weight(n, i, d)      q == Weight(n, i, c)
             r == Weight(n, i + 1, c)  s == Weight(n, i + 1, d)
  <1>4. /\ a \in Nat /\ z \in Nat /\ z = a + p - q + r - s
        /\ LuhnCheck(x) <=> a % 10 = 0
        /\ LuhnCheck(Swapped(x, i)) <=> z % 10 = 0
    <2>1. /\ a \in Nat /\ Weighed(y, n) \in Nat /\ Weighed(y, n) = a + p - q
          /\ LuhnCheck(x) <=> a % 10 = 0
      BY <1>1, LuhnChanges DEF c, y
    <2>2. /\ z \in Nat /\ z = Weighed(y, n) + r - s
          /\ LuhnCheck(Swapped(x, i)) <=> z % 10 = 0
      <3> DEFINE v == Wrong(y, i + 1, c)
      <3>1. /\ Weighed(v, n) \in Nat
            /\ LuhnCheck(v) <=> Weighed(v, n) % 10 = 0
            /\ Weighed(v, n) = Weighed(y, n) + Weight(n, i + 1, c) - Weight(n, i + 1, y[i + 1])
        BY <1>1, <1>2, LuhnChanges
      <3> HIDE DEF v
      <3>2. Swapped(x, i) = v
        BY <1>2 DEF v
      <3> QED
        BY <1>2, <3>1, <3>2
    <2>3. p \in 0..9 /\ q \in 0..9 /\ r \in 0..9 /\ s \in 0..9
      BY <1>1, WeightsTell
    <2> HIDE DEF a, z, p, q, r, s
    <2> QED
      BY <2>1, <2>2, <2>3
  <1>5. \/ p = Doubled(d) /\ q = Doubled(c) /\ r = c /\ s = d
        \/ p = d /\ q = c /\ r = Doubled(c) /\ s = Doubled(d)
    <2>1. (n - i) % 2 = 1 <=> ~ ((n - (i + 1)) % 2 = 1)
      BY <1>1
    <2> QED
      BY <2>1 DEF Weight
  <1>6. c \in 0..9 /\ d \in 0..9 /\ c # d /\ {c, d} # {0, 9}
    BY <1>1, <1>3 DEF Digits
  <1> HIDE DEF a, z, p, q, r, s
  <1>7. \/ z = a + Doubled(d) - Doubled(c) + c - d
        \/ z = a + d - c + Doubled(c) - Doubled(d)
    BY <1>4, <1>5
  <1>8. z % 10 # 0
    BY <1>4, <1>6, <1>7, PairsTell
  <1> QED
    BY <1>4, <1>8

-----------------------------------------------------------------------------
(* Identifiers: the rest of a division by 97                                 *)

Parts == 0..35      \* a digit, or a letter of an IBAN
Rests == 0..96

\* One more part of a number.
Step97(r, p) == (r * (IF p > 9 THEN 100 ELSE 10) + p) % 97

IsRest(f, x) == f = [i \in 0..Len(x) |->
    IF i = 0 THEN 0 ELSE (f[i - 1] * (IF x[i] > 9 THEN 100 ELSE 10) + x[i]) % 97]

RestsOf(f, x, n) == /\ f \in [0..n -> Rests] /\ f[0] = 0
                    /\ \A i \in 1..n : f[i] = Step97(f[i - 1], x[i])

LEMMA StepRests ==
  ASSUME NEW r \in Rests, NEW p \in Parts
  PROVE  Step97(r, p) \in Rests
  BY DEF Step97, Rests, Parts

LEMMA RestFollows ==
  ASSUME NEW n \in Nat, NEW x \in [1..n -> Parts]
  PROVE  \E f : RestsOf(f, x, n) /\ Mod97(x) = f[n]
  <1>1. Len(x) = n
    OBVIOUS
  <1> DEFINE step == [r \in Rests \X (1..n) |-> Step97(r[1], x[r[2]])]
  <1>2. step \in [Rests \X (1..n) -> Rests] /\ 0 \in Rests
    <2>1. 0 \in Rests
      BY DEF Rests
    <2>2. \A r \in Rests \X (1..n) : Step97(r[1], x[r[2]]) \in Rests
      BY StepRests
    <2> QED
      BY <2>1, <2>2
  <1>3. PICK g \in [0..n -> Rests] : Follows(g, 0, step, n)
    <2> HIDE DEF step
    <2> QED
      BY <1>2, Recursion
  <1>4. IsRest(g, x)
    <2>1. ASSUME NEW i \in 1..n PROVE g[i] = Step97(g[i - 1], x[i])
      <3>1. g[i - 1] \in Rests /\ <<g[i - 1], i>> \in Rests \X (1..n)
        BY <1>3
      <3>2. step[<<g[i - 1], i>>] = Step97(g[i - 1], x[i])
        BY <3>1
      <3> QED
        BY <1>3, <3>2 DEF Follows
    <2>2. g[0] = 0
      BY <1>3 DEF Follows
    <2> QED
      BY <1>1, <1>3, <2>1, <2>2 DEF IsRest, Step97
  <1> DEFINE h == CHOOSE f : IsRest(f, x)
  <1>5. IsRest(h, x)
    BY <1>4
  <1>6. Mod97(x) = h[Len(x)]
    BY DEF Mod97, IsRest
  <1> HIDE DEF h
  <1>7. h[0] = 0 /\ \A i \in 1..n : h[i] = Step97(h[i - 1], x[i])
    BY <1>1, <1>5 DEF IsRest, Step97
  <1>8. \A i \in 0..n : h[i] \in Rests
    <2> DEFINE T == {i \in 0..n : h[i] \in Rests}
    <2>1. 0 \in T
      BY <1>7 DEF Rests
    <2>2. ASSUME NEW i \in 1..n, i - 1 \in T PROVE i \in T
      BY <1>7, <2>2, StepRests
    <2> HIDE DEF T
    <2>3. \A i \in 0..n : i \in T
      BY <2>1, <2>2, Induction
    <2> QED
      BY <2>3 DEF T
  <1>9. h \in [0..n -> Rests]
    BY <1>1, <1>5, <1>8 DEF IsRest
  <1> QED
    BY <1>1, <1>6, <1>7, <1>9 DEF RestsOf

LEMMA StepTells ==
  ASSUME NEW r \in Rests, NEW s \in Rests, r # s, NEW p \in Parts
  PROVE  Step97(r, p) # Step97(s, p)
  <1>1. CASE p > 9
    <2>1. Step97(r, p) = (100 * r + p) % 97 /\ Step97(s, p) = (100 * s + p) % 97
      BY <1>1 DEF Step97, Rests, Parts
    <2> QED
      BY <2>1, SMTT(30) DEF Rests, Parts
  <1>2. CASE p <= 9
    <2>1. Step97(r, p) = (10 * r + p) % 97 /\ Step97(s, p) = (10 * s + p) % 97
      BY <1>2 DEF Step97, Rests, Parts
    <2> QED
      BY <2>1, SMTT(30) DEF Rests, Parts
  <1> QED
    BY <1>1, <1>2 DEF Parts

LEMMA StepShowsWrong ==
  ASSUME NEW r \in Rests, NEW p \in Digits, NEW q \in Digits, p # q
  PROVE  Step97(r, p) # Step97(r, q)
  BY DEF Step97, Rests, Digits

\* 1 and B, 2 and M, 3 and X: a letter of eleven times the digit.
Twins(p, q) == \E d \in 1..3 : {p, q} = {d, 11 * d}

LEMMA StepShowsSwapped ==
  ASSUME NEW r \in Rests, NEW p \in Parts, NEW q \in Parts, p # q, ~ Twins(p, q)
  PROVE  Step97(Step97(r, p), q) # Step97(Step97(r, q), p)
  <1>1. /\ q \in 0..3 => p # 11 * q \/ q = 0
        /\ p \in 0..3 => q # 11 * p \/ p = 0
    BY DEF Twins, Parts
  <1>2. CASE p > 9 /\ q > 9
    BY <1>2 DEF Step97, Rests, Parts
  <1>3. CASE p > 9 /\ q <= 9
    BY <1>1, <1>3 DEF Step97, Rests, Parts
  <1>4. CASE p <= 9 /\ q > 9
    BY <1>1, <1>4 DEF Step97, Rests, Parts
  <1>5. CASE p <= 9 /\ q <= 9
    BY <1>5 DEF Step97, Rests, Parts
  <1> QED
    BY <1>2, <1>3, <1>4, <1>5 DEF Parts

LEMMA RestsTogether ==
  ASSUME NEW n \in Nat, NEW x \in [1..n -> Parts], NEW y \in [1..n -> Parts],
         NEW f, RestsOf(f, x, n), NEW g, RestsOf(g, y, n),
         NEW k \in 0..n, \A i \in 1..k : x[i] = y[i]
  PROVE  f[k] = g[k]
  <1> DEFINE T == {i \in 0..k : f[i] = g[i]}
  <1>1. 0 \in T /\ k \in Nat
    BY DEF RestsOf
  <1>2. ASSUME NEW i \in 1..k, i - 1 \in T PROVE i \in T
    <2>1. i \in 1..n /\ f[i - 1] = g[i - 1] /\ x[i] = y[i]
      BY <1>2
    <2> QED
      BY <2>1 DEF RestsOf
  <1> HIDE DEF T
  <1>3. \A i \in 0..k : i \in T
    BY <1>1, <1>2, Induction
  <1> QED
    BY <1>1, <1>3 DEF T

LEMMA RestsApart ==
  ASSUME NEW n \in Nat, NEW x \in [1..n -> Parts], NEW y \in [1..n -> Parts],
         NEW f, RestsOf(f, x, n), NEW g, RestsOf(g, y, n),
         NEW k \in 0..n, f[k] # g[k], \A i \in (k + 1)..n : x[i] = y[i]
  PROVE  f[n] # g[n]
  <1> DEFINE T == {i \in 0..n : i >= k => f[i] # g[i]}
  <1>1. 0 \in T
    OBVIOUS
  <1>2. ASSUME NEW i \in 1..n, i - 1 \in T PROVE i \in T
    <2>1. CASE i <= k
      <3>1. i >= k => i = k
        BY <2>1
      <3> QED
        BY <3>1
    <2>2. CASE i > k
      <3>1. /\ i - 1 \in 0..n /\ i \in (k + 1)..n /\ i - 1 >= k
        BY <2>2
      <3>2. f[i - 1] # g[i - 1] /\ x[i] = y[i] /\ x[i] \in Parts
        BY <1>2, <3>1
      <3>3. f[i - 1] \in Rests /\ g[i - 1] \in Rests
        BY <3>1 DEF RestsOf
      <3>4. f[i] = Step97(f[i - 1], x[i]) /\ g[i] = Step97(g[i - 1], y[i])
        BY DEF RestsOf
      <3> QED
        BY <3>2, <3>3, <3>4, StepTells
    <2> QED
      BY <2>1, <2>2
  <1> HIDE DEF T
  <1>3. \A i \in 0..n : i \in T
    BY <1>1, <1>2, Induction
  <1> QED
    BY <1>3 DEF T

\* A wrong digit changes the rest.
LEMMA Mod97ShowsWrong ==
  ASSUME NEW n \in Nat, NEW x \in [1..n -> Parts], NEW y \in [1..n -> Parts], NEW i \in 1..n,
         x[i] \in Digits, y[i] \in Digits, x[i] # y[i], \A k \in 1..n : k # i => x[k] = y[k]
  PROVE  Mod97(x) # Mod97(y)
  <1>1. PICK f : RestsOf(f, x, n) /\ Mod97(x) = f[n]
    BY RestFollows
  <1>2. PICK g : RestsOf(g, y, n) /\ Mod97(y) = g[n]
    BY RestFollows
  <1>3. f[i - 1] = g[i - 1] /\ i - 1 \in 0..n
    <2> DEFINE j == i - 1
    <2>1. j \in 0..n /\ \A k \in 1..j : x[k] = y[k]
      OBVIOUS
    <2> HIDE DEF j
    <2>2. f[j] = g[j]
      BY <1>1, <1>2, <2>1, RestsTogether
    <2> QED
      BY <2>1, <2>2 DEF j
  <1>4. f[i] # g[i]
    <2>1. /\ f[i] = Step97(f[i - 1], x[i]) /\ g[i] = Step97(g[i - 1], y[i])
          /\ f[i - 1] \in Rests
      BY <1>1, <1>2, <1>3 DEF RestsOf
    <2> QED
      BY <1>3, <2>1, StepShowsWrong
  <1>5. i \in 0..n /\ \A k \in (i + 1)..n : x[k] = y[k]
    OBVIOUS
  <1> QED
    BY <1>1, <1>2, <1>4, <1>5, RestsApart

\* So do two neighbours swapped, but for twins.
LEMMA Mod97ShowsSwapped ==
  ASSUME NEW n \in Nat, NEW x \in [1..n -> Parts], NEW y \in [1..n -> Parts],
         NEW i \in 1..(n - 1), x[i] # x[i + 1], ~ Twins(x[i], x[i + 1]),
         y[i] = x[i + 1], y[i + 1] = x[i], \A k \in 1..n : k \notin {i, i + 1} => x[k] = y[k]
  PROVE  Mod97(x) # Mod97(y)
  <1>1. PICK f : RestsOf(f, x, n) /\ Mod97(x) = f[n]
    BY RestFollows
  <1>2. PICK g : RestsOf(g, y, n) /\ Mod97(y) = g[n]
    BY RestFollows
  <1>3. f[i - 1] = g[i - 1] /\ i - 1 \in 0..n
    <2> DEFINE j == i - 1
    <2>1. j \in 0..n /\ \A k \in 1..j : x[k] = y[k]
      OBVIOUS
    <2> HIDE DEF j
    <2>2. f[j] = g[j]
      BY <1>1, <1>2, <2>1, RestsTogether
    <2> QED
      BY <2>1, <2>2 DEF j
  <1>4. f[i + 1] # g[i + 1]
    <2>1. /\ f[i] = Step97(f[i - 1], x[i]) /\ g[i] = Step97(g[i - 1], y[i])
          /\ f[i + 1] = Step97(f[i], x[i + 1]) /\ g[i + 1] = Step97(g[i], y[i + 1])
          /\ f[i - 1] \in Rests
      <3>1. i \in 1..n /\ i + 1 \in 1..n /\ (i + 1) - 1 = i
        OBVIOUS
      <3> QED
        BY <1>1, <1>2, <1>3, <3>1 DEF RestsOf
    <2>2. x[i] \in Parts /\ x[i + 1] \in Parts
      OBVIOUS
    <2> QED
      BY <1>3, <2>1, <2>2, StepShowsSwapped
  <1>5. i + 1 \in 0..n /\ \A k \in (i + 2)..n : x[k] = y[k]
    OBVIOUS
  <1> QED
    BY <1>1, <1>2, <1>4, <1>5, RestsApart

\* The powers of ten modulo 97.
Powers ==
    << 10, 3, 30, 9, 90, 27, 76, 81, 34, 49, 5, 50, 15, 53, 45, 62, 38, 89, 17, 73, 51, 25, 56,
       75, 71, 31, 19, 93, 57, 85, 74, 61, 28, 86, 84, 64, 58, 95, 77, 91, 37, 79, 14, 43, 42, 32,
       29, 96, 87, 94, 67, 88, 7, 70, 21, 16, 63, 48, 92, 47, 82, 44, 52, 35, 59, 8 >>

LEMMA PowersGoOn ==
  ASSUME NEW k \in 1..65, NEW e \in -9..9
  PROVE  (10 * ((Powers[k] * e) % 97)) % 97 = (Powers[k + 1] * e) % 97
  BY SMTT(60) DEF Powers

Power(k) == IF k = 0 THEN 1 ELSE Powers[k]

LEMMA PowersFollow ==
  ASSUME NEW k \in 0..65, NEW e \in -9..9
  PROVE  /\ (Power(k) * e) % 97 \in Rests
         /\ (10 * ((Power(k) * e) % 97)) % 97 = (Power(k + 1) * e) % 97
  <1>1. (Power(k) * e) % 97 \in Rests
    <2>1. CASE k = 0
      BY <2>1 DEF Power, Rests
    <2>2. CASE k # 0
      <3>1. Powers[k] \in Nat
        BY <2>2 DEF Powers
      <3> QED
        BY <2>2, <3>1 DEF Power, Rests
    <2> QED
      BY <2>1, <2>2
  <1>2. CASE k = 0
    <2>1. Powers[1] = 10
      BY DEF Powers
    <2> QED
      BY <1>1, <1>2, <2>1 DEF Power
  <1>3. CASE k # 0
    <2>1. k \in 1..65 /\ Power(k) = Powers[k] /\ Power(k + 1) = Powers[k + 1]
      BY <1>3 DEF Power
    <2>2. (10 * ((Powers[k] * e) % 97)) % 97 = (Powers[k + 1] * e) % 97
      BY <2>1, PowersGoOn
    <2> QED
      BY <1>1, <2>1, <2>2
  <1> QED
    BY <1>2, <1>3

\* 10 has no power of 1 for a long while.
LEMMA PowersAreNotOne ==
  ASSUME NEW k \in 1..66, NEW e \in -9..9, e # 0
  PROVE  (Power(k) * e) % 97 # e % 97
  <1>1. Power(k) \in 2..96
    BY DEF Power, Powers
  <1> DEFINE p == Power(k)
  <1>2. p \in 2..96
    BY <1>1
  <1> HIDE DEF p
  <1>3. (p * e) % 97 # e % 97
    BY <1>2, SMTT(60)
  <1> QED
    BY <1>3 DEF p

LEMMA StepShifts ==
  ASSUME NEW r \in Rests, NEW w \in Rests, NEW p \in Parts
  PROVE  Step97((r + w) % 97, p) = (Step97(r, p) + (IF p > 9 THEN (10 * ((10 * w) % 97)) % 97
                                                             ELSE (10 * w) % 97)) % 97
  BY DEF Step97, Rests, Parts

\* What e more of the first digit adds to the rest when k places have followed.
Carried(k, e) == (Power(k) * e) % 97

LEMMA CarriedFollow ==
  ASSUME NEW k \in 0..65, NEW e \in -9..9
  PROVE  Carried(k, e) \in Rests /\ (10 * Carried(k, e)) % 97 = Carried(k + 1, e)
  BY PowersFollow, Zenon DEF Carried

\* What a digit changed at the front does to the rest, after m parts.
ShiftedBy(f, g, m, e, k) == g[m] = (f[m] + Carried(k, e)) % 97

LEMMA RestsShift ==
  ASSUME NEW n \in 1..34, NEW x \in [1..n -> Parts], NEW y \in [1..n -> Parts],
         NEW f, RestsOf(f, x, n), NEW g, RestsOf(g, y, n), NEW m \in 1..n,
         x[1] \in Digits, y[1] \in Digits, \A i \in 2..m : x[i] = y[i]
  PROVE  \E k \in (m - 1)..(2 * (m - 1)) :
            /\ ShiftedBy(f, g, m, y[1] - x[1], k)
            /\ (\A i \in 2..m : x[i] \in Digits) => k = m - 1
  <1> DEFINE e == y[1] - x[1]
             Shifts(i) == \E k \in (i - 1)..(2 * (i - 1)) :
                            /\ ShiftedBy(f, g, i, e, k)
                            /\ (\A j \in 2..i : x[j] \in Digits) => k = i - 1
             T == {i \in 0..m : i > 0 => Shifts(i)}
  <1>1. e \in -9..9 /\ n \in Nat /\ m \in Nat
    BY DEF Digits
  <1>2. 0 \in T
    BY <1>1
  <1>3. Shifts(1)
    <2>1. f[1] = x[1] /\ g[1] = y[1]
      <3>1. f[1] = Step97(0, x[1]) /\ g[1] = Step97(0, y[1])
        BY DEF RestsOf
      <3> QED
        BY <3>1 DEF Step97, Digits
    <2>2. Power(0) = 1
      BY DEF Power
    <2>3. g[1] = (f[1] + Carried(0, e)) % 97
      BY <2>1, <2>2 DEF Digits, Carried
    <2> HIDE DEF e
    <2>4. ShiftedBy(f, g, 1, e, 0) /\ 0 \in (1 - 1)..(2 * (1 - 1)) /\ 0 = 1 - 1
      BY <2>3 DEF ShiftedBy
    <2> QED
      BY <2>4
  <1>4. ASSUME NEW i \in 1..m, i > 1, Shifts(i - 1) PROVE Shifts(i)
    <2>1. PICK k \in ((i - 1) - 1)..(2 * ((i - 1) - 1)) :
                /\ ShiftedBy(f, g, i - 1, e, k)
                /\ (\A j \in 2..(i - 1) : x[j] \in Digits) => k = (i - 1) - 1
      BY <1>4
    <2> HIDE DEF e
    <2> DEFINE w  == Carried(k, e)
               w1 == Carried(k + 1, e)
               w2 == Carried(k + 2, e)
               p  == x[i]
    <2>2. /\ k \in 0..64 /\ i - 1 \in 0..n /\ i \in 1..n /\ p \in Parts /\ y[i] = p
      BY <1>1, <1>4, <2>1
    <2>3. w \in Rests /\ (10 * w) % 97 = w1 /\ (10 * w1) % 97 = w2
      <3>1. k + 1 \in 0..65 /\ k \in 0..65 /\ (k + 1) + 1 = k + 2
        BY <2>2
      <3>2. w \in Rests /\ (10 * w) % 97 = w1
        BY <1>1, <3>1, CarriedFollow
      <3>3. (10 * w1) % 97 = Carried((k + 1) + 1, e)
        BY <1>1, <3>1, CarriedFollow
      <3> QED
        BY <3>1, <3>2, <3>3
    <2>4. /\ f[i - 1] \in Rests /\ f[i] = Step97(f[i - 1], p) /\ g[i] = Step97(g[i - 1], p)
      BY <2>2 DEF RestsOf
    <2>5. g[i - 1] = (f[i - 1] + w) % 97
      BY <2>1, Zenon DEF ShiftedBy
    <2>a. /\ ShiftedBy(f, g, i, e, k + 1) <=> g[i] = (f[i] + w1) % 97
          /\ ShiftedBy(f, g, i, e, k + 2) <=> g[i] = (f[i] + w2) % 97
      BY Zenon DEF ShiftedBy
    <2> HIDE DEF w, w1, w2, p
    <2>6. g[i] = (f[i] + (IF p > 9 THEN (10 * ((10 * w) % 97)) % 97 ELSE (10 * w) % 97)) % 97
      BY <2>2, <2>3, <2>4, <2>5, StepShifts
    <2>7. CASE p > 9
      <3>1. g[i] = (f[i] + w2) % 97
        BY <2>3, <2>6, <2>7
      <3>2. ShiftedBy(f, g, i, e, k + 2) /\ k + 2 \in (i - 1)..(2 * (i - 1))
        BY <1>1, <2>1, <2>a, <3>1
      <3>3. ~ (x[i] \in Digits) /\ i \in 2..i
        BY <1>1, <1>4, <2>7 DEF p, Digits
      <3> QED
        BY <3>2, <3>3
    <2>8. CASE ~ (p > 9)
      <3>1. g[i] = (f[i] + w1) % 97
        BY <2>3, <2>6, <2>8
      <3>2. ShiftedBy(f, g, i, e, k + 1) /\ k + 1 \in (i - 1)..(2 * (i - 1))
        BY <1>1, <2>1, <2>a, <3>1
      <3>3. (\A j \in 2..i : x[j] \in Digits) => k + 1 = i - 1
        BY <1>1, <1>4, <2>1
      <3> QED
        BY <3>2, <3>3
    <2> QED
      BY <2>7, <2>8
  <1>5. ASSUME NEW i \in 1..m, i - 1 \in T PROVE i \in T
    <2> HIDE DEF Shifts
    <2>1. CASE i = 1
      BY <1>1, <1>3, <2>1
    <2>2. CASE i > 1
      BY <1>1, <1>4, <1>5, <2>2
    <2> QED
      BY <1>1, <2>1, <2>2
  <1>6. m \in T
    <2> HIDE DEF T
    <2>1. \A i \in 0..m : i \in T
      BY <1>1, <1>2, <1>5, Induction
    <2> QED
      BY <1>1, <2>1
  <1>7. Shifts(m)
    BY <1>1, <1>6
  <1> QED
    BY <1>7

-----------------------------------------------------------------------------
(* Identifiers: the slips                                                    *)

\* z is what a slip makes of c.
Slipped(c, z) ==
    \/ \E i \in DOMAIN c, d \in Digits : c[i] \in Digits /\ z = Wrong(c, i, d)
    \/ \E i \in 1..(Len(c) - 1) : z = Swapped(c, i)

Exchanged(c, z) ==
    \E i \in 1..(Len(c) - 1) : {c[i], c[i + 1]} = {0, 9} /\ z = Swapped(c, i)

LEMMA WrongIsOther ==
  ASSUME NEW S, NEW n \in Nat, NEW c \in [1..n -> S], NEW i \in 1..n, NEW d \in S
  PROVE  /\ Wrong(c, i, d) \in [1..n -> S] /\ Wrong(c, i, d)[i] = d
         /\ \A k \in 1..n : k # i => Wrong(c, i, d)[k] = c[k]
         /\ Wrong(c, i, d) # c => d # c[i]
  BY DEF Wrong

LEMMA SwappedIsOther ==
  ASSUME NEW S, NEW n \in Nat, NEW c \in [1..n -> S], NEW i \in 1..(n - 1)
  PROVE  /\ Swapped(c, i) \in [1..n -> S]
         /\ Swapped(c, i)[i] = c[i + 1] /\ Swapped(c, i)[i + 1] = c[i]
         /\ \A k \in 1..n : k \notin {i, i + 1} => Swapped(c, i)[k] = c[k]
         /\ Swapped(c, i) # c => c[i] # c[i + 1]
  BY DEF Swapped

LEMMA LuhnShowsSlips ==
  ASSUME NEW n \in Nat, NEW c \in [1..n -> Digits], NEW z, LuhnCheck(c), Slipped(c, z), z # c
  PROVE  ~ LuhnCheck(z) \/ Exchanged(c, z)
  <1>1. Len(c) = n
    OBVIOUS
  <1>2. CASE \E i \in DOMAIN c, d \in Digits : z = Wrong(c, i, d)
    <2>1. PICK i \in 1..n, d \in Digits : z = Wrong(c, i, d)
      BY <1>2
    <2>2. d # c[i]
      <3>1. Wrong(c, i, d) # c
        BY <2>1
      <3> QED
        BY <3>1, WrongIsOther
    <2> QED
      BY <2>1, <2>2, LuhnShowsWrong
  <1>3. CASE \E i \in 1..(Len(c) - 1) : z = Swapped(c, i)
    <2>1. PICK i \in 1..(n - 1) : z = Swapped(c, i)
      BY <1>1, <1>3
    <2>2. c[i] # c[i + 1]
      <3>1. Swapped(c, i) # c
        BY <2>1
      <3>2. Swapped(c, i) # c => c[i] # c[i + 1]
        <4>1. c \in [1..n -> Digits] /\ i \in 1..(n - 1) /\ n \in Nat
          BY <2>1
        <4> QED
          BY <4>1, SwappedIsOther
      <3> QED
        BY <3>1, <3>2
    <2>3. CASE {c[i], c[i + 1]} = {0, 9}
      BY <1>1, <2>1, <2>3 DEF Exchanged
    <2>4. CASE {c[i], c[i + 1]} # {0, 9}
      BY <2>1, <2>2, <2>4, LuhnShowsSwapped
    <2> QED
      BY <2>3, <2>4
  <1> QED
    BY <1>2, <1>3 DEF Slipped

LEMMA DigitSequence ==
  ASSUME NEW S, NEW x \in Seq(S), NEW n \in Nat, Len(x) = n
  PROVE  x \in [1..n -> S]
  OBVIOUS

LEMMA SirenSlips ==
  ASSUME NEW c \in Seq(Digits), NEW z, ValidateSiren(c), Slipped(c, z), z # c
  PROVE  ~ ValidateSiren(z) \/ Exchanged(c, z)
  <1>1. c \in [1..9 -> Digits] /\ LuhnCheck(c) /\ 9 \in Nat
    BY DigitSequence DEF ValidateSiren
  <1> QED
    BY <1>1, LuhnShowsSlips DEF ValidateSiren

LEMMA SiretSlips ==
  ASSUME NEW c \in Seq(Digits), NEW z, ValidateSiret(c), Slipped(c, z), z # c
  PROVE  ~ ValidateSiret(z) \/ Exchanged(c, z)
  <1>1. c \in [1..14 -> Digits] /\ LuhnCheck(c) /\ 14 \in Nat
    BY DigitSequence DEF ValidateSiret
  <1> QED
    BY <1>1, LuhnShowsSlips DEF ValidateSiret

LEMMA DigitsAreParts == Digits \subseteq Parts /\ \A p, q \in Digits : ~ Twins(p, q)
  <1>1. ASSUME NEW p \in Digits, NEW q \in Digits, NEW d \in 1..3, {p, q} = {d, 11 * d}
        PROVE  FALSE
    <2>1. 11 * d \in {p, q} /\ 11 * d > 9
      BY <1>1
    <2> QED
      BY <2>1 DEF Digits
  <1>2. \A p, q \in Digits : ~ Twins(p, q)
    BY <1>1 DEF Twins
  <1> QED
    BY <1>2 DEF Digits, Parts

LEMMA Mod97Rests ==
  ASSUME NEW n \in Nat, NEW x \in [1..n -> Parts]
  PROVE  Mod97(x) \in Rests
  <1>1. PICK f : RestsOf(f, x, n) /\ Mod97(x) = f[n]
    BY RestFollows
  <1> QED
    BY <1>1 DEF RestsOf

\* The part of a number that stands before its key, or behind it.
LEMMA PartOf ==
  ASSUME NEW x \in Seq(Digits), NEW a \in Nat, NEW b \in Nat, a + b <= Len(x)
  PROVE  SubSeq(x, a + 1, a + b) = [k \in 1..b |-> x[a + k]]
         /\ [k \in 1..b |-> x[a + k]] \in [1..b -> Parts]
  <1>1. \A k \in 1..b : x[a + k] \in Parts
    BY DigitsAreParts
  <1>2. SubSeq(x, a + 1, a + b) = [k \in 1..b |-> x[a + k]]
    <2>1. SubSeq(x, a + 1, a + b) = [i \in 1..((a + b) - (a + 1) + 1) |-> x[(a + 1) + i - 1]]
      BY SubSeqProperties
    <2>2. (a + b) - (a + 1) + 1 = b /\ \A i \in 1..b : (a + 1) + i - 1 = a + i
      OBVIOUS
    <2> QED
      BY <2>1, <2>2
  <1> QED
    BY <1>1, <1>2

\* The number x without what stands before place a + 1 and after place a + b.
Cut(x, a, b) == [k \in 1..b |-> x[a + k]]

LEMMA SequenceOfDigits ==
  ASSUME NEW n \in Nat, NEW x \in [1..n -> Digits]
  PROVE  x \in Seq(Digits) /\ Len(x) = n
  OBVIOUS

LEMMA NirCheck ==
  ASSUME NEW x \in [1..15 -> Digits]
  PROVE  /\ ValidateNir(x) <=> 10 * x[14] + x[15] = 97 - Mod97(Cut(x, 0, 13))
         /\ Cut(x, 0, 13) \in [1..13 -> Parts] /\ Mod97(Cut(x, 0, 13)) \in Rests
         /\ \A k \in 1..13 : Cut(x, 0, 13)[k] = x[k]
  <1>1. x \in Seq(Digits) /\ Len(x) = 15
    BY 15 \in Nat, SequenceOfDigits
  <1>2. SubSeq(x, 0 + 1, 0 + 13) = Cut(x, 0, 13) /\ Cut(x, 0, 13) \in [1..13 -> Parts]
    <2>1. 0 + 13 <= Len(x)
      BY <1>1
    <2> QED
      BY <1>1, <2>1, PartOf DEF Cut
  <1>3. SubSeq(x, 1, 13) = Cut(x, 0, 13)
    <2>1. 0 + 1 = 1 /\ 0 + 13 = 13
      OBVIOUS
    <2> QED
      BY <1>2, <2>1
  <1>4. Mod97(Cut(x, 0, 13)) \in Rests
    BY <1>2, Mod97Rests
  <1>5. \A k \in 1..13 : Cut(x, 0, 13)[k] = x[k]
    BY DEF Cut
  <1> QED
    BY <1>1, <1>2, <1>3, <1>4, <1>5 DEF ValidateNir

\* One of n digits is another, or two neighbours are swapped.
SlippedAt(n, c, z) ==
    \/ \E i \in 1..n : c[i] # z[i] /\ \A k \in 1..n : k # i => c[k] = z[k]
    \/ \E i \in 1..(n - 1) : /\ c[i] # c[i + 1] /\ z[i] = c[i + 1] /\ z[i + 1] = c[i]
                             /\ \A k \in 1..n : k \notin {i, i + 1} => c[k] = z[k]

LEMMA SlipKinds ==
  ASSUME NEW n \in Nat, NEW c \in [1..n -> Digits], NEW z, Slipped(c, z), z # c
  PROVE  z \in [1..n -> Digits] /\ SlippedAt(n, c, z)
  <1>1. Len(c) = n
    OBVIOUS
  <1>2. CASE \E i \in DOMAIN c, d \in Digits : z = Wrong(c, i, d)
    <2>1. PICK i \in 1..n, d \in Digits : z = Wrong(c, i, d)
      BY <1>2
    <2>2. /\ z \in [1..n -> Digits] /\ z[i] = d /\ (z # c => d # c[i])
          /\ \A k \in 1..n : k # i => z[k] = c[k]
      <3> DEFINE y == Wrong(c, i, d)
      <3>1. /\ y \in [1..n -> Digits] /\ y[i] = d /\ (y # c => d # c[i])
            /\ \A k \in 1..n : k # i => y[k] = c[k]
        BY DEF Wrong
      <3> HIDE DEF y
      <3> QED
        BY <2>1, <3>1 DEF y
    <2> QED
      BY <2>2 DEF SlippedAt
  <1>3. CASE \E i \in 1..(Len(c) - 1) : z = Swapped(c, i)
    <2>1. PICK i \in 1..(n - 1) : z = Swapped(c, i)
      BY <1>1, <1>3
    <2>2. c \in [1..n -> Digits] /\ i \in 1..(n - 1) /\ n \in Nat
      BY <2>1
    <2>3. /\ z \in [1..n -> Digits] /\ z[i] = c[i + 1] /\ z[i + 1] = c[i]
          /\ \A k \in 1..n : k \notin {i, i + 1} => z[k] = c[k]
          /\ z # c => c[i] # c[i + 1]
      <3> DEFINE y == Swapped(c, i)
      <3>1. /\ y \in [1..n -> Digits] /\ y[i] = c[i + 1] /\ y[i + 1] = c[i]
            /\ \A k \in 1..n : k \notin {i, i + 1} => y[k] = c[k]
            /\ y # c => c[i] # c[i + 1]
        BY <2>2 DEF Swapped
      <3> HIDE DEF y
      <3> QED
        BY <2>1, <3>1 DEF y
    <2> QED
      BY <2>2, <2>3 DEF SlippedAt
  <1> QED
    BY <1>2, <1>3 DEF Slipped

LEMMA NirShowsSlips ==
  ASSUME NEW c \in [1..15 -> Digits], NEW z, ValidateNir(c), Slipped(c, z), z # c
  PROVE  ~ ValidateNir(z)
  <1>1. c \in [1..15 -> Digits] /\ 15 \in Nat
    OBVIOUS
  <1>2. z \in [1..15 -> Digits] /\ SlippedAt(15, c, z)
    BY <1>1, SlipKinds
  <1> DEFINE u == Cut(c, 0, 13)
             v == Cut(z, 0, 13)
             N == Mod97(u)
             M == Mod97(v)
  <1>3. N \in Rests /\ 10 * c[14] + c[15] = 97 - N
    BY <1>1, NirCheck
  <1>4. M \in Rests /\ (ValidateNir(z) <=> 10 * z[14] + z[15] = 97 - M)
    BY <1>2, NirCheck
  <1>a. /\ u \in [1..13 -> Parts] /\ v \in [1..13 -> Parts]
        /\ \A k \in 1..13 : u[k] = c[k] /\ v[k] = z[k]
    BY <1>1, <1>2, NirCheck
  <1>5. \A k \in 1..15 : c[k] \in Digits /\ z[k] \in Digits
    BY <1>1, <1>2
  <1> HIDE DEF u, v
  <1>6. (\A k \in 1..13 : u[k] = v[k]) => N = M
    <2>1. (\A k \in 1..13 : u[k] = v[k]) => u = v
      BY <1>a
    <2> QED
      BY <2>1
  <1>7. CASE \E i \in 1..15 : c[i] # z[i] /\ \A k \in 1..15 : k # i => c[k] = z[k]
    <2>1. PICK i \in 1..15 : c[i] # z[i] /\ \A k \in 1..15 : k # i => c[k] = z[k]
      BY <1>7
    <2>2. CASE i \in 1..13
      <3>1. u[i] \in Digits /\ v[i] \in Digits /\ u[i] # v[i] /\ \A k \in 1..13 : k # i => u[k] = v[k]
        BY <1>a, <1>5, <2>1, <2>2
      <3>2. N # M
        BY <1>a, <2>2, <3>1, Mod97ShowsWrong
      <3>3. z[14] = c[14] /\ z[15] = c[15]
        BY <2>1, <2>2
      <3> HIDE DEF N, M
      <3> QED
        BY <1>3, <1>4, <1>5, <3>2, <3>3 DEF Rests, Digits
    <2>3. CASE i \in {14, 15}
      <3>1. N = M
        BY <1>a, <1>6, <2>1, <2>3
      <3>2. /\ c[14] \in Digits /\ c[15] \in Digits /\ z[14] \in Digits /\ z[15] \in Digits
            /\ \/ c[14] # z[14] /\ c[15] = z[15]
               \/ c[14] = z[14] /\ c[15] # z[15]
        BY <1>5, <2>1, <2>3
      <3> HIDE DEF N, M
      <3> QED
        BY <1>3, <1>4, <3>1, <3>2 DEF Rests, Digits
    <2> QED
      BY <2>2, <2>3
  <1>8. CASE \E i \in 1..(15 - 1) : /\ c[i] # c[i + 1] /\ z[i] = c[i + 1] /\ z[i + 1] = c[i]
                                    /\ \A k \in 1..15 : k \notin {i, i + 1} => c[k] = z[k]
    <2>1. PICK i \in 1..14 : /\ c[i] # c[i + 1] /\ z[i] = c[i + 1] /\ z[i + 1] = c[i]
                             /\ \A k \in 1..15 : k \notin {i, i + 1} => c[k] = z[k]
      BY <1>8
    <2>2. CASE i \in 1..12
      <3>1. /\ u[i] \in Digits /\ u[i + 1] \in Digits /\ u[i] # u[i + 1]
            /\ v[i] = u[i + 1] /\ v[i + 1] = u[i] /\ i \in 1..(13 - 1) /\ 13 \in Nat
            /\ \A k \in 1..13 : k \notin {i, i + 1} => u[k] = v[k]
        BY <1>a, <1>5, <2>1, <2>2
      <3>2. N # M
        <4>1. ~ Twins(u[i], u[i + 1])
          BY <3>1, DigitsAreParts
        <4> QED
          BY <1>a, <3>1, <4>1, Mod97ShowsSwapped
      <3>3. z[14] = c[14] /\ z[15] = c[15]
        BY <2>1, <2>2
      <3> HIDE DEF N, M
      <3> QED
        BY <1>3, <1>4, <1>5, <3>2, <3>3 DEF Rests, Digits
    <2>3. CASE i = 13
      <3>1. PICK f : RestsOf(f, u, 13) /\ N = f[13]
        BY <1>a, RestFollows
      <3>2. PICK g : RestsOf(g, v, 13) /\ M = g[13]
        BY <1>a, RestFollows
      <3>3. f[12] = g[12] /\ f[12] \in Rests
        <4>1. \A k \in 1..12 : u[k] = v[k]
          BY <1>a, <2>1, <2>3
        <4> QED
          BY <1>a, <3>1, <3>2, <4>1, RestsTogether DEF RestsOf
      <3>4. N = Step97(f[12], c[13]) /\ M = Step97(f[12], c[14])
        <4>1. f[13] = Step97(f[13 - 1], u[13]) /\ g[13] = Step97(g[13 - 1], v[13]) /\ 13 - 1 = 12
          BY <3>1, <3>2 DEF RestsOf
        <4>2. u[13] = c[13] /\ v[13] = c[14]
          BY <1>a, <2>1, <2>3
        <4> QED
          BY <3>1, <3>2, <3>3, <4>1, <4>2
      <3>5. z[14] = c[13] /\ z[15] = c[15] /\ c[13] # c[14]
        BY <2>1, <2>3
      <3>6. c[13] \in Digits /\ c[14] \in Digits /\ c[15] \in Digits
        BY <1>5
      <3> DEFINE r == f[12]  p == c[13]  q == c[14]  s == c[15]
      <3>7. /\ 10 * q + s = 97 - Step97(r, p)
            /\ ValidateNir(z) <=> 10 * p + s = 97 - Step97(r, q)
        BY <1>3, <1>4, <3>4, <3>5
      <3>8. r \in Rests /\ p \in Digits /\ q \in Digits /\ s \in Digits /\ p # q
        BY <3>3, <3>5, <3>6
      <3> HIDE DEF r, p, q, s
      <3> QED
        BY <3>7, <3>8 DEF Step97, Rests, Digits
    <2>4. CASE i = 14
      <3>1. N = M
        BY <1>a, <1>6, <2>1, <2>4
      <3>2. z[14] = c[15] /\ z[15] = c[14] /\ c[14] # c[15] /\ c[14] \in Digits /\ c[15] \in Digits
        BY <1>5, <2>1, <2>4
      <3> HIDE DEF N, M
      <3> QED
        BY <1>3, <1>4, <3>1, <3>2 DEF Rests, Digits
    <2> QED
      BY <2>2, <2>3, <2>4
  <1> QED
    BY <1>2, <1>7, <1>8 DEF SlippedAt

LEMMA NirSlips ==
  ASSUME NEW c \in Seq(Digits), NEW z, ValidateNir(c), Slipped(c, z), z # c
  PROVE  ~ ValidateNir(z)
  <1>1. c \in [1..15 -> Digits]
    BY 15 \in Nat, DigitSequence DEF ValidateNir
  <1> QED
    BY <1>1, NirShowsSlips

LEMMA TvaCheck ==
  ASSUME NEW x \in [1..11 -> Digits]
  PROVE  /\ ValidateTva(x) <=> 10 * x[1] + x[2] = (12 + 3 * Mod97(Cut(x, 2, 9))) % 97
         /\ Cut(x, 2, 9) \in [1..9 -> Parts] /\ Mod97(Cut(x, 2, 9)) \in Rests
         /\ \A k \in 1..9 : Cut(x, 2, 9)[k] = x[2 + k]
  <1>1. x \in Seq(Digits) /\ Len(x) = 11
    BY 11 \in Nat, SequenceOfDigits
  <1>2. SubSeq(x, 2 + 1, 2 + 9) = Cut(x, 2, 9) /\ Cut(x, 2, 9) \in [1..9 -> Parts]
    <2>1. 2 + 9 <= Len(x)
      BY <1>1
    <2> QED
      BY <1>1, <2>1, PartOf DEF Cut
  <1>3. SubSeq(x, 3, 11) = Cut(x, 2, 9)
    <2>1. 2 + 1 = 3 /\ 2 + 9 = 11
      OBVIOUS
    <2> QED
      BY <1>2, <2>1
  <1>4. Mod97(Cut(x, 2, 9)) \in Rests
    BY <1>2, Mod97Rests
  <1>5. \A k \in 1..9 : Cut(x, 2, 9)[k] = x[2 + k]
    BY DEF Cut
  <1> QED
    BY <1>1, <1>2, <1>3, <1>4, <1>5 DEF ValidateTva

LEMMA TvaShowsSlips ==
  ASSUME NEW c \in [1..11 -> Digits], NEW z, ValidateTva(c), Slipped(c, z), z # c
  PROVE  ~ ValidateTva(z)
  <1>1. c \in [1..11 -> Digits] /\ 11 \in Nat
    OBVIOUS
  <1>2. z \in [1..11 -> Digits] /\ SlippedAt(11, c, z)
    BY <1>1, SlipKinds
  <1> DEFINE u == Cut(c, 2, 9)
             v == Cut(z, 2, 9)
             N == Mod97(u)
             M == Mod97(v)
  <1>3. N \in Rests /\ 10 * c[1] + c[2] = (12 + 3 * N) % 97
    BY <1>1, TvaCheck
  <1>4. M \in Rests /\ (ValidateTva(z) <=> 10 * z[1] + z[2] = (12 + 3 * M) % 97)
    BY <1>2, TvaCheck
  <1>5. /\ u \in [1..9 -> Parts] /\ v \in [1..9 -> Parts]
        /\ \A k \in 1..9 : u[k] = c[2 + k] /\ v[k] = z[2 + k]
    BY <1>1, <1>2, TvaCheck
  <1>6. \A k \in 1..11 : c[k] \in Digits /\ z[k] \in Digits
    BY <1>1, <1>2
  <1> HIDE DEF u, v
  <1>7. (\A k \in 3..11 : c[k] = z[k]) => N = M
    <2>1. (\A k \in 3..11 : c[k] = z[k]) => \A k \in 1..9 : u[k] = v[k]
      BY <1>5
    <2>2. (\A k \in 1..9 : u[k] = v[k]) => u = v
      BY <1>5
    <2> QED
      BY <2>1, <2>2
  <1>8. CASE \E i \in 1..11 : c[i] # z[i] /\ \A k \in 1..11 : k # i => c[k] = z[k]
    <2>1. PICK i \in 1..11 : c[i] # z[i] /\ \A k \in 1..11 : k # i => c[k] = z[k]
      BY <1>8
    <2>2. CASE i \in 3..11
      <3> DEFINE j == i - 2
      <3>1. j \in 1..9 /\ 2 + j = i
        BY <2>2
      <3>2. /\ u[j] \in Digits /\ v[j] \in Digits /\ u[j] # v[j]
            /\ \A k \in 1..9 : k # j => u[k] = v[k]
        <4>1. u[j] = c[i] /\ v[j] = z[i]
          BY <1>5, <3>1
        <4>2. \A k \in 1..9 : k # j => 2 + k \in 1..11 /\ 2 + k # i
          BY <3>1
        <4> HIDE DEF j
        <4> QED
          BY <1>5, <1>6, <2>1, <4>1, <4>2
      <3> HIDE DEF j
      <3>3. N # M
        BY <1>5, <3>1, <3>2, 9 \in Nat, Mod97ShowsWrong
      <3>4. z[1] = c[1] /\ z[2] = c[2]
        BY <2>1, <2>2
      <3> HIDE DEF N, M
      <3> QED
        BY <1>3, <1>4, <3>3, <3>4 DEF Rests
    <2>3. CASE i \in {1, 2}
      <3>1. N = M
        BY <1>7, <2>1, <2>3
      <3>2. /\ c[1] \in Digits /\ c[2] \in Digits /\ z[1] \in Digits /\ z[2] \in Digits
            /\ \/ c[1] # z[1] /\ c[2] = z[2]
               \/ c[1] = z[1] /\ c[2] # z[2]
        BY <1>6, <2>1, <2>3
      <3> HIDE DEF N, M
      <3> QED
        BY <1>3, <1>4, <3>1, <3>2 DEF Digits
    <2> QED
      BY <2>2, <2>3
  <1>9. CASE \E i \in 1..(11 - 1) : /\ c[i] # c[i + 1] /\ z[i] = c[i + 1] /\ z[i + 1] = c[i]
                                    /\ \A k \in 1..11 : k \notin {i, i + 1} => c[k] = z[k]
    <2>1. PICK i \in 1..10 : /\ c[i] # c[i + 1] /\ z[i] = c[i + 1] /\ z[i + 1] = c[i]
                             /\ \A k \in 1..11 : k \notin {i, i + 1} => c[k] = z[k]
      BY <1>9
    <2>2. CASE i \in 3..10
      <3> DEFINE j == i - 2
      <3>1. j \in 1..8 /\ j \in 1..9 /\ j + 1 \in 1..9 /\ 2 + j = i /\ 2 + (j + 1) = i + 1
        BY <2>2
      <3>2. /\ u[j] \in Digits /\ u[j + 1] \in Digits /\ u[j] # u[j + 1]
            /\ v[j] = u[j + 1] /\ v[j + 1] = u[j]
            /\ \A k \in 1..9 : k \notin {j, j + 1} => u[k] = v[k]
        <4>1. /\ u[j] = c[i] /\ v[j] = z[i] /\ u[j + 1] = c[i + 1] /\ v[j + 1] = z[i + 1]
              /\ i \in 1..11 /\ i + 1 \in 1..11
          BY <1>5, <3>1
        <4>2. \A k \in 1..9 : k \notin {j, j + 1} => 2 + k \in 1..11 /\ 2 + k \notin {i, i + 1}
          BY <3>1
        <4> HIDE DEF j
        <4> QED
          BY <1>5, <1>6, <2>1, <4>1, <4>2
      <3> HIDE DEF j
      <3>3. N # M
        <4>1. ~ Twins(u[j], u[j + 1])
          BY <3>2, DigitsAreParts
        <4>2. j \in 1..(9 - 1) /\ 9 \in Nat
          BY <3>1
        <4> QED
          BY <1>5, <3>2, <4>1, <4>2, Mod97ShowsSwapped
      <3>4. z[1] = c[1] /\ z[2] = c[2]
        BY <2>1, <2>2
      <3> HIDE DEF N, M
      <3> QED
        BY <1>3, <1>4, <3>3, <3>4 DEF Rests
    <2>3. CASE i = 2
      <3>1. /\ u[1] = c[3] /\ v[1] = c[2] /\ c[2] # c[3] /\ z[1] = c[1] /\ z[2] = c[3]
            /\ c[1] \in Digits /\ c[2] \in Digits /\ c[3] \in Digits
        BY <1>5, <1>6, <2>1, <2>3
      <3>2. \A k \in 2..9 : u[k] = v[k] /\ u[k] \in Digits
        <4>1. \A k \in 2..9 : 2 + k \in 1..11 /\ 2 + k \notin {i, i + 1}
          BY <2>3
        <4> QED
          BY <1>5, <1>6, <2>1, <4>1
      <3>3. PICK f : RestsOf(f, u, 9) /\ N = f[9]
        BY <1>5, 9 \in Nat, RestFollows
      <3>4. PICK g : RestsOf(g, v, 9) /\ M = g[9]
        BY <1>5, 9 \in Nat, RestFollows
      <3>5. PICK k \in (9 - 1)..(2 * (9 - 1)) :
                /\ ShiftedBy(f, g, 9, v[1] - u[1], k)
                /\ (\A l \in 2..9 : u[l] \in Digits) => k = 9 - 1
        <4>1. 9 \in 1..34 /\ 9 \in 1..9 /\ u[1] \in Digits /\ v[1] \in Digits
          BY <3>1
        <4> QED
          BY <1>5, <3>2, <3>3, <3>4, <4>1, RestsShift
      <3> DEFINE a == c[1]  p == c[2]  q == c[3]
      <3>6. M = (N + ((81 * (p - q)) % 97)) % 97
        <4>1. k = 8 /\ Power(8) = 81
          BY <3>2, <3>5 DEF Power, Powers
        <4>2. ShiftedBy(f, g, 9, p - q, 8)
          BY <3>1, <3>5, <4>1
        <4> HIDE DEF N, M, p, q
        <4> QED
          BY <3>3, <3>4, <4>1, <4>2 DEF ShiftedBy, Carried
      <3>7. /\ 10 * a + p = (12 + 3 * N) % 97 /\ p # q
            /\ ValidateTva(z) <=> 10 * a + q = (12 + 3 * M) % 97
            /\ a \in 0..9 /\ p \in 0..9 /\ q \in 0..9 /\ N \in 0..96
        BY <1>3, <1>4, <3>1 DEF Digits, Rests
      <3> HIDE DEF N, M, a, p, q
      <3> QED
        BY <3>6, <3>7
    <2>4. CASE i = 1
      <3>1. N = M
        BY <1>7, <2>1, <2>4
      <3>2. z[1] = c[2] /\ z[2] = c[1] /\ c[1] # c[2] /\ c[1] \in Digits /\ c[2] \in Digits
        BY <1>6, <2>1, <2>4
      <3> HIDE DEF N, M
      <3> QED
        BY <1>3, <1>4, <3>1, <3>2 DEF Digits
    <2> QED
      BY <2>2, <2>3, <2>4
  <1> QED
    BY <1>2, <1>8, <1>9 DEF SlippedAt

TwinsSwapped(c, z) == \E i \in 1..(Len(c) - 1) : Twins(c[i], c[i + 1]) /\ z = Swapped(c, i)

LEMMA IbanSlipKinds ==
  ASSUME NEW n \in Nat, NEW c \in [1..n -> Parts], NEW z, Slipped(c, z), z # c
  PROVE  /\ z \in [1..n -> Parts]
         /\ \/ \E i \in 1..n : /\ c[i] # z[i] /\ c[i] \in Digits /\ z[i] \in Digits
                               /\ \A k \in 1..n : k # i => c[k] = z[k]
            \/ \E i \in 1..(n - 1) : /\ c[i] # c[i + 1] /\ z[i] = c[i + 1] /\ z[i + 1] = c[i]
                                     /\ \A k \in 1..n : k \notin {i, i + 1} => c[k] = z[k]
                                     /\ Twins(c[i], c[i + 1]) => TwinsSwapped(c, z)
  <1>1. Len(c) = n
    OBVIOUS
  <1>2. CASE \E i \in DOMAIN c, d \in Digits : c[i] \in Digits /\ z = Wrong(c, i, d)
    <2>1. PICK i \in 1..n, d \in Digits : c[i] \in Digits /\ z = Wrong(c, i, d)
      BY <1>2
    <2>2. /\ z \in [1..n -> Parts] /\ z[i] = d /\ (z # c => d # c[i])
          /\ \A k \in 1..n : k # i => z[k] = c[k]
      <3> DEFINE y == Wrong(c, i, d)
      <3>1. /\ y \in [1..n -> Parts] /\ y[i] = d /\ (y # c => d # c[i])
            /\ \A k \in 1..n : k # i => y[k] = c[k]
        BY DigitsAreParts DEF Wrong
      <3> HIDE DEF y
      <3> QED
        BY <2>1, <3>1 DEF y
    <2> QED
      BY <2>1, <2>2
  <1>3. CASE \E i \in 1..(Len(c) - 1) : z = Swapped(c, i)
    <2>1. PICK i \in 1..(n - 1) : z = Swapped(c, i)
      BY <1>1, <1>3
    <2>2. c \in [1..n -> Parts] /\ i \in 1..(n - 1) /\ n \in Nat
      BY <2>1
    <2>3. /\ z \in [1..n -> Parts] /\ z[i] = c[i + 1] /\ z[i + 1] = c[i]
          /\ \A k \in 1..n : k \notin {i, i + 1} => z[k] = c[k]
          /\ z # c => c[i] # c[i + 1]
      <3> DEFINE y == Swapped(c, i)
      <3>1. /\ y \in [1..n -> Parts] /\ y[i] = c[i + 1] /\ y[i + 1] = c[i]
            /\ \A k \in 1..n : k \notin {i, i + 1} => y[k] = c[k]
            /\ y # c => c[i] # c[i + 1]
        BY <2>2 DEF Swapped
      <3> HIDE DEF y
      <3> QED
        BY <2>1, <3>1 DEF y
    <2>4. Twins(c[i], c[i + 1]) => TwinsSwapped(c, z)
      BY <1>1, <2>1, <2>2 DEF TwinsSwapped
    <2> QED
      BY <2>2, <2>3, <2>4
  <1> QED
    BY <1>2, <1>3 DEF Slipped

\* Where place i of an IBAN of n places goes.
Turned(n, i) == IF i > 4 THEN i - 4 ELSE n - 4 + i

LEMMA IbanPlaces ==
  ASSUME NEW n \in 5..34, NEW x \in [1..n -> Parts]
  PROVE  /\ Rearranged(x) \in [1..n -> Parts]
         /\ \A i \in 1..n : Turned(n, i) \in 1..n /\ Rearranged(x)[Turned(n, i)] = x[i]
         /\ ValidateIban(x) <=> /\ x[1] \notin Digits /\ x[2] \notin Digits
                                /\ x[3] \in Digits /\ x[4] \in Digits
                                /\ Mod97(Rearranged(x)) = 1
  <1>1. Len(x) = n
    OBVIOUS
  <1>2. Rearranged(x) = [i \in 1..n |-> IF i <= n - 4 THEN x[i + 4] ELSE x[i - (n - 4)]]
    BY <1>1 DEF Rearranged
  <1>3. \A i \in 1..n : (IF i <= n - 4 THEN x[i + 4] ELSE x[i - (n - 4)]) \in Parts
    OBVIOUS
  <1>4. Rearranged(x) \in [1..n -> Parts]
    BY <1>2, <1>3
  <1>5. \A i \in 1..n : Turned(n, i) \in 1..n /\ Rearranged(x)[Turned(n, i)] = x[i]
    BY <1>2 DEF Turned
  <1>6. ValidateIban(x) <=> /\ x[1] \notin Digits /\ x[2] \notin Digits
                            /\ x[3] \in Digits /\ x[4] \in Digits
                            /\ Mod97(Rearranged(x)) = 1
    BY <1>1 DEF ValidateIban
  <1> QED
    BY <1>4, <1>5, <1>6

LEMMA PlacesDiffer ==
  ASSUME NEW n \in 5..34
  PROVE  /\ \A k \in 1..n : \E i \in 1..n : k = Turned(n, i)
         /\ \A i \in (1..(n - 1)) \ {4} : Turned(n, i + 1) = Turned(n, i) + 1 /\ Turned(n, i) \in 1..(n - 1)
  <1>1. ASSUME NEW k \in 1..n PROVE \E i \in 1..n : k = Turned(n, i)
    <2> DEFINE i == IF k <= n - 4 THEN k + 4 ELSE k - (n - 4)
    <2>1. i \in 1..n /\ k = Turned(n, i)
      BY DEF Turned
    <2> QED
      BY <2>1
  <1> QED
    BY <1>1 DEF Turned

Moved(r, w, s) == s = (r + w) % 97 /\ r \in Rests /\ w \in Rests
Unlike(w, p, q) == (10 * w) % 97 # (p - q) % 97 /\ p \in 0..9 /\ q \in 0..9

LEMMA EndsTell ==
  ASSUME NEW r, NEW w, NEW s, NEW p, NEW q, Moved(r, w, s), Unlike(w, p, q)
  PROVE  Step97(r, p) # Step97(s, q)
  <1> SUFFICES ASSUME Step97(r, p) = Step97(s, q)
               PROVE  FALSE
    OBVIOUS
  <1>1. s \in Int /\ (s = r + w \/ s = r + w - 97)
    BY DEF Rests, Moved, Unlike
  <1>2. (10 * r + p) % 97 = (10 * s + q) % 97
    BY <1>1 DEF Step97, Rests, Moved, Unlike
  <1>3. CASE s = r + w
    <2>1. (10 * r + p) % 97 = (10 * r + 10 * w + q) % 97
      BY <1>2, <1>3 DEF Rests, Moved, Unlike
    <2> QED
      BY <2>1 DEF Rests, Moved, Unlike
  <1>4. CASE s = r + w - 97
    <2>1. (10 * r + p) % 97 = (10 * r + 10 * w - 970 + q) % 97
      BY <1>2, <1>4 DEF Rests, Moved, Unlike
    <2> QED
      BY <2>1 DEF Rests, Moved, Unlike
  <1> QED
    BY <1>1, <1>3, <1>4

\* The last digit of an IBAN's key and the first of its account swapped.
LEMMA IbanShowsEnds ==
  ASSUME NEW n \in 5..34, NEW u \in [1..n -> Parts], NEW v \in [1..n -> Parts],
         u[1] \in Digits, u[n] \in Digits, u[1] # u[n], v[1] = u[n], v[n] = u[1],
         \A k \in 2..(n - 1) : u[k] = v[k]
  PROVE  Mod97(u) # Mod97(v)
  <1>1. n \in Nat /\ n \in 1..n /\ n - 1 \in 1..n /\ n - 1 \in 0..n /\ n \in 1..34
    OBVIOUS
  <1>2. PICK f : RestsOf(f, u, n) /\ Mod97(u) = f[n]
    BY <1>1, RestFollows
  <1>3. PICK g : RestsOf(g, v, n) /\ Mod97(v) = g[n]
    BY <1>1, RestFollows
  <1>4. PICK k \in ((n - 1) - 1)..(2 * ((n - 1) - 1)) : ShiftedBy(f, g, n - 1, v[1] - u[1], k)
    BY <1>1, <1>2, <1>3, RestsShift
  <1> DEFINE e == v[1] - u[1]
             w == Carried(k, e)
             r == f[n - 1]
             p == u[n]
             q == u[1]
  <1>5. e \in -9..9 /\ e # 0 /\ e = p - q /\ p \in 0..9 /\ q \in 0..9
    BY DEF Digits
  <1>6. k \in 0..65 /\ k + 1 \in 1..66
    BY <1>1
  <1> HIDE DEF e
  <1>7. w \in Rests /\ (10 * w) % 97 # e % 97
    <2>1. w \in Rests /\ (10 * w) % 97 = Carried(k + 1, e)
      BY <1>5, <1>6, CarriedFollow
    <2>2. Carried(k + 1, e) # e % 97
      BY <1>5, <1>6, PowersAreNotOne DEF Carried
    <2> HIDE DEF w
    <2> QED
      BY <2>1, <2>2
  <1> DEFINE s == g[n - 1]
  <1>8. s = (r + w) % 97
    BY <1>4 DEF ShiftedBy, e
  <1>9. /\ f[n] = Step97(r, p) /\ g[n] = Step97(s, q) /\ r \in Rests
    BY <1>1, <1>2, <1>3 DEF RestsOf
  <1> HIDE DEF w, r, p, q, s
  <1>10. Step97(r, p) # Step97(s, q)
    <2>1. Unlike(w, p, q)
      BY <1>5, <1>7 DEF Unlike
    <2>2. Moved(r, w, s)
      BY <1>7, <1>8, <1>9 DEF Moved
    <2> QED
      BY <2>1, <2>2, EndsTell
  <1> QED
    BY <1>2, <1>3, <1>9, <1>10

LEMMA IbanShowsSlips ==
  ASSUME NEW n \in 5..34, NEW c \in [1..n -> Parts], NEW z,
         ValidateIban(c), Slipped(c, z), z # c
  PROVE  ~ ValidateIban(z) \/ TwinsSwapped(c, z)
  <1> SUFFICES ASSUME ValidateIban(z), ~ TwinsSwapped(c, z)
               PROVE  FALSE
    OBVIOUS
  <1>1. n \in Nat /\ z \in [1..n -> Parts]
    <2>1. n \in Nat
      OBVIOUS
    <2> QED
      BY <2>1, IbanSlipKinds, Zenon
  <1> DEFINE u == Rearranged(c)
             v == Rearranged(z)
  <1>2. /\ u \in [1..n -> Parts] /\ Mod97(u) = 1
        /\ \A i \in 1..n : Turned(n, i) \in 1..n /\ u[Turned(n, i)] = c[i]
        /\ c[1] \notin Digits /\ c[2] \notin Digits /\ c[3] \in Digits /\ c[4] \in Digits
    BY IbanPlaces
  <1>3. /\ v \in [1..n -> Parts] /\ Mod97(v) = 1
        /\ \A i \in 1..n : Turned(n, i) \in 1..n /\ v[Turned(n, i)] = z[i]
        /\ z[1] \notin Digits /\ z[2] \notin Digits /\ z[3] \in Digits /\ z[4] \in Digits
    BY <1>1, IbanPlaces
  <1> HIDE DEF u, v
  <1>4. ASSUME NEW i \in 1..n, c[i] # z[i], c[i] \in Digits, z[i] \in Digits,
               \A k \in 1..n : k # i => c[k] = z[k]
        PROVE  FALSE
    <2> DEFINE j == Turned(n, i)
    <2>1. j \in 1..n /\ u[j] = c[i] /\ v[j] = z[i]
      BY <1>2, <1>3
    <2>2. ASSUME NEW k \in 1..n, k # j PROVE u[k] = v[k]
      <3>1. PICK l \in 1..n : k = Turned(n, l)
        BY PlacesDiffer
      <3>2. l # i
        BY <2>2, <3>1
      <3>3. c[l] = z[l]
        BY <1>4, <3>2
      <3> QED
        BY <1>2, <1>3, <3>1, <3>3
    <2> HIDE DEF j
    <2>3. u[j] \in Digits /\ v[j] \in Digits /\ u[j] # v[j]
      BY <1>4, <2>1
    <2>4. Mod97(u) # Mod97(v)
      BY <1>1, <1>2, <1>3, <2>1, <2>2, <2>3, Mod97ShowsWrong
    <2> QED
      BY <1>2, <1>3, <2>4
  <1>5. ASSUME NEW i \in 1..(n - 1), c[i] # c[i + 1], z[i] = c[i + 1], z[i + 1] = c[i],
               \A k \in 1..n : k \notin {i, i + 1} => c[k] = z[k], ~ Twins(c[i], c[i + 1])
        PROVE  FALSE
    <2>1. i \in 1..n /\ i + 1 \in 1..n
      OBVIOUS
    <2>2. CASE i # 4
      <3> DEFINE j == Turned(n, i)
      <3>1. /\ j \in 1..(n - 1) /\ Turned(n, i + 1) = j + 1
        BY <2>2, PlacesDiffer
      <3>2. u[j] = c[i] /\ v[j] = z[i] /\ u[j + 1] = c[i + 1] /\ v[j + 1] = z[i + 1]
        BY <1>2, <1>3, <2>1, <3>1
      <3>3. ASSUME NEW k \in 1..n, k \notin {j, j + 1} PROVE u[k] = v[k]
        <4>1. PICK l \in 1..n : k = Turned(n, l)
          BY PlacesDiffer
        <4>2. l \notin {i, i + 1}
          BY <3>1, <3>3, <4>1
        <4>3. c[l] = z[l]
          BY <1>5, <4>2
        <4> QED
          BY <1>2, <1>3, <4>1, <4>3
      <3>a. \A k \in 1..n : k \notin {j, j + 1} => u[k] = v[k]
        BY <3>3
      <3> HIDE DEF j
      <3>4. u[j] # u[j + 1] /\ ~ Twins(u[j], u[j + 1]) /\ v[j] = u[j + 1] /\ v[j + 1] = u[j]
        BY <1>5, <3>2
      <3>5. Mod97(u) # Mod97(v)
        <4>1. /\ n \in Nat /\ u \in [1..n -> Parts] /\ v \in [1..n -> Parts] /\ j \in 1..(n - 1)
              /\ u[j] # u[j + 1] /\ ~ Twins(u[j], u[j + 1]) /\ v[j] = u[j + 1] /\ v[j + 1] = u[j]
          BY <1>1, <1>2, <1>3, <3>1, <3>4
        <4> QED
          BY <3>a, <4>1, Mod97ShowsSwapped
      <3> QED
        BY <1>2, <1>3, <3>5
    <2>3. CASE i = 4
      <3>1. /\ Turned(n, 4) = n /\ Turned(n, 5) = 1
            /\ \A l \in 1..n : l \notin {4, 5} => Turned(n, l) \notin {1, n}
        BY DEF Turned
      <3>2. 4 \in 1..n /\ 5 \in 1..n
        OBVIOUS
      <3>3. u[n] = c[4] /\ u[1] = c[5] /\ v[n] = z[4] /\ v[1] = z[5]
        BY <1>2, <1>3, <3>1, <3>2
      <3>4. ASSUME NEW k \in 2..(n - 1) PROVE u[k] = v[k]
        <4>1. k \in 1..n /\ k \notin {1, n}
          OBVIOUS
        <4>2. PICK l \in 1..n : k = Turned(n, l)
          BY <4>1, PlacesDiffer
        <4>3. l \notin {4, 5}
          BY <3>1, <4>1, <4>2
        <4>4. c[l] = z[l]
          BY <1>5, <2>3, <4>3
        <4> QED
          BY <1>2, <1>3, <4>2, <4>4
      <3>5. c[4] # c[5] /\ z[4] = c[5] /\ z[5] = c[4] /\ c[4] \in Digits /\ z[4] \in Digits
        BY <1>2, <1>3, <1>5, <2>3
      <3>6. /\ u[1] \in Digits /\ u[n] \in Digits /\ u[1] # u[n] /\ v[1] = u[n] /\ v[n] = u[1]
        BY <3>3, <3>5
      <3>7. Mod97(u) # Mod97(v)
        BY <1>2, <1>3, <3>4, <3>6, IbanShowsEnds
      <3> QED
        BY <1>2, <1>3, <3>7
    <2> QED
      BY <2>2, <2>3
  <1> QED
    BY <1>1, <1>4, <1>5, IbanSlipKinds

LEMMA TvaOfChecks ==
  ASSUME NEW s \in [1..9 -> Digits]
  PROVE  TvaOf(s) \in [1..11 -> Digits] /\ ValidateTva(TvaOf(s))
  <1> DEFINE key == (12 + 3 * Mod97(s)) % 97
             a == key \div 10
             b == key % 10
             x == <<a, b>> \o s
  <1>1. Mod97(s) \in Rests
    <2>1. s \in [1..9 -> Parts] /\ 9 \in Nat
      BY DigitsAreParts
    <2> QED
      BY <2>1, Mod97Rests
  <1>2. key \in 0..96
    BY <1>1 DEF Rests
  <1>3. a \in 0..9 /\ b \in 0..9 /\ 10 * a + b = key
    <2> HIDE DEF key
    <2> QED
      BY <1>2
  <1> HIDE DEF key, a, b
  <1>4. /\ x \in [1..11 -> Digits] /\ x[1] = a /\ x[2] = b
        /\ \A k \in 1..9 : x[2 + k] = s[k]
    <2>1. s \in Seq(Digits) /\ Len(s) = 9
      BY 9 \in Nat, SequenceOfDigits
    <2>2. a \in Digits /\ b \in Digits
      BY <1>3 DEF Digits
    <2>3. <<a, b>> \in Seq(Digits) /\ Len(<<a, b>>) = 2 /\ <<a, b>>[1] = a /\ <<a, b>>[2] = b
      BY <2>2
    <2>4. /\ x \in Seq(Digits) /\ Len(x) = 11
          /\ \A i \in 1..11 : x[i] = IF i <= 2 THEN <<a, b>>[i] ELSE s[i - 2]
      <3>1. /\ <<a, b>> \o s \in Seq(Digits)
            /\ Len(<<a, b>> \o s) = Len(<<a, b>>) + Len(s)
            /\ \A i \in 1..(Len(<<a, b>>) + Len(s)) : (<<a, b>> \o s)[i] =
                    IF i <= Len(<<a, b>>) THEN <<a, b>>[i] ELSE s[i - Len(<<a, b>>)]
        BY <2>1, <2>3, ConcatProperties
      <3> QED
        BY <2>1, <2>3, <3>1
    <2>5. x \in [1..11 -> Digits]
      BY <2>4, 11 \in Nat, DigitSequence
    <2> HIDE DEF x
    <2>6. x[1] = a /\ x[2] = b
      BY <2>3, <2>4
    <2>7. ASSUME NEW k \in 1..9 PROVE x[2 + k] = s[k]
      <3>1. 2 + k \in 1..11 /\ ~ (2 + k <= 2) /\ (2 + k) - 2 = k
        OBVIOUS
      <3> QED
        BY <2>4, <3>1
    <2> QED
      BY <2>5, <2>6, <2>7
  <1>5. x = TvaOf(s)
    BY DEF TvaOf, key, a, b
  <1> HIDE DEF x
  <1>6. Cut(x, 2, 9) = s
    BY <1>4 DEF Cut
  <1>7. ValidateTva(x)
    <2>1. ValidateTva(x) <=> 10 * x[1] + x[2] = (12 + 3 * Mod97(Cut(x, 2, 9))) % 97
      BY <1>4, TvaCheck
    <2> QED
      BY <1>3, <1>4, <1>6, <2>1 DEF key
  <1> QED
    BY <1>4, <1>5, <1>7

\* What is in use, and what its check says of it and of a slip in it.
LEMMA InUseChecks ==
  ASSUME NEW x \in InUse, NEW z, z = x.digits \/ Slipped(x.digits, z)
  PROVE  /\ Len(z) = Len(x.digits)
         /\ z = x.digits => Valid(x.kind, z)
         /\ z # x.digits => \/ ~ Valid(x.kind, z)
                            \/ x.kind \in {"siren", "siret"} /\ Exchanged(x.digits, z)
                            \/ x.kind = "iban" /\ TwinsSwapped(x.digits, z)
  <1> DEFINE c == x.digits
  <1>1. ASSUME NEW n \in Nat, c \in [1..n -> Parts] PROVE Len(z) = Len(c)
    <2>1. CASE z = c
      BY <2>1
    <2>2. CASE z # c
      <3> HIDE DEF c
      <3>1. z \in [1..n -> Parts]
        BY <1>1, <2>2, IbanSlipKinds DEF c
      <3> QED
        BY <1>1, <3>1
    <2> QED
      BY <2>1, <2>2
  <1>2. CASE x.kind = "siren" /\ c \in Sirens
    <2>1. c \in Seq(Digits) /\ ValidateSiren(c)
      BY <1>2, IdentifiersAssumption
    <2>2. c \in [1..9 -> Parts] /\ 9 \in Nat
      <3> HIDE DEF c
      <3>1. c \in [1..9 -> Digits]
        BY <2>1, 9 \in Nat, DigitSequence DEF ValidateSiren
      <3> QED
        BY <3>1, DigitsAreParts
    <2>3. z # c => ~ ValidateSiren(z) \/ Exchanged(c, z)
      BY <2>1, SirenSlips
    <2> QED
      BY <1>1, <1>2, <2>1, <2>2, <2>3 DEF Valid
  <1>3. CASE x.kind = "siret" /\ c \in Sirets
    <2>1. c \in Seq(Digits) /\ ValidateSiret(c)
      BY <1>3, IdentifiersAssumption
    <2>2. c \in [1..14 -> Parts] /\ 14 \in Nat
      <3> HIDE DEF c
      <3>1. c \in [1..14 -> Digits]
        BY <2>1, 14 \in Nat, DigitSequence DEF ValidateSiret
      <3> QED
        BY <3>1, DigitsAreParts
    <2>3. z # c => ~ ValidateSiret(z) \/ Exchanged(c, z)
      BY <2>1, SiretSlips
    <2> QED
      BY <1>1, <1>3, <2>1, <2>2, <2>3 DEF Valid
  <1>4. CASE x.kind = "nir" /\ c \in Nirs
    <2>1. c \in Seq(Digits) /\ ValidateNir(c)
      BY <1>4, IdentifiersAssumption
    <2>2. c \in [1..15 -> Parts] /\ 15 \in Nat
      <3> HIDE DEF c
      <3>1. c \in [1..15 -> Digits]
        BY <2>1, 15 \in Nat, DigitSequence DEF ValidateNir
      <3> QED
        BY <3>1, DigitsAreParts
    <2>3. z # c => ~ ValidateNir(z)
      BY <2>1, NirSlips
    <2> QED
      BY <1>1, <1>4, <2>1, <2>2, <2>3 DEF Valid
  <1>5. CASE x.kind = "iban" /\ c \in Ibans
    <2>1. c \in Seq(Parts) /\ ValidateIban(c) /\ Len(c) \in 5..34
      <3>1. c \in Seq(0..35)
        BY <1>5, IdentifiersAssumption
      <3>2. ValidateIban(c) /\ Len(c) <= 34
        BY <1>5, IdentifiersAssumption
      <3> HIDE DEF c
      <3>3. c \in Seq(Parts)
        BY <3>1 DEF Parts
      <3>4. Len(c) \in Nat
        BY <3>1
      <3>5. Len(c) > 4
        BY <3>2 DEF ValidateIban
      <3>6. Len(c) \in 5..34
        <4> DEFINE n == Len(c)
        <4>1. n \in Nat /\ n > 4 /\ n <= 34
          BY <3>2, <3>4, <3>5
        <4> HIDE DEF n
        <4>2. n \in 5..34
          BY <4>1
        <4> QED
          BY <4>2 DEF n
      <3> QED
        BY <3>2, <3>3, <3>6
    <2> DEFINE n == Len(c)
    <2>2. c \in [1..n -> Parts] /\ n \in Nat
      BY <2>1, DigitSequence
    <2>3. z # c => ~ ValidateIban(z) \/ TwinsSwapped(c, z)
      <3> HIDE DEF n
      <3> QED
        BY <2>1, <2>2, IbanShowsSlips DEF n
    <2> QED
      BY <1>1, <1>5, <2>1, <2>2, <2>3 DEF Valid
  <1>6. CASE x.kind = "tva" /\ \E s \in Sirens : c = TvaOf(s)
    <2>1. PICK s \in Sirens : c = TvaOf(s)
      BY <1>6
    <2>2. s \in [1..9 -> Digits]
      BY IdentifiersAssumption, DigitSequence DEF ValidateSiren
    <2>3. c \in [1..11 -> Digits] /\ ValidateTva(c)
      BY <2>1, <2>2, TvaOfChecks
    <2>4. c \in [1..11 -> Parts] /\ 11 \in Nat
      BY <2>3, DigitsAreParts
    <2>5. z # c => ~ ValidateTva(z)
      BY <2>3, TvaShowsSlips
    <2> QED
      BY <1>1, <1>6, <2>3, <2>4, <2>5 DEF Valid
  <1>7. \/ x.kind = "siren" /\ c \in Sirens
        \/ x.kind = "siret" /\ c \in Sirets
        \/ x.kind = "nir" /\ c \in Nirs
        \/ x.kind = "iban" /\ c \in Ibans
        \/ x.kind = "tva" /\ \E s \in Sirens : c = TvaOf(s)
    BY DEF InUse
  <1> QED
    BY <1>2, <1>3, <1>4, <1>5, <1>6, <1>7

\* What arrives is in use, or one slip away from it.
TypedFrom(x) == /\ typed = [kind |-> x.kind, correct |-> x.digits, digits |-> typed.digits]
                /\ typed.digits = x.digits \/ Slipped(x.digits, typed.digits)

IdentifiersInv == typed # Untyped => \E x \in InUse : TypedFrom(x)

LEMMA IdentifiersInvInit == IdentifiersInit => IdentifiersInv
  BY DEF IdentifiersInit, IdentifiersInv

LEMMA IdentifiersInvStep == IdentifiersInv /\ [IdentifiersNext]_typed => IdentifiersInv'
  <1> SUFFICES ASSUME IdentifiersInv, [IdentifiersNext]_typed
               PROVE  IdentifiersInv'
    OBVIOUS
  <1>1. CASE TypeIdentifier
    <2>1. PICK x \in InUse :
            typed' = [kind |-> x.kind, correct |-> x.digits, digits |-> x.digits]
      BY <1>1 DEF TypeIdentifier
    <2>2. TypedFrom(x)'
      BY <2>1 DEF TypedFrom
    <2>3. InUse' = InUse
      BY DEF InUse
    <2> QED
      BY <2>2, <2>3 DEF IdentifiersInv
  <1>2. CASE Slip
    <2>1. typed # Untyped /\ typed.digits = typed.correct
      BY <1>2 DEF Slip
    <2>2. PICK x \in InUse : TypedFrom(x)
      BY <2>1 DEF IdentifiersInv
    <2> DEFINE c == x.digits
    <2>3. typed = [kind |-> x.kind, correct |-> c, digits |-> c]
      <3>1. /\ typed = [kind |-> x.kind, correct |-> c, digits |-> typed.digits]
        BY <2>2 DEF TypedFrom
      <3>2. typed.correct = c
        BY <3>1
      <3> QED
        BY <2>1, <3>1, <3>2
    <2> HIDE DEF c
    <2>4. typed.digits = c
      BY <2>3
    <2>5. \E z : /\ typed' = [typed EXCEPT !.digits = z]
                 /\ Slipped(c, z)
      <3>1. CASE \E i \in DOMAIN typed.digits, d \in Digits :
                    /\ typed.digits[i] \in Digits
                    /\ typed' = [typed EXCEPT !.digits = Wrong(typed.digits, i, d)]
        BY <2>4, <3>1 DEF Slipped
      <3>2. CASE \E i \in 1..(Len(typed.digits) - 1) :
                    typed' = [typed EXCEPT !.digits = Swapped(typed.digits, i)]
        BY <2>4, <3>2 DEF Slipped
      <3> QED
        BY <1>2, <3>1, <3>2 DEF Slip
    <2>6. PICK z : typed' = [typed EXCEPT !.digits = z] /\ Slipped(c, z)
      BY <2>5
    <2>7. typed' = [kind |-> x.kind, correct |-> c, digits |-> z]
      BY <2>3, <2>6
    <2>8. TypedFrom(x)'
      <3>1. typed'.digits = z
        BY <2>7
      <3> QED
        BY <2>6, <2>7, <3>1 DEF TypedFrom, c
    <2>9. InUse' = InUse
      BY DEF InUse
    <2> QED
      BY <2>8, <2>9 DEF IdentifiersInv
  <1>3. CASE UNCHANGED typed
    <2>1. InUse' = InUse
      BY DEF InUse
    <2> QED
      BY <1>3, <2>1 DEF IdentifiersInv, TypedFrom
  <1> QED
    BY <1>1, <1>2, <1>3 DEF IdentifiersNext

LEMMA SlipsShow == IdentifiersInv => IdentifiersTypeOK /\ SlipsAreCaught
  <1> SUFFICES ASSUME IdentifiersInv, typed # Untyped
               PROVE  IdentifiersTypeOK /\ SlipsAreCaught
    BY DEF IdentifiersTypeOK, SlipsAreCaught
  <1>1. PICK x \in InUse : TypedFrom(x)
    BY DEF IdentifiersInv
  <1> DEFINE c == x.digits
             z == typed.digits
  <1>2. typed.kind = x.kind /\ typed.correct = c /\ (z = c \/ Slipped(c, z))
    BY <1>1 DEF TypedFrom
  <1>3. /\ Len(z) = Len(c) /\ (z = c => Valid(x.kind, z))
        /\ z # c => \/ ~ Valid(x.kind, z)
                    \/ x.kind \in {"siren", "siret"} /\ Exchanged(c, z)
                    \/ x.kind = "iban" /\ TwinsSwapped(c, z)
    BY <1>2, InUseChecks
  <1> HIDE DEF c
  <1>4. Exchanged(c, z) => Exchanged09
    BY <1>2 DEF Exchanged, Exchanged09
  <1>5. TwinsSwapped(c, z) => ExchangedTwins
    BY <1>2 DEF TwinsSwapped, Twins, ExchangedTwins
  <1> QED
    BY <1>2, <1>3, <1>4, <1>5 DEF IdentifiersTypeOK, SlipsAreCaught

\* No slip in an identifier passes its check, but for 09 and 90 in a SIREN or SIRET
\* and for twins in an IBAN, whatever identifiers are in use (core/validators.py).
THEOREM SlipsAreShown == IdentifiersSpec => []SlipsAreCaught
  <1>1. IdentifiersSpec => []IdentifiersInv
    BY IdentifiersInvInit, IdentifiersInvStep, PTL DEF IdentifiersSpec
  <1> QED
    BY <1>1, SlipsShow, PTL

-----------------------------------------------------------------------------
(* Reminders                                                                 *)

\* The runs that are about to insert a relance, or a reminder.
Dunning(i, l) == {w \in DailyRuns : daily[w].task = "dun" /\ <<i, l>> \in daily[w].made}
Reminding(i)  == {w \in DailyRuns : daily[w].task = "remind" /\ i \in daily[w].made}

RunsOf == Cardinality(DailyRuns)

\* What is inserted and what will be came after a look that found nothing, or by hand.
RelancesBounded ==
    /\ relances \in [Debts -> [Levels -> Nat]]
    /\ \A i \in Debts, l \in Levels :
            relances[i][l] + Cardinality(Dunning(i, l)) <= levelCalls + RunsOf
RemindersBounded ==
    /\ reminders \in [Debts -> Nat]
    /\ \A i \in Debts : reminders[i] + Cardinality(Reminding(i)) <= RunsOf

RemindersShaped ==
    /\ due \in [Debts -> Days \union {NoDate}] /\ after \in [Levels -> Days \union {NoDate}]
    /\ daily \in [DailyRuns -> DailyStates]
    /\ reminderDay \in Days /\ levelCalls \in 0..MaxLevelCalls /\ cutOff \in 0..MaxCutOff

RemindersInv == RemindersShaped /\ RelancesBounded /\ RemindersBounded

LEMMA SomeOfTheRuns ==
  ASSUME NEW T, T \subseteq DailyRuns
  PROVE  IsFiniteSet(T) /\ Cardinality(T) \in Nat /\ RunsOf \in Nat /\ Cardinality(T) <= RunsOf
  BY RemindersAssumption, FS_Subset, FS_CardinalityType DEF RunsOf

LEMMA FewerRuns ==
  ASSUME NEW T, T \subseteq DailyRuns, NEW U, U \subseteq T
  PROVE  Cardinality(U) \in Nat /\ Cardinality(T) \in Nat /\ Cardinality(U) <= Cardinality(T)
  BY SomeOfTheRuns, FS_Subset, FS_CardinalityType

LEMMA OneRunLess ==
  ASSUME NEW T, T \subseteq DailyRuns, NEW w \in T
  PROVE  Cardinality(T \ {w}) \in Nat /\ Cardinality(T) = Cardinality(T \ {w}) + 1
  <1>1. IsFiniteSet(T) /\ IsFiniteSet(T \ {w})
    BY SomeOfTheRuns, FS_Subset
  <1> QED
    BY <1>1, FS_RemoveElement, FS_CardinalityType

LEMMA RemindersInvInit == RemindersInit => RemindersInv
  <1> SUFFICES ASSUME RemindersInit PROVE RemindersInv
    OBVIOUS
  <1>1. RemindersShaped
    BY RemindersAssumption DEF RemindersInit, RemindersShaped, Days, DailyStates
  <1>2. \A w \in DailyRuns : daily[w].task = "none"
    BY DEF RemindersInit, NoRun
  <1>3. (\A i, l : Dunning(i, l) = {}) /\ (\A i : Reminding(i) = {})
    BY <1>2 DEF Dunning, Reminding
  <1>4. Cardinality({}) = 0 /\ RunsOf \in Nat
    BY FS_EmptySet, SomeOfTheRuns
  <1>5. RelancesBounded
    BY <1>3, <1>4 DEF RelancesBounded, RemindersInit
  <1>6. RemindersBounded
    BY <1>3, <1>4 DEF RemindersBounded, RemindersInit
  <1> QED
    BY <1>1, <1>5, <1>6 DEF RemindersInv

\* A step of run w: what it was, what it becomes.
LEMMA RunMoves ==
  ASSUME daily \in [DailyRuns -> DailyStates], NEW w \in DailyRuns, NEW h \in DailyStates,
         daily' = [daily EXCEPT ![w] = h]
  PROVE  /\ daily' \in [DailyRuns -> DailyStates] /\ daily'[w] = h
         /\ \A v \in DailyRuns : v # w => daily'[v] = daily[v]
  OBVIOUS

\* A run that makes nothing, or not as much.
LEMMA NothingMade ==
  ASSUME RemindersInv, RemindersShaped', NEW w \in DailyRuns,
         \A v \in DailyRuns : v # w => daily'[v] = daily[v],
         daily'[w].task = "none" \/ daily'[w].made = {},
         UNCHANGED <<relances, reminders, levelCalls>>
  PROVE  RemindersInv'
  <1>1. \A i, l : Dunning(i, l)' \subseteq Dunning(i, l) /\ Dunning(i, l) \subseteq DailyRuns
    BY DEF Dunning
  <1>2. \A i : Reminding(i)' \subseteq Reminding(i) /\ Reminding(i) \subseteq DailyRuns
    BY DEF Reminding
  <1>3. levelCalls \in Nat /\ RunsOf \in Nat
    BY SomeOfTheRuns, RemindersAssumption DEF RemindersInv, RemindersShaped
  <1>4. RelancesBounded'
    <2>1. ASSUME NEW i \in Debts, NEW l \in Levels
          PROVE  relances[i][l] + Cardinality(Dunning(i, l)') <= levelCalls + RunsOf
      <3> DEFINE a == Cardinality(Dunning(i, l)')  b == Cardinality(Dunning(i, l))  r == relances[i][l]
      <3>1. a \in Nat /\ b \in Nat /\ a <= b
        BY <1>1, FewerRuns
      <3>2. r \in Nat /\ r + b <= levelCalls + RunsOf
        BY DEF RemindersInv, RelancesBounded
      <3> HIDE DEF a, b, r
      <3>3. r + a <= levelCalls + RunsOf
        BY <1>3, <3>1, <3>2
      <3> QED
        BY <3>3 DEF a, r
    <2> QED
      BY <2>1 DEF RemindersInv, RelancesBounded, RunsOf
  <1>5. RemindersBounded'
    <2>1. ASSUME NEW i \in Debts
          PROVE  reminders[i] + Cardinality(Reminding(i)') <= RunsOf
      <3> DEFINE a == Cardinality(Reminding(i)')  b == Cardinality(Reminding(i))  r == reminders[i]
      <3>1. a \in Nat /\ b \in Nat /\ a <= b
        BY <1>2, FewerRuns
      <3>2. r \in Nat /\ r + b <= RunsOf
        BY DEF RemindersInv, RemindersBounded
      <3> HIDE DEF a, b, r
      <3>3. r + a <= RunsOf
        BY <1>3, <3>1, <3>2
      <3> QED
        BY <3>3 DEF a, r
    <2> QED
      BY <2>1 DEF RemindersInv, RemindersBounded, RunsOf
  <1> QED
    BY <1>4, <1>5 DEF RemindersInv

LEMMA IdleIsState == NoRun \in DailyStates /\ NoRun.task = "none"
  BY DEF NoRun, DailyStates

LEMMA DunState ==
  ASSUME NEW h \in DailyStates, h.task = "dun"
  PROVE  /\ h = [task |-> "dun", todo |-> h.todo, made |-> h.made]
         /\ h.todo \subseteq Debts \X Levels /\ h.made \subseteq Debts \X Levels
  BY DEF DailyStates, NoRun

LEMMA DunIsState ==
  ASSUME NEW t \in SUBSET (Debts \X Levels), NEW m \in SUBSET (Debts \X Levels)
  PROVE  [task |-> "dun", todo |-> t, made |-> m] \in DailyStates
  BY DEF DailyStates

LEMMA RemindState ==
  ASSUME NEW m \in SUBSET Debts
  PROVE  [task |-> "remind", made |-> m] \in DailyStates
  BY DEF DailyStates

\* The steps that leave the runs, relances and reminders alone.
LEMMA QuietReminders ==
  ASSUME RemindersInv, UNCHANGED <<relances, reminders, daily>>,
         due' \in [Debts -> Days \union {NoDate}], after' \in [Levels -> Days \union {NoDate}],
         reminderDay' \in Days, levelCalls' \in 0..MaxLevelCalls, levelCalls' >= levelCalls,
         UNCHANGED cutOff
  PROVE  RemindersInv'
  <1>1. RemindersShaped'
    BY DEF RemindersInv, RemindersShaped, Days
  <1>2. (\A i, l : Dunning(i, l)' = Dunning(i, l)) /\ (\A i : Reminding(i)' = Reminding(i))
    BY DEF Dunning, Reminding
  <1>3. levelCalls \in Nat /\ levelCalls' \in Nat /\ RunsOf \in Nat /\ levelCalls <= levelCalls'
    BY SomeOfTheRuns, RemindersAssumption DEF RemindersInv, RemindersShaped
  <1>4. RelancesBounded'
    <2>1. ASSUME NEW i \in Debts, NEW l \in Levels
          PROVE  relances[i][l] + Cardinality(Dunning(i, l)) <= levelCalls' + RunsOf
      <3> DEFINE b == Cardinality(Dunning(i, l))  r == relances[i][l]
      <3>1. b \in Nat
        BY SomeOfTheRuns DEF Dunning
      <3>2. r \in Nat /\ r + b <= levelCalls + RunsOf
        BY DEF RemindersInv, RelancesBounded
      <3> DEFINE m == levelCalls  n == levelCalls'
      <3>3. m \in Nat /\ n \in Nat /\ RunsOf \in Nat /\ m <= n /\ r + b <= m + RunsOf
        BY <1>3, <3>2
      <3> HIDE DEF b, r, m, n
      <3>4. r + b <= n + RunsOf
        BY <3>1, <3>2, <3>3
      <3> QED
        BY <3>4 DEF b, r, n
    <2> QED
      BY <1>2, <2>1 DEF RemindersInv, RelancesBounded, RunsOf
  <1>5. RemindersBounded'
    BY <1>2 DEF RemindersInv, RemindersBounded, RunsOf
  <1> QED
    BY <1>1, <1>4, <1>5 DEF RemindersInv

LEMMA OfficeReminders ==
  ASSUME RemindersInv,
         \/ \E i \in Debts, day \in Days : BecomeDue(i, day)
         \/ \E l \in Levels, days \in Days : SaveLevel(l, days)
         \/ NextReminderDay
  PROVE  RemindersInv'
  <1>1. /\ due \in [Debts -> Days \union {NoDate}] /\ after \in [Levels -> Days \union {NoDate}]
        /\ reminderDay \in Days /\ levelCalls \in 0..MaxLevelCalls /\ MaxLevelCalls \in Nat
        /\ MaxReminderDay \in Nat
    BY RemindersAssumption DEF RemindersInv, RemindersShaped
  <1>2. CASE \E i \in Debts, day \in Days : BecomeDue(i, day)
    BY <1>1, <1>2, QuietReminders DEF BecomeDue
  <1>3. CASE \E l \in Levels, days \in Days : SaveLevel(l, days)
    BY <1>1, <1>3, QuietReminders DEF SaveLevel
  <1>4. CASE NextReminderDay
    <2>1. reminderDay' \in Days
      BY <1>1, <1>4 DEF NextReminderDay, Days
    <2> QED
      BY <1>1, <1>4, <2>1, QuietReminders DEF NextReminderDay
  <1> QED
    BY <1>2, <1>3, <1>4

LEMMA RelanceByHandKeeps ==
  ASSUME RemindersInv, NEW i \in Debts, NEW l \in Levels, RelanceByHand(i, l)
  PROVE  RemindersInv'
  <1>1. /\ relances' = [relances EXCEPT ![i][l] = @ + 1] /\ levelCalls' = levelCalls + 1
        /\ levelCalls < MaxLevelCalls
        /\ UNCHANGED <<due, after, reminders, daily, reminderDay, cutOff>>
    BY DEF RelanceByHand
  <1>2. /\ levelCalls \in Nat /\ RunsOf \in Nat /\ MaxLevelCalls \in Nat
        /\ relances \in [Debts -> [Levels -> Nat]]
    BY SomeOfTheRuns, RemindersAssumption DEF RemindersInv, RemindersShaped, RelancesBounded
  <1>3. RemindersShaped'
    BY <1>1, <1>2 DEF RemindersInv, RemindersShaped, Days
  <1>4. (\A j, k : Dunning(j, k)' = Dunning(j, k)) /\ (\A j : Reminding(j)' = Reminding(j))
    BY <1>1 DEF Dunning, Reminding
  <1>5. /\ relances' \in [Debts -> [Levels -> Nat]]
        /\ \A j \in Debts, k \in Levels : relances'[j][k] <= relances[j][k] + 1
    BY <1>1, <1>2
  <1>6. RelancesBounded'
    <2>1. ASSUME NEW j \in Debts, NEW k \in Levels
          PROVE  relances'[j][k] + Cardinality(Dunning(j, k)) <= levelCalls' + RunsOf
      <3> DEFINE b == Cardinality(Dunning(j, k))  r == relances[j][k]  q == relances'[j][k]
      <3>1. b \in Nat
        BY SomeOfTheRuns DEF Dunning
      <3>2. r \in Nat /\ r + b <= levelCalls + RunsOf /\ q \in Nat /\ q <= r + 1
        BY <1>5 DEF RemindersInv, RelancesBounded
      <3> HIDE DEF b, r, q
      <3>3. q + b <= levelCalls' + RunsOf
        BY <1>1, <1>2, <3>1, <3>2
      <3> QED
        BY <3>3 DEF b, q
    <2> QED
      BY <1>4, <1>5, <2>1 DEF RelancesBounded, RunsOf
  <1>7. RemindersBounded'
    BY <1>1, <1>4 DEF RemindersInv, RemindersBounded, RunsOf
  <1> QED
    BY <1>3, <1>6, <1>7 DEF RemindersInv

LEMMA StartDunningKeeps ==
  ASSUME RemindersInv, NEW w \in DailyRuns, StartDunning(w)
  PROVE  RemindersInv'
  <1>1. daily \in [DailyRuns -> DailyStates]
    BY DEF RemindersInv, RemindersShaped
  <1>2. PICK chosen \in [{i \in Debts : Applicable(i) # {}} -> Levels] :
            daily' = [daily EXCEPT ![w] =
                [task |-> "dun", todo |-> {<<i, chosen[i]>> : i \in DOMAIN chosen}, made |-> {}]]
    BY DEF StartDunning
  <1> DEFINE h == [task |-> "dun", todo |-> {<<i, chosen[i]>> : i \in DOMAIN chosen}, made |-> {}]
  <1>3. h \in DailyStates /\ h.made = {}
    <2>1. {<<i, chosen[i]>> : i \in DOMAIN chosen} \in SUBSET (Debts \X Levels)
      OBVIOUS
    <2> QED
      BY <2>1, DunIsState
  <1> HIDE DEF h
  <1>4. /\ daily' \in [DailyRuns -> DailyStates] /\ daily'[w] = h
        /\ \A v \in DailyRuns : v # w => daily'[v] = daily[v]
    BY <1>1, <1>2, <1>3, RunMoves DEF h
  <1>5. UNCHANGED <<due, after, relances, reminders, reminderDay, levelCalls, cutOff>>
    BY DEF StartDunning
  <1>6. RemindersShaped'
    BY <1>4, <1>5 DEF RemindersInv, RemindersShaped, Days
  <1> QED
    BY <1>3, <1>4, <1>5, <1>6, NothingMade

LEMMA CutOffKeeps ==
  ASSUME RemindersInv, NEW w \in DailyRuns, CutOff(w)
  PROVE  RemindersInv'
  <1>1. /\ daily \in [DailyRuns -> DailyStates] /\ daily' = [daily EXCEPT ![w] = NoRun]
        /\ cutOff' \in 0..MaxCutOff
        /\ UNCHANGED <<due, after, relances, reminders, reminderDay, levelCalls>>
    BY RemindersAssumption DEF CutOff, RemindersInv, RemindersShaped
  <1>2. /\ daily' \in [DailyRuns -> DailyStates] /\ daily'[w] = NoRun
        /\ \A v \in DailyRuns : v # w => daily'[v] = daily[v]
    BY <1>1, IdleIsState, RunMoves
  <1>3. RemindersShaped'
    BY <1>1, <1>2 DEF RemindersInv, RemindersShaped, Days
  <1> QED
    BY <1>1, <1>2, <1>3, IdleIsState, NothingMade

\* One more relance to be made, of an invoice that has none of the level.
LEMMA DunKeeps ==
  ASSUME RemindersInv, NEW w \in DailyRuns, Dun(w)
  PROVE  RemindersInv'
  <1>1. PICK x \in daily[w].todo :
            daily' = [daily EXCEPT ![w].todo = @ \ {x},
                                   ![w].made = IF relances[x[1]][x[2]] = 0 THEN @ \union {x} ELSE @]
    BY DEF Dun
  <1> DEFINE t == daily[w].todo \ {x}
             m == IF relances[x[1]][x[2]] = 0 THEN daily[w].made \union {x} ELSE daily[w].made
             h == [task |-> "dun", todo |-> t, made |-> m]
  <1>2. daily \in [DailyRuns -> DailyStates] /\ daily[w].task = "dun"
    BY DEF Dun, RemindersInv, RemindersShaped
  <1>3. /\ daily[w] = [task |-> "dun", todo |-> daily[w].todo, made |-> daily[w].made]
        /\ daily[w].todo \subseteq Debts \X Levels /\ daily[w].made \subseteq Debts \X Levels
    BY <1>2, DunState
  <1>4. h \in DailyStates
    BY <1>3, DunIsState
  <1>5. daily' = [daily EXCEPT ![w] = h]
    <2>1. daily' = [daily EXCEPT ![w] = [[daily[w] EXCEPT !.todo = t] EXCEPT !.made = m]]
      BY <1>1, <1>2
    <2> HIDE DEF t, m
    <2>2. [[daily[w] EXCEPT !.todo = t] EXCEPT !.made = m] = [task |-> "dun", todo |-> t, made |-> m]
      <3> DEFINE y == daily[w]  d == y.todo  e == y.made
      <3>1. y = [task |-> "dun", todo |-> d, made |-> e]
        BY <1>3
      <3> HIDE DEF d, e, y
      <3>2. [[y EXCEPT !.todo = t] EXCEPT !.made = m] = [task |-> "dun", todo |-> t, made |-> m]
        <4> DEFINE u == [task |-> "dun", todo |-> t, made |-> e]
        <4>1. [y EXCEPT !.todo = t] = u
          BY <3>1
        <4>2. [u EXCEPT !.made = m] = [task |-> "dun", todo |-> t, made |-> m]
          OBVIOUS
        <4> HIDE DEF u
        <4> QED
          BY <4>1, <4>2
      <3> QED
        BY <3>2 DEF y
    <2> QED
      BY <2>1, <2>2
  <1> HIDE DEF h, t, m
  <1>6. /\ daily' \in [DailyRuns -> DailyStates] /\ daily'[w] = h
        /\ \A v \in DailyRuns : v # w => daily'[v] = daily[v]
    BY <1>2, <1>4, <1>5, RunMoves
  <1>7. h.task = "dun" /\ h.made = m
    BY DEF h
  <1>8. UNCHANGED <<due, after, relances, reminders, reminderDay, levelCalls, cutOff>>
    BY DEF Dun
  <1>9. RemindersShaped'
    BY <1>6, <1>8 DEF RemindersInv, RemindersShaped, Days
  <1>10. levelCalls \in Nat /\ RunsOf \in Nat
    BY SomeOfTheRuns, RemindersAssumption DEF RemindersInv, RemindersShaped
  <1>11. RelancesBounded'
    <2>1. ASSUME NEW i \in Debts, NEW l \in Levels
          PROVE  relances[i][l] + Cardinality(Dunning(i, l)') <= levelCalls + RunsOf
      <3> DEFINE a == Cardinality(Dunning(i, l)')  b == Cardinality(Dunning(i, l))  r == relances[i][l]
      <3>1. a \in Nat /\ a <= RunsOf /\ b \in Nat /\ r \in Nat /\ r + b <= levelCalls + RunsOf
        <4>1. Dunning(i, l) \subseteq DailyRuns /\ Dunning(i, l)' \subseteq DailyRuns
          BY DEF Dunning
        <4> QED
          BY <4>1, SomeOfTheRuns DEF RemindersInv, RelancesBounded
      <3>2. CASE <<i, l>> = x /\ r = 0
        <4> HIDE DEF a, b, r
        <4>1. r + a <= levelCalls + RunsOf
          BY <1>10, <3>1, <3>2
        <4> QED
          BY <4>1 DEF a, r
      <3>3. CASE ~ (<<i, l>> = x /\ r = 0)
        <4>1. Dunning(i, l)' \subseteq Dunning(i, l) /\ Dunning(i, l) \subseteq DailyRuns
          <5>1. <<i, l>> \in m => <<i, l>> \in daily[w].made
            BY <3>3 DEF m
          <5> QED
            BY <1>2, <1>6, <1>7, <5>1 DEF Dunning
        <4>2. a <= b
          BY <4>1, FewerRuns
        <4> HIDE DEF a, b, r
        <4>3. r + a <= levelCalls + RunsOf
          BY <1>10, <3>1, <4>2
        <4> QED
          BY <4>3 DEF a, r
      <3> QED
        BY <3>2, <3>3
    <2> QED
      BY <1>8, <2>1 DEF RemindersInv, RelancesBounded, RunsOf
  <1>12. RemindersBounded'
    <2>1. \A i : Reminding(i)' = Reminding(i)
      BY <1>2, <1>6, <1>7 DEF Reminding
    <2> QED
      BY <1>8, <2>1 DEF RemindersInv, RemindersBounded, RunsOf
  <1> QED
    BY <1>9, <1>11, <1>12 DEF RemindersInv

LEMMA CommitDunningKeeps ==
  ASSUME RemindersInv, NEW w \in DailyRuns, CommitDunning(w)
  PROVE  RemindersInv'
  <1>1. /\ daily[w].task = "dun" /\ daily' = [daily EXCEPT ![w] = NoRun]
        /\ relances' = [i \in Debts |-> [l \in Levels |->
                IF <<i, l>> \in daily[w].made THEN relances[i][l] + 1 ELSE relances[i][l]]]
        /\ UNCHANGED <<due, after, reminders, reminderDay, levelCalls, cutOff>>
    BY DEF CommitDunning
  <1>2. daily \in [DailyRuns -> DailyStates] /\ relances \in [Debts -> [Levels -> Nat]]
    BY DEF RemindersInv, RemindersShaped, RelancesBounded
  <1>3. /\ daily' \in [DailyRuns -> DailyStates] /\ daily'[w] = NoRun
        /\ \A v \in DailyRuns : v # w => daily'[v] = daily[v]
    BY <1>1, <1>2, IdleIsState, RunMoves
  <1>4. RemindersShaped'
    BY <1>1, <1>3 DEF RemindersInv, RemindersShaped, Days
  <1>5. levelCalls \in Nat /\ RunsOf \in Nat
    BY SomeOfTheRuns, RemindersAssumption DEF RemindersInv, RemindersShaped
  <1>6. RelancesBounded'
    <2>1. relances' \in [Debts -> [Levels -> Nat]]
      BY <1>1, <1>2
    <2>2. ASSUME NEW i \in Debts, NEW l \in Levels
          PROVE  relances'[i][l] + Cardinality(Dunning(i, l)') <= levelCalls + RunsOf
      <3> DEFINE a == Cardinality(Dunning(i, l)')  b == Cardinality(Dunning(i, l))
                 r == relances[i][l]  q == relances'[i][l]
      <3>1. /\ Dunning(i, l)' = Dunning(i, l) \ {w} /\ Dunning(i, l) \subseteq DailyRuns
            /\ w \in Dunning(i, l) <=> <<i, l>> \in daily[w].made
        BY <1>1, <1>3, IdleIsState DEF Dunning
      <3>2. /\ a \in Nat /\ b \in Nat /\ r \in Nat /\ r + b <= levelCalls + RunsOf
        <4>1. Dunning(i, l)' \subseteq DailyRuns
          BY <3>1
        <4> QED
          BY <3>1, <4>1, SomeOfTheRuns DEF RemindersInv, RelancesBounded
      <3>3. CASE <<i, l>> \in daily[w].made
        <4>1. b = a + 1 /\ q = r + 1
          BY <1>1, <3>1, <3>3, OneRunLess
        <4> HIDE DEF a, b, r, q
        <4>2. q + a <= levelCalls + RunsOf
          BY <1>5, <3>2, <4>1
        <4> QED
          BY <4>2 DEF a, q
      <3>4. CASE <<i, l>> \notin daily[w].made
        <4>1. b = a /\ q = r
          <5>1. Dunning(i, l)' = Dunning(i, l)
            BY <3>1, <3>4
          <5> QED
            BY <1>1, <3>4, <5>1
        <4> HIDE DEF a, b, r, q
        <4>2. q + a <= levelCalls + RunsOf
          BY <1>5, <3>2, <4>1
        <4> QED
          BY <4>2 DEF a, q
      <3> QED
        BY <3>3, <3>4
    <2> QED
      BY <1>1, <2>1, <2>2 DEF RelancesBounded, RunsOf
  <1>7. RemindersBounded'
    <2>1. \A i : Reminding(i)' = Reminding(i)
      BY <1>1, <1>3, IdleIsState DEF Reminding
    <2> QED
      BY <1>1, <2>1 DEF RemindersInv, RemindersBounded, RunsOf
  <1> QED
    BY <1>4, <1>6, <1>7 DEF RemindersInv

LEMMA StartRemindingKeeps ==
  ASSUME RemindersInv, NEW w \in DailyRuns, StartReminding(w)
  PROVE  RemindersInv'
  <1> DEFINE soon == {i \in Debts : /\ due[i] # NoDate /\ reminders[i] = 0
                                    /\ due[i] \in reminderDay..reminderDay + Ahead}
             h == [task |-> "remind", made |-> soon]
  <1>1. /\ daily[w] = NoRun /\ daily' = [daily EXCEPT ![w] = h]
        /\ UNCHANGED <<due, after, relances, reminders, reminderDay, levelCalls, cutOff>>
    BY DEF StartReminding
  <1>2. daily \in [DailyRuns -> DailyStates]
    BY DEF RemindersInv, RemindersShaped
  <1>3. soon \in SUBSET Debts /\ \A i \in soon : reminders[i] = 0
    OBVIOUS
  <1> HIDE DEF soon
  <1>4. h \in DailyStates /\ h.task = "remind" /\ h.made = soon
    BY <1>3, RemindState
  <1> HIDE DEF h
  <1>5. /\ daily' \in [DailyRuns -> DailyStates] /\ daily'[w] = h
        /\ \A v \in DailyRuns : v # w => daily'[v] = daily[v]
    BY <1>1, <1>2, <1>4, RunMoves
  <1>6. RemindersShaped'
    BY <1>1, <1>5 DEF RemindersInv, RemindersShaped, Days
  <1>7. RunsOf \in Nat
    BY SomeOfTheRuns
  <1>8. RelancesBounded'
    <2>1. \A i, l : Dunning(i, l)' = Dunning(i, l)
      BY <1>1, <1>4, <1>5, IdleIsState DEF Dunning
    <2> QED
      BY <1>1, <2>1 DEF RemindersInv, RelancesBounded, RunsOf
  <1>9. RemindersBounded'
    <2>1. ASSUME NEW i \in Debts
          PROVE  reminders[i] + Cardinality(Reminding(i)') <= RunsOf
      <3>1. CASE i \in soon
        <4> DEFINE a == Cardinality(Reminding(i)')
        <4>1. a \in Nat /\ a <= RunsOf
          <5>1. Reminding(i)' \subseteq DailyRuns
            BY DEF Reminding
          <5> QED
            BY <5>1, SomeOfTheRuns
        <4>2. reminders[i] = 0
          BY <1>3, <3>1
        <4> HIDE DEF a
        <4>3. 0 + a <= RunsOf
          BY <1>7, <4>1
        <4> QED
          BY <4>2, <4>3 DEF a
      <3>2. CASE i \notin soon
        <4>1. Reminding(i)' = Reminding(i)
          BY <1>1, <1>4, <1>5, <3>2, IdleIsState DEF Reminding
        <4> QED
          BY <4>1 DEF RemindersInv, RemindersBounded
      <3> QED
        BY <3>1, <3>2
    <2> QED
      BY <1>1, <2>1 DEF RemindersInv, RemindersBounded, RunsOf
  <1> QED
    BY <1>6, <1>8, <1>9 DEF RemindersInv

LEMMA CommitRemindersKeeps ==
  ASSUME RemindersInv, NEW w \in DailyRuns, CommitReminders(w)
  PROVE  RemindersInv'
  <1>1. /\ daily[w].task = "remind" /\ daily' = [daily EXCEPT ![w] = NoRun]
        /\ reminders' = [i \in Debts |->
                IF i \in daily[w].made THEN reminders[i] + 1 ELSE reminders[i]]
        /\ UNCHANGED <<due, after, relances, reminderDay, levelCalls, cutOff>>
    BY DEF CommitReminders
  <1>2. daily \in [DailyRuns -> DailyStates] /\ reminders \in [Debts -> Nat]
    BY DEF RemindersInv, RemindersShaped, RemindersBounded
  <1>3. /\ daily' \in [DailyRuns -> DailyStates] /\ daily'[w] = NoRun
        /\ \A v \in DailyRuns : v # w => daily'[v] = daily[v]
    BY <1>1, <1>2, IdleIsState, RunMoves
  <1>4. RemindersShaped'
    BY <1>1, <1>3 DEF RemindersInv, RemindersShaped, Days
  <1>5. RunsOf \in Nat
    BY SomeOfTheRuns
  <1>6. RelancesBounded'
    <2>1. \A i, l : Dunning(i, l)' = Dunning(i, l)
      BY <1>1, <1>3, IdleIsState DEF Dunning
    <2> QED
      BY <1>1, <2>1 DEF RemindersInv, RelancesBounded, RunsOf
  <1>7. RemindersBounded'
    <2>1. reminders' \in [Debts -> Nat]
      BY <1>1, <1>2
    <2>2. ASSUME NEW i \in Debts
          PROVE  reminders'[i] + Cardinality(Reminding(i)') <= RunsOf
      <3> DEFINE a == Cardinality(Reminding(i)')  b == Cardinality(Reminding(i))
                 r == reminders[i]  q == reminders'[i]
      <3>1. /\ Reminding(i)' = Reminding(i) \ {w} /\ Reminding(i) \subseteq DailyRuns
            /\ w \in Reminding(i) <=> i \in daily[w].made
        BY <1>1, <1>3, IdleIsState DEF Reminding
      <3>2. /\ a \in Nat /\ b \in Nat /\ r \in Nat /\ r + b <= RunsOf
        <4>1. Reminding(i)' \subseteq DailyRuns
          BY <3>1
        <4> QED
          BY <3>1, <4>1, SomeOfTheRuns DEF RemindersInv, RemindersBounded
      <3>3. CASE i \in daily[w].made
        <4>1. b = a + 1 /\ q = r + 1
          BY <1>1, <3>1, <3>3, OneRunLess
        <4> HIDE DEF a, b, r, q
        <4>2. q + a <= RunsOf
          BY <1>5, <3>2, <4>1
        <4> QED
          BY <4>2 DEF a, q
      <3>4. CASE i \notin daily[w].made
        <4>1. b = a /\ q = r
          <5>1. Reminding(i)' = Reminding(i)
            BY <3>1, <3>4
          <5> QED
            BY <1>1, <3>4, <5>1
        <4> HIDE DEF a, b, r, q
        <4>2. q + a <= RunsOf
          BY <1>5, <3>2, <4>1
        <4> QED
          BY <4>2 DEF a, q
      <3> QED
        BY <3>3, <3>4
    <2> QED
      BY <2>1, <2>2 DEF RemindersBounded, RunsOf
  <1> QED
    BY <1>4, <1>6, <1>7 DEF RemindersInv

LEMMA RemindersInvStep == RemindersInv /\ [RemindersNext]_remindersVars => RemindersInv'
  <1> SUFFICES ASSUME RemindersInv, [RemindersNext]_remindersVars
               PROVE  RemindersInv'
    OBVIOUS
  <1>1. CASE UNCHANGED remindersVars
    <2>1. (\A i, l : Dunning(i, l)' = Dunning(i, l)) /\ (\A i : Reminding(i)' = Reminding(i))
      BY <1>1 DEF remindersVars, Dunning, Reminding
    <2> QED
      BY <1>1, <2>1 DEF remindersVars, RemindersInv, RemindersShaped, RelancesBounded,
                        RemindersBounded, RunsOf, Days
  <1>2. CASE RemindersNext
    BY <1>2, OfficeReminders, RelanceByHandKeeps, StartDunningKeeps, DunKeeps, CommitDunningKeeps,
       StartRemindingKeeps, CommitRemindersKeeps, CutOffKeeps DEF RemindersNext
  <1> QED
    BY <1>1, <1>2

LEMMA RemindersTypes == RemindersInv => RemindersTypeOK
  <1> SUFFICES ASSUME RemindersInv PROVE RemindersTypeOK
    OBVIOUS
  <1>1. levelCalls \in 0..MaxLevelCalls /\ MaxLevelCalls \in Nat /\ RunsOf \in Nat
    BY RemindersAssumption, SomeOfTheRuns DEF RemindersInv, RemindersShaped
  <1>2. ASSUME NEW i \in Debts, NEW l \in Levels
        PROVE  relances[i][l] \in 0..MaxLevelCalls + RunsOf
    <2> DEFINE b == Cardinality(Dunning(i, l))  r == relances[i][l]
    <2>1. b \in Nat
      BY SomeOfTheRuns DEF Dunning
    <2>2. r \in Nat /\ r + b <= levelCalls + RunsOf
      BY DEF RemindersInv, RelancesBounded
    <2> HIDE DEF b, r
    <2>3. r \in 0..MaxLevelCalls + RunsOf
      BY <1>1, <2>1, <2>2
    <2> QED
      BY <2>3 DEF r
  <1>3. ASSUME NEW i \in Debts PROVE reminders[i] \in 0..RunsOf
    <2> DEFINE b == Cardinality(Reminding(i))  r == reminders[i]
    <2>1. b \in Nat
      BY SomeOfTheRuns DEF Reminding
    <2>2. r \in Nat /\ r + b <= RunsOf
      BY DEF RemindersInv, RemindersBounded
    <2> HIDE DEF b, r
    <2>3. r \in 0..RunsOf
      BY <1>1, <2>1, <2>2
    <2> QED
      BY <2>3 DEF r
  <1>4. relances \in [Debts -> [Levels -> 0..MaxLevelCalls + RunsOf]]
    BY <1>2 DEF RemindersInv, RelancesBounded
  <1>5. reminders \in [Debts -> 0..RunsOf]
    BY <1>3 DEF RemindersInv, RemindersBounded
  <1> QED
    BY <1>4, <1>5 DEF RemindersInv, RemindersShaped, RemindersTypeOK, RunsOf

\* However many relances are sent by hand, runs overlap and are cut off, there are
\* never more of a level than calls by hand and runs at once, nor more reminders
\* than runs at once (dunning_check_daily, send_due_reminders_daily).
THEOREM RemindersTypeCorrect == RemindersSpec => []RemindersTypeOK
  <1>1. RemindersSpec => []RemindersInv
    BY RemindersInvInit, RemindersInvStep, PTL DEF RemindersSpec
  <1> QED
    BY <1>1, RemindersTypes, PTL

-----------------------------------------------------------------------------
(* The numeros of missions                                                   *)

ScriptStates == {NoScript} \union [step : {"generate"}, routes : SUBSET SheetCodes]

\* The transactions have numeros of their own, finitely many so far.
NumbersKept ==
    /\ batches \in Seq(SUBSET Numeros) /\ IsFiniteSet(Used)
    /\ \A i, j \in DOMAIN batches : i # j => batches[i] \intersect batches[j] = {}

MissionNumbersInv ==
    /\ NumbersKept
    /\ month \in 1..MaxMonth
    /\ numbering \in [Sessions -> Numeros \union {None}]
    /\ assigned \subseteq SheetCodes /\ sheetRuns \subseteq SheetCodes \X SheetDays
    /\ script \in ScriptStates

LEMMA MissionNumbersInvInit == MissionNumbersInit => MissionNumbersInv
  <1> SUFFICES ASSUME MissionNumbersInit PROVE MissionNumbersInv
    OBVIOUS
  <1>1. NumbersKept
    <2>1. Used = {}
      BY DEF MissionNumbersInit, Used
    <2>2. batches \in Seq(SUBSET Numeros) /\ DOMAIN batches = {}
      BY DEF MissionNumbersInit
    <2> QED
      BY <2>1, <2>2, FS_EmptySet DEF NumbersKept
  <1> QED
    BY <1>1, MissionNumbersAssumption DEF MissionNumbersInit, MissionNumbersInv, ScriptStates

\* A transaction that commits adds what it has made, and nothing else.
LEMMA BatchKept ==
  ASSUME NumbersKept, NEW batch \in SUBSET Numeros, IsFiniteSet(batch), Fits(batch),
         Numbered(batch)
  PROVE  NumbersKept'
  <1>1. CASE batch = {}
    <2>1. batches' = batches
      BY <1>1 DEF Numbered
    <2> QED
      BY <2>1 DEF NumbersKept, Used
  <1>2. CASE batch # {}
    <2> DEFINE n == Len(batches)
    <2>1. batches' = Append(batches, batch) /\ n \in Nat
      BY <1>2 DEF Numbered, NumbersKept
    <2>2. /\ batches' \in Seq(SUBSET Numeros) /\ DOMAIN batches = 1..n /\ DOMAIN batches' = 1..(n + 1)
          /\ batches'[n + 1] = batch /\ \A i \in 1..n : batches'[i] = batches[i]
      BY <2>1 DEF NumbersKept
    <2>3. Used' = Used \union batch
      <3>1. 1..(n + 1) = (1..n) \union {n + 1}
        BY <2>1
      <3>2. Used' = UNION {batches'[i] : i \in 1..(n + 1)} /\ Used = UNION {batches[i] : i \in 1..n}
        BY <2>2 DEF Used
      <3> HIDE DEF n
      <3>3. n + 1 \in 1..(n + 1)
        BY <2>1
      <3> QED
        BY <2>2, <3>1, <3>2, <3>3
    <2>4. IsFiniteSet(Used')
      BY <2>3, FS_Union DEF NumbersKept
    <2>5. \A i \in 1..n : batches'[i] \intersect batch = {}
      BY <2>2 DEF Fits, Used
    <2>6. \A i, j \in 1..(n + 1) : i # j => batches'[i] \intersect batches'[j] = {}
      <3>1. \A i \in 1..(n + 1) : i \in 1..n \/ i = n + 1
        BY <2>1
      <3> HIDE DEF n
      <3> QED
        BY <2>2, <2>5, <3>1 DEF NumbersKept
    <2> QED
      BY <2>2, <2>4, <2>6 DEF NumbersKept
  <1> QED
    BY <1>1, <1>2

LEMMA NoBatch == NumbersKept /\ UNCHANGED batches => NumbersKept'
  BY DEF NumbersKept, Used

LEMMA NextNumeroIsOne == MissionNumbersInv => NextNumero \in Numeros
  <1> SUFFICES ASSUME MissionNumbersInv PROVE NextNumero \in Numeros
    OBVIOUS
  <1> DEFINE ofMonth == {n \in Used : n.month = month}
  <1>1. IsFiniteSet(ofMonth)
    BY FS_Subset DEF MissionNumbersInv, NumbersKept
  <1>2. Cardinality(ofMonth) \in Nat
    BY <1>1, FS_CardinalityType
  <1>3. month \in Nat
    BY MissionNumbersAssumption DEF MissionNumbersInv
  <1> HIDE DEF ofMonth
  <1>4. [month |-> month, by |-> "count", part |-> Cardinality(ofMonth) + 1] \in Numeros
    BY <1>2, <1>3 DEF Numeros
  <1> QED
    BY <1>4 DEF NextNumero, ofMonth

LEMMA MissionSteps ==
  ASSUME MissionNumbersInv, NEW s \in Sessions,
         CountMissions(s) \/ InsertMission(s) \/ MissionRefused(s)
  PROVE  MissionNumbersInv'
  <1>1. CASE CountMissions(s)
    BY <1>1, NextNumeroIsOne, NoBatch DEF CountMissions, MissionNumbersInv
  <1>2. CASE InsertMission(s)
    <2> DEFINE n == numbering[s]
    <2>1. n \in Numeros /\ Fits({n}) /\ Numbered({n})
      BY <1>2 DEF InsertMission, MissionNumbersInv
    <2>2. {n} \in SUBSET Numeros /\ IsFiniteSet({n})
      BY <2>1, FS_Singleton
    <2>3. NumbersKept'
      BY <2>1, <2>2, BatchKept DEF MissionNumbersInv
    <2> QED
      BY <1>2, <2>3 DEF InsertMission, MissionNumbersInv
  <1>3. CASE MissionRefused(s)
    BY <1>3, NoBatch DEF MissionRefused, MissionNumbersInv
  <1> QED
    BY <1>1, <1>2, <1>3

LEMMA GenerateRouteKeeps ==
  ASSUME MissionNumbersInv, NEW code \in RouteCodes, NEW m \in 1..MaxMonth, GenerateRoute(code, m)
  PROVE  MissionNumbersInv'
  <1> DEFINE batch == {[month |-> m, part |-> code, by |-> "route"]}
  <1>1. batch \in SUBSET Numeros
    BY MissionNumbersAssumption DEF Numeros
  <1>2. IsFiniteSet(batch)
    BY FS_Singleton
  <1>3. Fits(batch) /\ Numbered(batch)
    BY DEF GenerateRoute
  <1>4. NumbersKept'
    BY <1>1, <1>2, <1>3, BatchKept DEF MissionNumbersInv
  <1> QED
    BY <1>4 DEF GenerateRoute, MissionNumbersInv

LEMMA AssignDefaultsKeeps ==
  ASSUME MissionNumbersInv, NEW routes \in SUBSET SheetCodes, AssignDefaults(routes)
  PROVE  MissionNumbersInv'
  BY NoBatch DEF AssignDefaults, MissionNumbersInv, ScriptStates

\* The numeros of the sheet go on from a numero that is there.
LEMMA SheetBatchIsOne ==
  ASSUME NEW first \in Nat, NEW size \in Nat
  PROVE  SheetBatch(first, size) \in SUBSET Numeros /\ IsFiniteSet(SheetBatch(first, size))
  <1> DEFINE places == first..(first + size - 1)
             numero(i) == [month |-> SheetMonth, part |-> i, by |-> "count"]
  <1>1. \A i \in places : numero(i) \in Numeros
    <2> SUFFICES ASSUME NEW i \in places PROVE numero(i) \in Numeros
      OBVIOUS
    <2>1. i \in Nat /\ SheetMonth \in Nat
      BY MissionNumbersAssumption
    <2> QED
      BY <2>1 DEF Numeros
  <1>2. IsFiniteSet(places)
    BY FS_Interval
  <1> HIDE DEF places, numero
  <1> DEFINE made == [i \in places |-> numero(i)]
  <1>3. IsFiniteSet({numero(i) : i \in places})
    <2>1. made \in Surjection(places, {numero(i) : i \in places})
      BY DEF Surjection
    <2> QED
      BY <1>2, <2>1, FS_Surjection
  <1> QED
    BY <1>1, <1>3 DEF SheetBatch, places, numero

LEMMA FirstPartsAreNumbers == NumbersKept => FirstParts \subseteq Nat
  <1> SUFFICES ASSUME NumbersKept, batches # << >> PROVE FirstParts \subseteq Nat
    BY DEF FirstParts
  <1> DEFINE n == Len(batches)
  <1>1. n \in 1..n /\ batches[n] \subseteq Numeros
    BY DEF NumbersKept
  <1>2. FirstParts = {x.part + 1 : x \in batches[n]}
    BY DEF FirstParts, Last
  <1> HIDE DEF n
  <1>3. \A x \in batches[n] : x.part + 1 \in Nat
    BY <1>1 DEF Numeros
  <1> QED
    BY <1>2, <1>3

LEMMA GenerateMonthKeeps == MissionNumbersInv /\ GenerateMonth => MissionNumbersInv'
  <1> SUFFICES ASSUME MissionNumbersInv, GenerateMonth PROVE MissionNumbersInv'
    OBVIOUS
  <1> DEFINE new == NewRuns(script.routes)
  <1>1. script.routes \subseteq SheetCodes
    BY DEF MissionNumbersInv, ScriptStates, GenerateMonth, NoScript
  <1>2. new \subseteq SheetCodes \X SheetDays
    BY <1>1 DEF NewRuns
  <1>3. IsFiniteSet(SheetCodes \X SheetDays)
    BY MissionNumbersAssumption, FS_Product
  <1>4. Cardinality(new) \in Nat
    BY <1>2, <1>3, FS_Subset, FS_CardinalityType
  <1>5. PICK first \in FirstParts : /\ Fits(SheetBatch(first, Cardinality(new)))
                                    /\ Numbered(SheetBatch(first, Cardinality(new)))
    BY DEF GenerateMonth
  <1>6. first \in Nat
    BY <1>5, FirstPartsAreNumbers DEF MissionNumbersInv
  <1>7. NumbersKept'
    BY <1>4, <1>5, <1>6, SheetBatchIsOne, BatchKept DEF MissionNumbersInv
  <1> QED
    BY <1>2, <1>7 DEF GenerateMonth, MissionNumbersInv, ScriptStates

LEMMA MissionNumbersInvStep ==
  MissionNumbersInv /\ [MissionNumbersNext]_missionNumbersVars => MissionNumbersInv'
  <1> SUFFICES ASSUME MissionNumbersInv, [MissionNumbersNext]_missionNumbersVars
               PROVE  MissionNumbersInv'
    OBVIOUS
  <1>1. CASE MonthFails
    BY <1>1, NoBatch DEF MonthFails, MissionNumbersInv, ScriptStates
  <1>2. CASE NextMonth
    BY <1>2, NoBatch, MissionNumbersAssumption DEF NextMonth, MissionNumbersInv
  <1>3. CASE UNCHANGED missionNumbersVars
    BY <1>3, NoBatch DEF missionNumbersVars, MissionNumbersInv
  <1> QED
    BY <1>1, <1>2, <1>3, MissionSteps, GenerateRouteKeeps, AssignDefaultsKeeps, GenerateMonthKeeps
    DEF MissionNumbersNext

LEMMA MissionNumbersTypes == MissionNumbersInv => MissionNumbersTypeOK
  <1> SUFFICES ASSUME MissionNumbersInv PROVE MissionNumbersTypeOK
    OBVIOUS
  <1>1. \A i \in DOMAIN batches : batches[i] \subseteq Numeros
    BY DEF MissionNumbersInv, NumbersKept
  <1>2. \A s \in Sessions : numbering[s] # None => numbering[s] \in Numeros
    BY DEF MissionNumbersInv
  <1> QED
    BY <1>1, <1>2 DEF MissionNumbersInv, MissionNumbersTypeOK, NumbersKept, ScriptStates

\* No two transactions that make missions commit the same numero, whichever of the
\* three ways of numbering they take and however they overlap.
THEOREM NumerosAreUnique == MissionNumbersSpec => []MissionNumbersTypeOK
  <1>1. MissionNumbersInit => MissionNumbersInv
    BY MissionNumbersInvInit
  <1>2. MissionNumbersInv /\ [MissionNumbersNext]_missionNumbersVars => MissionNumbersInv'
    BY MissionNumbersInvStep
  <1>3. MissionNumbersInv => MissionNumbersTypeOK
    BY MissionNumbersTypes
  <1> QED
    BY <1>1, <1>2, <1>3, PTL DEF MissionNumbersSpec

-----------------------------------------------------------------------------
(* Papers that the repair script files                                       *)

Owners == Workers \union Cars

\* The types and states of papers that the list and the columns can give.
Gifts  == {Sheet[i].papers : i \in 1..Len(Sheet)} \union {CarPapers[v] : v \in Cars}
Types  == UNION {DOMAIN g : g \in Gifts}
States == UNION {{g[t] : t \in DOMAIN g} : g \in Gifts}

FiledPapers == [owner : Owners, type : Types, of : Owners, state : States]

\* Papers of which no owner has two of a type.
Singles == {h \in SUBSET FiledPapers :
                \A p, q \in h : p.owner = q.owner /\ p.type = q.type => p = q}

RepairsInv ==
    /\ papers \in Singles
    /\ conformity \in [Owners -> {"OK", "A_REGULARISER", "BLOQUANT"}]
    /\ recounting \in BOOLEAN /\ fills \in 0..MaxFills

LEMMA RepairsInvInit == RepairsInit => RepairsInv
  <1> SUFFICES ASSUME RepairsInit PROVE RepairsInv
    OBVIOUS
  <1>1. {} \in Singles
    BY DEF Singles
  <1>2. 0 \in 0..MaxFills
    BY RepairsAssumption
  <1>3. conformity \in [Owners -> {"OK", "A_REGULARISER", "BLOQUANT"}]
    BY DEF RepairsInit, Owners
  <1> QED
    BY <1>1, <1>2, <1>3 DEF RepairsInit, RepairsInv

\* Filing what an owner misses gives no type twice.
LEMMA MissingFits ==
  ASSUME NEW h \in Singles, NEW owner \in Owners, NEW of \in Owners, NEW given \in Gifts
  PROVE  /\ Missing(h, owner, of, given) \subseteq FiledPapers
         /\ \A p \in Missing(h, owner, of, given) : p.owner = owner
         /\ h \union Missing(h, owner, of, given) \in Singles
  <1> DEFINE new == Missing(h, owner, of, given)
             free == {u \in DOMAIN given : \A p \in h : p.owner = owner => p.type # u}
             paper(t) == [owner |-> owner, type |-> t, of |-> of, state |-> given[t]]
  <1>1. new = {paper(t) : t \in free}
    BY DEF Missing
  <1>2. \A t \in free : paper(t).owner = owner /\ paper(t).type = t
    OBVIOUS
  <1>3. \A t \in free : paper(t) \in FiledPapers
    <2> SUFFICES ASSUME NEW t \in free PROVE paper(t) \in FiledPapers
      OBVIOUS
    <2>1. t \in Types /\ given[t] \in States
      BY DEF Types, States
    <2> QED
      BY <2>1 DEF FiledPapers
  <1>4. \A t \in free, p \in h : p.owner = owner => p.type # t
    OBVIOUS
  <1>5. h \subseteq FiledPapers /\ \A p, q \in h : p.owner = q.owner /\ p.type = q.type => p = q
    BY DEF Singles
  <1> HIDE DEF new, free, paper
  <1>6. new \subseteq FiledPapers /\ \A p \in new : p.owner = owner
    BY <1>1, <1>2, <1>3
  <1>7. \A p, q \in h \union new : p.owner = q.owner /\ p.type = q.type => p = q
    <2>1. ASSUME NEW p \in new, NEW q \in new, p.type = q.type PROVE p = q
      BY <1>1, <1>2, <2>1
    <2>2. ASSUME NEW p \in new, NEW q \in h, p.owner = q.owner, p.type = q.type PROVE FALSE
      BY <1>1, <1>2, <1>4, <2>2
    <2> QED
      BY <1>5, <2>1, <2>2
  <1> QED
    BY <1>5, <1>6, <1>7 DEF Singles, new

IsFiledUpTo(f, held, found) ==
    f = [i \in 0..Len(Sheet) |-> IF i = 0 THEN held ELSE FiledLine(f[i - 1], found, i)]

\* The drivers' papers, line by line.
LEMMA DriversFit ==
  ASSUME NEW held \in Singles, NEW found \in [1..Len(Sheet) -> Workers \union {Nobody}]
  PROVE  FiledDrivers(held, found) \in Singles
  <1> DEFINE n == Len(Sheet)
  <1>1. n \in Nat
    BY RepairsAssumption
  <1>2. \A h \in Singles, i \in 1..n : FiledLine(h, found, i) \in Singles
    <2> SUFFICES ASSUME NEW h \in Singles, NEW i \in 1..n, found[i] # Nobody
                 PROVE  h \union Missing(h, found[i], Sheet[i].person, Sheet[i].papers) \in Singles
      BY DEF FiledLine
    <2>1. found[i] \in Owners /\ Sheet[i].person \in Owners /\ Sheet[i].papers \in Gifts
      BY RepairsAssumption DEF Owners, Gifts
    <2> QED
      BY <2>1, MissingFits
  <1> DEFINE step == [r \in Singles \X (1..n) |-> FiledLine(r[1], found, r[2])]
  <1>3. step \in [Singles \X (1..n) -> Singles]
    <2> HIDE DEF n
    <2> QED
      BY <1>2
  <1>4. PICK g \in [0..n -> Singles] : Follows(g, held, step, n)
    <2> HIDE DEF step, n
    <2> QED
      BY <1>1, <1>3, Recursion
  <1>5. IsFiledUpTo(g, held, found)
    <2>1. ASSUME NEW i \in 1..n PROVE g[i] = FiledLine(g[i - 1], found, i)
      <3>1. g[i - 1] \in Singles /\ <<g[i - 1], i>> \in Singles \X (1..n)
        BY <1>1, <1>4
      <3>2. step[<<g[i - 1], i>>] = FiledLine(g[i - 1], found, i)
        BY <3>1
      <3> QED
        BY <1>4, <3>2 DEF Follows
    <2>2. g[0] = held
      BY <1>4 DEF Follows
    <2> QED
      BY <1>4, <2>1, <2>2 DEF IsFiledUpTo
  <1> DEFINE f == CHOOSE e : IsFiledUpTo(e, held, found)
  <1>6. IsFiledUpTo(f, held, found)
    BY <1>5
  <1>7. FiledDrivers(held, found) = f[n]
    BY DEF FiledDrivers, IsFiledUpTo
  <1> HIDE DEF f
  <1>8. f[0] = held /\ \A i \in 1..n : f[i] = FiledLine(f[i - 1], found, i)
    <2>1. \A i \in 0..n : f[i] = IF i = 0 THEN held ELSE FiledLine(f[i - 1], found, i)
      BY <1>6 DEF IsFiledUpTo
    <2> HIDE DEF n
    <2>2. 0 \in 0..n /\ \A i \in 1..n : i \in 0..n /\ i # 0
      BY <1>1
    <2> QED
      BY <2>1, <2>2
  <1>9. f[0] \in Singles /\ \A i \in 1..n : f[i - 1] \in Singles => f[i] \in Singles
    BY <1>2, <1>8
  <1>10. f[n] \in Singles
    <2> HIDE DEF n
    <2> QED
      BY <1>1, <1>9, RecursionStays
  <1> QED
    BY <1>7, <1>10

\* The vehicles' papers, all at once: each vehicle has its own.
LEMMA VehiclesFit ==
  ASSUME NEW held \in Singles
  PROVE  FiledVehicles(held) \in Singles
  <1> DEFINE new(v) == Missing(held, v, v, CarPapers[v])
             all == held \union UNION {new(v) : v \in Cars}
  <1>1. \A v \in Cars : /\ new(v) \subseteq FiledPapers
                        /\ \A p \in new(v) : p.owner = v
                        /\ held \union new(v) \in Singles
    <2> TAKE v \in Cars
    <2>1. v \in Owners /\ CarPapers[v] \in Gifts
      BY DEF Owners, Gifts
    <2> QED
      BY <2>1, MissingFits
  <1> HIDE DEF new
  <1>2. held \subseteq FiledPapers
    BY DEF Singles
  <1>3. all \subseteq FiledPapers
    BY <1>1, <1>2
  <1>4. ASSUME NEW p \in all, NEW q \in all, p.owner = q.owner, p.type = q.type  PROVE p = q
    <2>1. \A x \in all : x \in held \/ (x.owner \in Cars /\ x \in new(x.owner))
      BY <1>1
    <2>2. CASE p \in held /\ q \in held
      BY <1>4, <2>2 DEF Singles
    <2>3. ASSUME NEW v \in Cars, p \in held \union new(v), q \in held \union new(v) PROVE p = q
      <3>1. held \union new(v) \in Singles
        BY <1>1
      <3> QED
        BY <1>4, <2>3, <3>1 DEF Singles
    <2> QED
      BY <1>4, <2>1, <2>2, <2>3
  <1> HIDE DEF all
  <1>5. all \in Singles
    BY <1>3, <1>4 DEF Singles
  <1> QED
    BY <1>5 DEF FiledVehicles, all, new

LEMMA FilePapersKeeps == RepairsInv /\ FilePapers => RepairsInv'
  <1> SUFFICES ASSUME RepairsInv, FilePapers PROVE RepairsInv'
    OBVIOUS
  <1>1. PICK found \in Lookups : papers' = FiledVehicles(FiledDrivers(papers, found))
    BY DEF FilePapers
  <1>2. papers' \in Singles
    BY <1>1, DriversFit, VehiclesFit DEF RepairsInv, Lookups
  <1>3. fills' \in 0..MaxFills /\ recounting' \in BOOLEAN
    BY RepairsAssumption DEF FilePapers, RepairsInv
  <1> QED
    BY <1>2, <1>3 DEF FilePapers, RepairsInv

LEMMA RecountPapersKeeps == RepairsInv /\ RecountPapers => RepairsInv'
  <1> SUFFICES ASSUME RepairsInv, RecountPapers PROVE RepairsInv'
    OBVIOUS
  <1>1. \A x : Recounted(x) \in {"OK", "A_REGULARISER", "BLOQUANT"}
    BY DEF Recounted
  <1>2. conformity' \in [Owners -> {"OK", "A_REGULARISER", "BLOQUANT"}]
    BY <1>1 DEF RecountPapers, RepairsInv
  <1> QED
    BY <1>2 DEF RecountPapers, RepairsInv

LEMMA RepairsInvStep == RepairsInv /\ [RepairsNext]_repairsVars => RepairsInv'
  <1> SUFFICES ASSUME RepairsInv, [RepairsNext]_repairsVars PROVE RepairsInv'
    OBVIOUS
  <1>1. CASE FillIsCutOff
    BY <1>1 DEF FillIsCutOff, RepairsInv
  <1>2. CASE UNCHANGED repairsVars
    BY <1>2 DEF repairsVars, RepairsInv
  <1> QED
    BY <1>1, <1>2, FilePapersKeeps, RecountPapersKeeps DEF RepairsNext

LEMMA RepairsTypes == RepairsInv => RepairsTypeOK
  BY DEF RepairsInv, RepairsTypeOK, Singles, FiledPapers, Owners

\* However often the backfill is run, cut off and run again, a driver or vehicle has
\* at most one live document of a type, even when a name finds the wrong driver.
THEOREM PapersAreSingle == RepairsSpec => []RepairsTypeOK
  <1>1. RepairsInit => RepairsInv
    BY RepairsInvInit
  <1>2. RepairsInv /\ [RepairsNext]_repairsVars => RepairsInv'
    BY RepairsInvStep
  <1>3. RepairsInv => RepairsTypeOK
    BY RepairsTypes
  <1> QED
    BY <1>1, <1>2, <1>3, PTL DEF RepairsSpec

-----------------------------------------------------------------------------
(* Rows of the seeds                                                         *)

Template(r) == r.table = "compliance_templates"

\* No two templates of one tenant and type of document.
OneOfAType(db) ==
    \A i, j \in DOMAIN db :
        (Template(db[i]) /\ Template(db[j]) /\ db[i].tenant = db[j].tenant /\ db[i].key = db[j].key)
            => i = j

Databases == {db \in Seq(SeedRows) : OneOfAType(db)}

Drafts == [ok : BOOLEAN, db : Databases]

\* An INSERT of a template names the key in its ON CONFLICT.
Statements == {x \in [row : SeedRows, on : {"id", "key", "any"}] : Template(x.row) => x.on # "id"}

SeedInv ==
    /\ stored \in Databases
    /\ seeded \in [Seeds -> 0..MaxSeedRuns] /\ refusals \in 0..MaxSeedRuns

LEMMA SeedInvInit == SeedInit => SeedInv
  <1> SUFFICES ASSUME SeedInit PROVE SeedInv
    OBVIOUS
  <1>1. stored \in Seq(SeedRows) /\ DOMAIN stored = {}
    BY DEF SeedInit
  <1>2. 0 \in 0..MaxSeedRuns
    BY SeedingAssumption
  <1> QED
    BY <1>1, <1>2 DEF SeedInit, SeedInv, Databases, OneOfAType

\* One more row, which is no second template.
LEMMA RowAdded ==
  ASSUME NEW db \in Databases, NEW row \in SeedRows,
         Template(row) => ~ Meets(db, row, SameKeyed)
  PROVE  Append(db, row) \in Databases
  <1> DEFINE n == Len(db)
             new == Append(db, row)
  <1>1. db \in Seq(SeedRows) /\ OneOfAType(db)
    BY DEF Databases
  <1>2. n \in Nat /\ DOMAIN db = 1..n
    BY <1>1
  <1>3. /\ new \in Seq(SeedRows) /\ DOMAIN new = 1..(n + 1) /\ new[n + 1] = row
        /\ \A i \in 1..n : new[i] = db[i]
    BY <1>1
  <1>4. \A i \in 1..n : ~ (/\ Template(db[i]) /\ Template(row)
                           /\ db[i].tenant = row.tenant /\ db[i].key = row.key)
    BY <1>2 DEF Meets, SameKeyed, Template, Constrained
  <1>5. \A i \in 1..(n + 1) : i \in 1..n \/ i = n + 1
    BY <1>2
  <1> HIDE DEF n, new
  <1>6. OneOfAType(new)
    <2>1. ASSUME NEW i \in 1..(n + 1), NEW j \in 1..(n + 1), Template(new[i]), Template(new[j]),
                 new[i].tenant = new[j].tenant, new[i].key = new[j].key
          PROVE  i = j
      <3>1. CASE i \in 1..n /\ j \in 1..n
        BY <1>1, <1>2, <1>3, <2>1, <3>1 DEF OneOfAType
      <3>2. CASE i \in 1..n /\ j = n + 1
        BY <1>3, <1>4, <2>1, <3>2
      <3>3. CASE i = n + 1 /\ j \in 1..n
        BY <1>3, <1>4, <2>1, <3>3
      <3> QED
        BY <1>5, <3>1, <3>2, <3>3
    <2> QED
      BY <1>3, <2>1 DEF OneOfAType
  <1> QED
    BY <1>3, <1>6 DEF Databases, new

LEMMA ExecuteFits ==
  ASSUME NEW draft \in Drafts, NEW x \in Statements
  PROVE  Execute(draft, x) \in Drafts
  <1> DEFINE onId  == Meets(draft.db, x.row, SameId)
             onKey == Meets(draft.db, x.row, SameKeyed)
             db    == Append(draft.db, x.row)
  <1>1. draft.db \in Databases /\ x.row \in SeedRows /\ x.on \in {"id", "key", "any"}
    BY DEF Drafts, Statements
  <1>2. CASE (x.on \in {"id", "any"} /\ onId) \/ (x.on \in {"key", "any"} /\ onKey)
    BY <1>2 DEF Execute
  <1>3. CASE x.on = "key" /\ onId /\ ~ onKey
    BY <1>3 DEF Execute, Drafts
  <1>4. CASE /\ ~ ((x.on \in {"id", "any"} /\ onId) \/ (x.on \in {"key", "any"} /\ onKey))
             /\ ~ (x.on = "key" /\ onId /\ ~ onKey)
    <2>1. Execute(draft, x) = [draft EXCEPT !.db = db]
      BY <1>4 DEF Execute
    <2>2. Template(x.row) => ~ onKey
      BY <1>4, <1>1 DEF Statements
    <2>3. db \in Databases
      BY <1>1, <2>2, RowAdded
    <2> HIDE DEF db
    <2> QED
      BY <2>1, <2>3 DEF Drafts
  <1> QED
    BY <1>2, <1>3, <1>4

IsExecuted(f, draft, statements) ==
    f = [i \in 0..Len(statements) |-> IF i = 0 THEN draft ELSE Execute(f[i - 1], statements[i])]

LEMMA ExecuteAllFits ==
  ASSUME NEW draft \in Drafts, NEW statements \in Seq(Statements)
  PROVE  ExecuteAll(draft, statements) \in Drafts
  <1> DEFINE n == Len(statements)
  <1>1. n \in Nat /\ statements \in [1..n -> Statements]
    OBVIOUS
  <1>2. \A d \in Drafts, i \in 1..n : Execute(d, statements[i]) \in Drafts
    <2> HIDE DEF n
    <2> QED
      BY <1>1, ExecuteFits
  <1> DEFINE step == [r \in Drafts \X (1..n) |-> Execute(r[1], statements[r[2]])]
  <1>3. step \in [Drafts \X (1..n) -> Drafts]
    <2> HIDE DEF n
    <2> QED
      BY <1>2
  <1>4. PICK g \in [0..n -> Drafts] : Follows(g, draft, step, n)
    <2> HIDE DEF step, n
    <2> QED
      BY <1>1, <1>3, Recursion
  <1>5. IsExecuted(g, draft, statements)
    <2> HIDE DEF n
    <2>1. ASSUME NEW i \in 1..n PROVE g[i] = Execute(g[i - 1], statements[i])
      <3>1. g[i - 1] \in Drafts /\ <<g[i - 1], i>> \in Drafts \X (1..n)
        BY <1>1, <1>4
      <3>2. step[<<g[i - 1], i>>] = Execute(g[i - 1], statements[i])
        BY <3>1
      <3> QED
        BY <1>4, <3>2 DEF Follows
    <2>2. g[0] = draft
      BY <1>4 DEF Follows
    <2>3. g = [i \in 0..n |-> IF i = 0 THEN draft ELSE Execute(g[i - 1], statements[i])]
      BY <1>1, <1>4, <2>1, <2>2
    <2> QED
      BY <2>3 DEF IsExecuted, n
  <1> DEFINE f == CHOOSE e : IsExecuted(e, draft, statements)
  <1>6. IsExecuted(f, draft, statements)
    BY <1>5
  <1>7. ExecuteAll(draft, statements) = f[n]
    BY DEF ExecuteAll, IsExecuted
  <1> HIDE DEF f
  <1>8. f = [i \in 0..n |-> IF i = 0 THEN draft ELSE Execute(f[i - 1], statements[i])]
    BY <1>6 DEF IsExecuted
  <1> HIDE DEF n, step
  <1>9. f[0] = draft /\ \A i \in 1..n : f[i] = Execute(f[i - 1], statements[i])
    BY <1>1, <1>8
  <1>10. f[0] \in Drafts /\ \A i \in 1..n : f[i - 1] \in Drafts => f[i] \in Drafts
    BY <1>2, <1>9
  <1>11. f[n] \in Drafts
    BY <1>1, <1>10, RecursionStays
  <1> QED
    BY <1>7, <1>11

LEMMA StatementFits ==
  ASSUME NEW table \in Tables, NEW tenant \in Tenants, NEW key \in RowKeys, NEW id \in RowIds,
         NEW on \in {"id", "key", "any"}, table = "compliance_templates" => on # "id"
  PROVE  Insert(table, tenant, key, id, on) \in Statements
  BY DEF Insert, Statements, Template, SeedRows

IsPriced(f, draft) ==
    f = [i \in 0..Len(draft.db) |-> IF i = 0 THEN draft ELSE Priced(f[i - 1], draft.db[i])]

LEMMA PricedFits ==
  ASSUME NEW draft \in Drafts, NEW r \in SeedRows
  PROVE  Priced(draft, r) \in Drafts
  <1> DEFINE x == Insert("pricing_rules", "saf", r.key, "fresh", "any")
  <1>1. r.key \in RowKeys /\ "fresh" \in RowIds
    BY DEF SeedRows, RowIds
  <1>2. x \in Statements
    <2>1. "pricing_rules" \in Tables /\ "saf" \in Tenants
      BY DEF Tables, Unconstrained, Tenants
    <2> QED
      BY <1>1, <2>1, StatementFits
  <1> HIDE DEF x
  <1>3. Execute(draft, x) \in Drafts
    BY <1>2, ExecuteFits
  <1> QED
    BY <1>3 DEF Priced, x

LEMMA SafPricingFits ==
  ASSUME NEW draft \in Drafts
  PROVE  SafPricing(draft) \in Drafts
  <1> DEFINE rows == draft.db
             n == Len(rows)
  <1>1. n \in Nat /\ rows \in [1..n -> SeedRows]
    BY DEF Drafts, Databases
  <1>2. \A d \in Drafts, i \in 1..n : Priced(d, rows[i]) \in Drafts
    <2> HIDE DEF n, rows
    <2> QED
      BY <1>1, PricedFits
  <1> DEFINE step == [r \in Drafts \X (1..n) |-> Priced(r[1], rows[r[2]])]
  <1>3. step \in [Drafts \X (1..n) -> Drafts]
    <2> HIDE DEF n, rows
    <2> QED
      BY <1>2
  <1>4. PICK g \in [0..n -> Drafts] : Follows(g, draft, step, n)
    <2> HIDE DEF step, n, rows
    <2> QED
      BY <1>1, <1>3, Recursion
  <1>5. IsPriced(g, draft)
    <2> HIDE DEF n, rows
    <2>1. ASSUME NEW i \in 1..n PROVE g[i] = Priced(g[i - 1], rows[i])
      <3>1. g[i - 1] \in Drafts /\ <<g[i - 1], i>> \in Drafts \X (1..n)
        BY <1>1, <1>4
      <3>2. step[<<g[i - 1], i>>] = Priced(g[i - 1], rows[i])
        BY <3>1
      <3> QED
        BY <1>4, <3>2 DEF Follows
    <2>2. g[0] = draft
      BY <1>4 DEF Follows
    <2>3. g = [i \in 0..n |-> IF i = 0 THEN draft ELSE Priced(g[i - 1], rows[i])]
      BY <1>1, <1>4, <2>1, <2>2
    <2> QED
      BY <2>3 DEF IsPriced, n, rows
  <1> DEFINE f == CHOOSE e : IsPriced(e, draft)
  <1>6. IsPriced(f, draft)
    BY <1>5
  <1>7. SafPricing(draft) = f[n]
    BY DEF SafPricing, IsPriced
  <1> HIDE DEF f
  <1>8. f = [i \in 0..n |-> IF i = 0 THEN draft ELSE Priced(f[i - 1], rows[i])]
    BY <1>6 DEF IsPriced
  <1> HIDE DEF n, step, rows
  <1>9. f[0] = draft /\ \A i \in 1..n : f[i] = Priced(f[i - 1], rows[i])
    BY <1>1, <1>8
  <1>10. f[0] \in Drafts /\ \A i \in 1..n : f[i - 1] \in Drafts => f[i] \in Drafts
    BY <1>2, <1>9
  <1>11. f[n] \in Drafts
    BY <1>1, <1>10, RecursionStays
  <1> QED
    BY <1>7, <1>11

-----------------------------------------------------------------------------
(* The seeds                                                                 *)

LEMMA NewFits ==
  ASSUME NEW table \in Tables, NEW tenant \in Tenants, NEW on \in {"key", "any"}
  PROVE  New(table, tenant, on) \in Statements
  <1>1. table \in RowKeys /\ "fresh" \in RowIds
    BY DEF RowKeys, RowIds
  <1> QED
    BY <1>1, StatementFits DEF New

\* The statements of the seeds.
LEMMA InsertsFit ==
  /\ \A tenant \in Tenants, on \in {"key", "any"}, table \in Tables : New(table, tenant, on) \in Statements
  /\ Insert("tenants", "platform", "name", "tenant 1", "id") \in Statements
  /\ Insert("agencies", "platform", "name", "agency 10", "id") \in Statements
  /\ Insert("users", "platform", "admin@saf.local", "user 100", "key") \in Statements
  /\ Insert("users", "platform", "superadmin@saf.local", "user 200", "key") \in Statements
  /\ Insert("users", "platform", "admin@dataforgeai.fr", "user 100", "key") \in Statements
  /\ Insert("tenants", "saf", "name", "tenant 2", "id") \in Statements
  /\ Insert("agencies", "saf", "HQ", "agency 20", "id") \in Statements
  /\ Insert("users", "saf", "admin@saf-logistique.fr", "user 300", "key") \in Statements
  <1>1. {"tenants", "agencies", "users"} \subseteq Tables /\ {"platform", "saf"} \subseteq Tenants
    BY DEF Tables, Keyed, Unconstrained, Tenants
  <1>2. /\ {"name", "HQ", "admin@saf.local", "superadmin@saf.local", "admin@dataforgeai.fr",
            "admin@saf-logistique.fr"} \subseteq RowKeys
        /\ {"tenant 1", "tenant 2", "agency 10", "agency 20", "user 100", "user 200", "user 300"}
                \subseteq RowIds
    BY DEF RowKeys, RowIds
  <1>3. \A key \in RowKeys, id \in RowIds, tenant \in {"platform", "saf"} :
            /\ Insert("tenants", tenant, key, id, "id") \in Statements
            /\ Insert("agencies", tenant, key, id, "id") \in Statements
            /\ Insert("users", tenant, key, id, "key") \in Statements
    BY <1>1, StatementFits
  <1> QED
    BY <1>2, <1>3, NewFits

TableNames == {"roles", "users", "document_types", "payroll_variable_types", "payroll_mappings",
    "company_settings", "customers", "drivers", "vehicles", "subcontractors", "routes",
    "route_templates", "compliance_templates", "subcontractor_contracts", "vat_configs",
    "notification_configs", "bank_accounts"}

LEMMA NamesAreTables == TableNames \subseteq Tables /\ {"platform", "saf"} \subseteq Tenants
  BY DEF TableNames, Tables, Keyed, Unconstrained, Tenants

LEMMA ThreeOf ==
  ASSUME NEW S, NEW a \in S, NEW b \in S, NEW c \in S
  PROVE  << a, b, c >> \in Seq(S)
  OBVIOUS

LEMMA FiveOf ==
  ASSUME NEW S, NEW a \in S, NEW b \in S, NEW c \in S, NEW d \in S, NEW e \in S
  PROVE  << a, b, c, d, e >> \in Seq(S)
  OBVIOUS

LEMMA SixOf ==
  ASSUME NEW S, NEW a \in S, NEW b \in S, NEW c \in S, NEW d \in S, NEW e \in S, NEW f \in S
  PROVE  << a, b, c, d, e, f >> \in Seq(S)
  OBVIOUS

LEMMA DemoListsFit ==
  /\ DemoAccess \in Seq(Statements) /\ DemoPresets \in Seq(Statements)
  /\ DemoCustomers \in Seq(Statements) /\ DemoDrivers \in Seq(Statements)
  /\ DemoVehicles \in Seq(Statements) /\ DemoSubcontractors \in Seq(Statements)
  /\ DemoDefaults \in Seq(Statements)
  <1>1. \A table \in TableNames, on \in {"key", "any"} : New(table, "platform", on) \in Statements
    BY NamesAreTables, InsertsFit
  <1>2. DemoAccess \in Seq(Statements)
    <2>1. New("roles", "platform", "key") \in Statements /\ New("users", "platform", "key") \in Statements
      BY <1>1 DEF TableNames
    <2> QED
      BY <2>1, InsertsFit, SixOf DEF DemoAccess
  <1>3. DemoPresets \in Seq(Statements) /\ DemoCustomers \in Seq(Statements)
    BY <1>1 DEF DemoPresets, DemoCustomers, TableNames
  <1>4. DemoDrivers \in Seq(Statements) /\ DemoVehicles \in Seq(Statements)
    BY <1>1 DEF DemoDrivers, DemoVehicles, TableNames
  <1>5. DemoSubcontractors \in Seq(Statements) /\ DemoDefaults \in Seq(Statements)
    BY <1>1 DEF DemoSubcontractors, DemoDefaults, TableNames
  <1> QED
    BY <1>2, <1>3, <1>4, <1>5

LEMMA SafListsFit ==
  /\ SafAccess \in Seq(Statements) /\ SafPresets \in Seq(Statements)
  /\ SafTemplates \in Seq(Statements) /\ SafDrivers \in Seq(Statements)
  /\ SafVehicles \in Seq(Statements) /\ SafClients \in Seq(Statements)
  /\ SafRoutes \in Seq(Statements)
  <1>1. \A table \in TableNames, on \in {"key", "any"} : New(table, "saf", on) \in Statements
    BY NamesAreTables, InsertsFit
  <1>2. SafAccess \in Seq(Statements)
    <2>1. New("roles", "saf", "key") \in Statements /\ New("users", "saf", "key") \in Statements
      BY <1>1 DEF TableNames
    <2> QED
      BY <2>1, InsertsFit, FiveOf DEF SafAccess
  <1>3. SafPresets \in Seq(Statements)
    BY <1>1 DEF SafPresets, TableNames
  <1>4. SafTemplates \in Seq(Statements) /\ SafDrivers \in Seq(Statements)
    BY <1>1 DEF SafTemplates, SafDrivers, TableNames
  <1>5. /\ SafVehicles \in Seq(Statements) /\ SafClients \in Seq(Statements)
        /\ SafRoutes \in Seq(Statements)
    BY <1>1 DEF SafVehicles, SafClients, SafRoutes, TableNames
  <1> QED
    BY <1>2, <1>3, <1>4, <1>5

LEMMA FirstDraft ==
  ASSUME NEW db \in Databases
  PROVE  [ok |-> TRUE, db |-> db] \in Drafts
  BY DEF Drafts

LEMMA PlatformFits ==
  ASSUME NEW db \in Databases
  PROVE  PlatformAccess(db) \in Drafts
  <1> DEFINE list == << Insert("tenants", "platform", "name", "tenant 1", "id"),
                        Insert("agencies", "platform", "name", "agency 10", "id"),
                        New("roles", "platform", "key") >>
             first == ExecuteAll([ok |-> TRUE, db |-> db], list)
             admin == Insert("users", "platform", "admin@dataforgeai.fr", "user 100", "key")
  <1>1. New("roles", "platform", "key") \in Statements
    BY NamesAreTables, InsertsFit DEF TableNames
  <1>2. list \in Seq(Statements) /\ admin \in Statements
    BY <1>1, InsertsFit, ThreeOf
  <1>3. PlatformAccess(db) \in {[first EXCEPT !.ok = FALSE], Execute(first, admin)}
    BY DEF PlatformAccess
  <1> HIDE DEF list, admin
  <1>4. first \in Drafts
    BY <1>2, FirstDraft, ExecuteAllFits
  <1> HIDE DEF first
  <1>5. [first EXCEPT !.ok = FALSE] \in Drafts
    BY <1>4 DEF Drafts
  <1>6. Execute(first, admin) \in Drafts
    BY <1>2, <1>4, ExecuteFits
  <1> QED
    BY <1>3, <1>5, <1>6

LEMMA Joined ==
  ASSUME NEW S, NEW a \in Seq(S), NEW b \in Seq(S)
  PROVE  a \o b \in Seq(S)
  OBVIOUS

LEMMA SeedFits ==
  ASSUME NEW db \in Databases, NEW seed \in Seeds
  PROVE  Draft(seed, db) \in Drafts
  <1>1. Seed(db) \in Drafts
    <2> DEFINE list == DemoAccess \o DemoPresets \o DemoCustomers \o DemoDrivers \o DemoVehicles
                            \o DemoSubcontractors \o DemoDefaults
    <2>1. list \in Seq(Statements)
      BY DemoListsFit, Joined
    <2> HIDE DEF list
    <2>2. ExecuteAll([ok |-> TRUE, db |-> db], list) \in Drafts
      BY <2>1, FirstDraft, ExecuteAllFits
    <2> QED
      BY <2>2 DEF Seed, list
  <1>2. SeedSaf(db) \in Drafts
    <2> DEFINE a == SafAccess \o SafPresets \o SafTemplates
               b == SafDrivers \o SafVehicles \o SafClients \o SafRoutes
    <2>1. a \in Seq(Statements) /\ b \in Seq(Statements)
      BY SafListsFit, Joined
    <2> HIDE DEF a, b
    <2>2. ExecuteAll(PlatformAccess(db), a) \in Drafts
      BY <2>1, PlatformFits, ExecuteAllFits
    <2>3. SafPricing(ExecuteAll(PlatformAccess(db), a)) \in Drafts
      BY <2>2, SafPricingFits
    <2>4. ExecuteAll(SafPricing(ExecuteAll(PlatformAccess(db), a)), b) \in Drafts
      BY <2>1, <2>3, ExecuteAllFits
    <2> QED
      BY <2>4 DEF SeedSaf, a, b
  <1> QED
    BY <1>1, <1>2 DEF Draft

LEMMA RunSeedKeeps ==
  ASSUME SeedInv, NEW seed \in Seeds, RunSeed(seed)
  PROVE  SeedInv'
  <1> DEFINE draft == Draft(seed, stored)
  <1>1. draft \in Drafts
    BY SeedFits DEF SeedInv
  <1>2. /\ seeded["seed"] \in Nat /\ seeded["seed_saf"] \in Nat /\ refusals \in Nat /\ MaxSeedRuns \in Nat
        /\ seeded["seed"] + seeded["seed_saf"] + refusals < MaxSeedRuns
    BY SeedingAssumption DEF RunSeed, SeedInv, Seeds
  <1>3. seeded[seed] + 1 \in 0..MaxSeedRuns /\ refusals + 1 \in 0..MaxSeedRuns
    BY <1>2 DEF Seeds
  <1>4. CASE draft.ok
    <2>1. stored' = draft.db /\ seeded' = [seeded EXCEPT ![seed] = @ + 1] /\ refusals' = refusals
      BY <1>4 DEF RunSeed
    <2> HIDE DEF draft
    <2>2. stored' \in Databases
      BY <1>1, <2>1 DEF Drafts
    <2>3. seeded' \in [Seeds -> 0..MaxSeedRuns]
      BY <1>3, <2>1 DEF SeedInv
    <2> QED
      BY <2>1, <2>2, <2>3 DEF SeedInv
  <1>5. CASE ~ draft.ok
    <2>1. refusals' = refusals + 1 /\ UNCHANGED <<stored, seeded>>
      BY <1>5 DEF RunSeed
    <2> QED
      BY <1>3, <2>1 DEF SeedInv
  <1> QED
    BY <1>4, <1>5

LEMMA AddClientKeeps == SeedInv /\ AddClient => SeedInv'
  <1> SUFFICES ASSUME SeedInv, AddClient PROVE SeedInv'
    OBVIOUS
  <1> DEFINE client == Insert("customers", "saf", "client of the office", "fresh", "key").row
  <1>1. client \in SeedRows /\ ~ Template(client)
    <2>1. /\ "customers" \in Tables /\ "saf" \in Tenants
          /\ "client of the office" \in RowKeys /\ "fresh" \in RowIds
      BY DEF Tables, Keyed, Tenants, RowKeys, RowIds
    <2> QED
      BY <2>1 DEF Insert, SeedRows, Template
  <1>2. stored' = Append(stored, client) /\ UNCHANGED <<seeded, refusals>>
    BY DEF AddClient
  <1> HIDE DEF client
  <1>3. stored' \in Databases
    BY <1>1, <1>2, RowAdded DEF SeedInv
  <1> QED
    BY <1>2, <1>3 DEF SeedInv

LEMMA SeedInvStep == SeedInv /\ [SeedNext]_seedVars => SeedInv'
  <1> SUFFICES ASSUME SeedInv, [SeedNext]_seedVars PROVE SeedInv'
    OBVIOUS
  <1>1. CASE UNCHANGED seedVars
    BY <1>1 DEF seedVars, SeedInv
  <1> QED
    BY <1>1, RunSeedKeeps, AddClientKeeps DEF SeedNext

LEMMA SeedTypes == SeedInv => SeedTypeOK
  <1> SUFFICES ASSUME SeedInv PROVE SeedTypeOK
    OBVIOUS
  <1>1. TemplatesAreSingle
    BY DEF SeedInv, Databases, OneOfAType, Template, TemplatesAreSingle
  <1>2. \A i \in DOMAIN stored : stored[i] \in SeedRows
    BY DEF SeedInv, Databases
  <1> QED
    BY <1>1, <1>2 DEF SeedTypeOK, SeedInv

\* However often the two seeds are run, in whatever order and with clients of the
\* office in between, no tenant gets a second template of a type of document.
THEOREM TemplatesStaySingle == SeedSpec => []SeedTypeOK
  <1>1. SeedInit => SeedInv
    BY SeedInvInit
  <1>2. SeedInv /\ [SeedNext]_seedVars => SeedInv'
    BY SeedInvStep
  <1>3. SeedInv => SeedTypeOK
    BY SeedTypes
  <1> QED
    BY <1>1, <1>2, <1>3, PTL DEF SeedSpec

-----------------------------------------------------------------------------
(* All programs                                                              *)

UpkeepInv ==
    /\ RemindersInv /\ SeedInv /\ RepairsInv /\ MissionNumbersInv /\ IdentifiersInv
    /\ UploadTypesInv /\ SheetsInv

\* A step of the run is a step, or none, of each program.
UpkeepStep ==
    /\ [RemindersNext]_remindersVars /\ [SeedNext]_seedVars /\ [RepairsNext]_repairsVars
    /\ [MissionNumbersNext]_missionNumbersVars /\ [IdentifiersNext]_typed
    /\ [UploadsNext]_uploadVars /\ [SheetsNext]_sheetVars

LEMMA UpkeepInvInit == UpkeepInit => UpkeepInv
  BY RemindersInvInit, SeedInvInit, RepairsInvInit, MissionNumbersInvInit, IdentifiersInvInit,
     UploadTypesInvInit, SheetsInvInit DEF UpkeepInit, UpkeepInv

LEMMA UpkeepSteps == [UpkeepNext]_UpkeepVars => UpkeepStep
  BY DEF UpkeepNext, UpkeepVars, Unmoved, UpkeepStep

LEMMA UpkeepInvStep == UpkeepInv /\ [UpkeepNext]_UpkeepVars => UpkeepInv'
  BY UpkeepSteps, RemindersInvStep, SeedInvStep, RepairsInvStep, MissionNumbersInvStep,
     IdentifiersInvStep, UploadTypesInvStep, SheetsInvStep DEF UpkeepStep, UpkeepInv

LEMMA UpkeepInvAlways == UpkeepSpec => []UpkeepInv
  BY UpkeepInvInit, UpkeepInvStep, PTL DEF UpkeepSpec

\* The tables and the states of all programs keep their types, and with them what
\* each type invariant says beside: one numero per mission, one live paper of a type
\* per owner, one template of a type per tenant, versions that count up.
THEOREM UpkeepTypesCorrect == UpkeepSpec => []UpkeepTypeOK
  <1>1. UpkeepInv => UpkeepTypeOK
    BY RemindersTypes, SeedTypes, RepairsTypes, MissionNumbersTypes, SlipsShow, UploadTypes
    DEF UpkeepInv, UpkeepTypeOK, SheetsInv
  <1> QED
    BY <1>1, UpkeepInvAlways, PTL

=============================================================================
