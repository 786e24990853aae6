---------------------------- MODULE RecordProofs ----------------------------
(***************************************************************************)
(* FilesHold, for any number of uploads, viewers, failures and restarts;   *)
(* and NestedWhole, for any relation fields, places and links.             *)
(*                                                                         *)
(* FilesHold is not inductive.  That what a viewer is about to be served   *)
(* is whole needs to be known of every file whose upload has made its      *)
(* record, also of one whose commit is in doubt and whose upload is about  *)
(* to remove it; and that a file is not taken away from a record needs     *)
(* that no two uploads have one id and that an upload's record is not      *)
(* there before its file is.  What clients write into records touches the  *)
(* ids in question only, and their story says so.                          *)
(*                                                                         *)
(* Nor is NestedWhole, which is about the end of a write: NestedInvar says *)
(* which columns those fields have got that are resolved, and what links   *)
(* those have that are set.                                                *)
(***************************************************************************)
EXTENDS Files, NestedWrites, FiniteSetTheorems, TLAPS

-----------------------------------------------------------------------------
(***************************************************************************)
(* Files.                                                                  *)
(***************************************************************************)
Told == {"short", "uploaded", "doubtful", "left", "destroyed", "stopped", "made", "moved"}

FilesTypeOK ==
  /\ disk \in [FileIds -> {"none", "part", "whole"}]
  /\ records \subseteq FileIds /\ path \in [FileIds -> FileIds \cup {NoFileId}]
  /\ upload \in [Uploaders -> [at : {"idle", "copy", "record", "remove"}, id : FileIds \cup {NoFileId}]]
  /\ view \in [Viewers -> [at : {"idle", "stat", "serve", "answered"}, file : FileIds \cup {NoFileId},
                           own : BOOLEAN, got : {"none", "part", "whole", "nothing"}]]
  /\ story \in [FileIds -> SUBSET Told]
  /\ idsGiven \in 0..MaxUploads /\ byHand \in 0..MaxByHand /\ fileTroubles \in 0..MaxFileTroubles

\* Of ids that have not been given there are no files.
UnusedInv ==
  \A i \in FileIds : i > idsGiven =>
    /\ disk[i] = "none" /\ story[i] \cap {"short", "uploaded", "doubtful"} = {}
    /\ \A u \in Uploaders : upload[u].id # i

\* An upload has an id, of its own.
IdleInv == \A u \in Uploaders : Uploads(u, "idle") <=> upload[u].id = NoFileId

OwnInv ==
  \A u, v \in Uploaders : upload[u].id = upload[v].id => u = v \/ upload[u].id = NoFileId

\* Its record comes last.
AheadInv ==
  \A u \in Uploaders, i \in FileIds : upload[u].id = i =>
    /\ "uploaded" \notin story[i]
    /\ Uploads(u, "copy") \/ Uploads(u, "record") => "doubtful" \notin story[i]
    /\ Uploads(u, "copy") => disk[i] = "part"
    /\ Uploads(u, "record") => disk[i] # "none" /\ (disk[i] = "part" => "short" \in story[i])

UploadInv == IdleInv /\ OwnInv /\ AheadInv

HadRecord(i) == "uploaded" \in story[i] \/ "doubtful" \in story[i]

\* A record that no client has written is that of an upload, and names its file.  A
\* file whose upload ever had a record is whole, cut short by Close, or gone with a
\* doubtful commit.
RecordedInv ==
  \A i \in FileIds :
    /\ i \in records /\ ByUpload(i) => HadRecord(i) /\ path[i] = i
    /\ "uploaded" \in story[i] => disk[i] # "none"
    /\ HadRecord(i) /\ disk[i] = "part" => "short" \in story[i]

\* A viewer that found such a record is on its way to such a file.
ViewInv ==
  \A v \in Viewers : view[v].at \in {"stat", "serve"} =>
    /\ view[v].file \in FileIds /\ view[v].got = "none"
    /\ view[v].own => HadRecord(view[v].file)

AnswerInv ==
  \A v \in Viewers : Views(v, "answered") /\ view[v].own =>
    /\ view[v].file \in FileIds
    /\ \/ view[v].got = "whole"
       \/ view[v].got = "part" /\ "short" \in story[view[v].file]
       \/ view[v].got = "none" /\ "doubtful" \in story[view[v].file]

IInv == FilesTypeOK /\ UnusedInv /\ UploadInv /\ RecordedInv /\ ViewInv /\ AnswerInv /\ NoneAlone

-----------------------------------------------------------------------------
LEMMA Initially == FilesInit => IInv
<1> SUFFICES ASSUME FilesInit PROVE IInv
  OBVIOUS
<1> USE FilesAssumption DEF FileIds, NoFileId, FilesInit, Resting, Watching, Told
<1>1. FilesTypeOK
  BY DEF FilesTypeOK
<1>2. UnusedInv /\ UploadInv /\ RecordedInv
  BY DEF UnusedInv, UploadInv, IdleInv, OwnInv, AheadInv, RecordedInv, Uploads, HadRecord
<1>3. ViewInv /\ AnswerInv /\ NoneAlone
  BY DEF ViewInv, AnswerInv, NoneAlone, HasFile, HasRecord, Views
<1> QED
  BY <1>1, <1>2, <1>3 DEF IInv

LEMMA CreateFileStep ==
  ASSUME IInv, NEW u \in Uploaders, CreateFile(u)
  PROVE  IInv'
<1> USE FilesAssumption DEF IInv, CreateFile, Resting, FilesTypeOK, Uploads, Views,
  Goes, Sees, Records, HadRecord, ByUpload, FileIds, NoFileId
<1>1. FilesTypeOK'
  BY DEF Told
<1>2. UnusedInv'
  BY DEF UnusedInv
<1>3. UploadInv'
  <2>1. IdleInv'
    BY DEF UploadInv, IdleInv
  <2>2. OwnInv'
    BY DEF UploadInv, IdleInv, OwnInv, AheadInv, UnusedInv
  <2>3. AheadInv'
    BY DEF UploadInv, IdleInv, OwnInv, AheadInv, UnusedInv, RecordedInv
  <2> QED
    BY <2>1, <2>2, <2>3 DEF UploadInv
<1>4. RecordedInv'
  BY DEF RecordedInv, UnusedInv, UploadInv, IdleInv, OwnInv, AheadInv
<1>5. ViewInv'
  BY DEF ViewInv, RecordedInv
<1>6. AnswerInv'
  BY DEF AnswerInv, ViewInv, RecordedInv
<1>7. NoneAlone'
  <2> SUFFICES ASSUME NEW j \in FileIds PROVE HasFile(j)' /\ HasRecord(j)'
    BY DEF NoneAlone
  <2>0. HasFile(j) /\ HasRecord(j)
    BY DEF NoneAlone
  <2>1. HasFile(j)'
    BY <2>0 DEF HasFile, RecordedInv, UnusedInv, UploadInv, AheadInv
  <2>2. HasRecord(j)'
    BY <2>0 DEF HasRecord, UnusedInv, UploadInv, IdleInv, OwnInv
  <2> QED
    BY <2>1, <2>2
<1> QED
  BY <1>1, <1>2, <1>3, <1>4, <1>5, <1>6, <1>7

LEMMA CreateFileFailsStep ==
  ASSUME IInv, NEW u \in Uploaders, CreateFileFails(u)
  PROVE  IInv'
<1> USE FilesAssumption DEF IInv, CreateFileFails, Trouble, FilesTypeOK, Uploads, Views,
  Goes, Sees, Records, HadRecord, ByUpload, FileIds, NoFileId
<1>1. FilesTypeOK'
  BY DEF Told
<1>2. UnusedInv'
  BY DEF UnusedInv
<1>3. UploadInv'
  <2>1. IdleInv'
    BY DEF UploadInv, IdleInv
  <2>2. OwnInv'
    BY DEF UploadInv, IdleInv, OwnInv, AheadInv, UnusedInv
  <2>3. AheadInv'
    BY DEF UploadInv, IdleInv, OwnInv, AheadInv, UnusedInv, RecordedInv
  <2> QED
    BY <2>1, <2>2, <2>3 DEF UploadInv
<1>4. RecordedInv'
  BY DEF RecordedInv, UnusedInv, UploadInv, IdleInv, OwnInv, AheadInv
<1>5. ViewInv'
  BY DEF ViewInv, RecordedInv
<1>6. AnswerInv'
  BY DEF AnswerInv, ViewInv, RecordedInv
<1>7. NoneAlone'
  <2> SUFFICES ASSUME NEW j \in FileIds PROVE HasFile(j)' /\ HasRecord(j)'
    BY DEF NoneAlone
  <2>0. HasFile(j) /\ HasRecord(j)
    BY DEF NoneAlone
  <2>1. HasFile(j)'
    BY <2>0 DEF HasFile, RecordedInv, UnusedInv, UploadInv, AheadInv
  <2>2. HasRecord(j)'
    BY <2>0 DEF HasRecord, UnusedInv, UploadInv, IdleInv, OwnInv
  <2> QED
    BY <2>1, <2>2
<1> QED
  BY <1>1, <1>2, <1>3, <1>4, <1>5, <1>6, <1>7

LEMMA CopyAllStep ==
  ASSUME IInv, NEW u \in Uploaders, CopyAll(u)
  PROVE  IInv'
<1> USE FilesAssumption DEF IInv, CopyAll, FilesTypeOK, Uploads, Views,
  Goes, Sees, Records, HadRecord, ByUpload, FileIds, NoFileId
<1>0. upload[u].id \in FileIds
  BY DEF UploadInv, IdleInv
<1>1. FilesTypeOK'
  BY <1>0 DEF Told
<1>2. UnusedInv'
  BY <1>0 DEF UnusedInv
<1>3. UploadInv'
  <2>1. IdleInv'
    BY <1>0 DEF UploadInv, IdleInv
  <2>2. OwnInv'
    BY <1>0 DEF UploadInv, IdleInv, OwnInv, AheadInv, UnusedInv
  <2>3. AheadInv'
    BY <1>0 DEF UploadInv, IdleInv, OwnInv, AheadInv, UnusedInv, RecordedInv
  <2> QED
    BY <2>1, <2>2, <2>3 DEF UploadInv
<1>4. RecordedInv'
  BY <1>0 DEF RecordedInv, UnusedInv, UploadInv, IdleInv, OwnInv, AheadInv
<1>5. ViewInv'
  BY <1>0 DEF ViewInv, RecordedInv
<1>6. AnswerInv'
  BY <1>0 DEF AnswerInv, ViewInv, RecordedInv
<1>7. NoneAlone'
  <2> SUFFICES ASSUME NEW j \in FileIds PROVE HasFile(j)' /\ HasRecord(j)'
    BY DEF NoneAlone
  <2>0. HasFile(j) /\ HasRecord(j)
    BY DEF NoneAlone
  <2>1. HasFile(j)'
    BY <1>0, <2>0 DEF HasFile, RecordedInv, UnusedInv, UploadInv, AheadInv
  <2>2. HasRecord(j)'
    BY <1>0, <2>0 DEF HasRecord, UnusedInv, UploadInv, IdleInv, OwnInv
  <2> QED
    BY <2>1, <2>2
<1> QED
  BY <1>1, <1>2, <1>3, <1>4, <1>5, <1>6, <1>7

LEMMA CopyBreaksStep ==
  ASSUME IInv, NEW u \in Uploaders, CopyBreaks(u)
  PROVE  IInv'
<1> USE FilesAssumption DEF IInv, CopyBreaks, Trouble, FilesTypeOK, Uploads, Views,
  Goes, Sees, Records, HadRecord, ByUpload, FileIds, NoFileId
<1>0. upload[u].id \in FileIds
  BY DEF UploadInv, IdleInv
<1>1. FilesTypeOK'
  BY <1>0 DEF Told
<1>2. UnusedInv'
  BY <1>0 DEF UnusedInv
<1>3. UploadInv'
  <2>1. IdleInv'
    BY <1>0 DEF UploadInv, IdleInv
  <2>2. OwnInv'
    BY <1>0 DEF UploadInv, IdleInv, OwnInv, AheadInv, UnusedInv
  <2>3. AheadInv'
    BY <1>0 DEF UploadInv, IdleInv, OwnInv, AheadInv, UnusedInv, RecordedInv
  <2> QED
    BY <2>1, <2>2, <2>3 DEF UploadInv
<1>4. RecordedInv'
  BY <1>0 DEF RecordedInv, UnusedInv, UploadInv, IdleInv, OwnInv, AheadInv
<1>5. ViewInv'
  BY <1>0 DEF ViewInv, RecordedInv
<1>6. AnswerInv'
  BY <1>0 DEF AnswerInv, ViewInv, RecordedInv
<1>7. NoneAlone'
  <2> SUFFICES ASSUME NEW j \in FileIds PROVE HasFile(j)' /\ HasRecord(j)'
    BY DEF NoneAlone
  <2>0. HasFile(j) /\ HasRecord(j)
    BY DEF NoneAlone
  <2>1. HasFile(j)'
    BY <1>0, <2>0 DEF HasFile, RecordedInv, UnusedInv, UploadInv, AheadInv
  <2>2. HasRecord(j)'
    BY <1>0, <2>0 DEF HasRecord, UnusedInv, UploadInv, IdleInv, OwnInv
  <2> QED
    BY <2>1, <2>2
<1> QED
  BY <1>1, <1>2, <1>3, <1>4, <1>5, <1>6, <1>7

LEMMA CloseBreaksStep ==
  ASSUME IInv, NEW u \in Uploaders, CloseBreaks(u)
  PROVE  IInv'
<1> USE FilesAssumption DEF IInv, CloseBreaks, Trouble, Tells, FilesTypeOK, Uploads, Views,
  Goes, Sees, Records, HadRecord, ByUpload, FileIds, NoFileId
<1>0. upload[u].id \in FileIds
  BY DEF UploadInv, IdleInv
<1>1. FilesTypeOK'
  BY <1>0 DEF Told
<1>2. UnusedInv'
  BY <1>0 DEF UnusedInv
<1>3. UploadInv'
  <2>1. IdleInv'
    BY <1>0 DEF UploadInv, IdleInv
  <2>2. OwnInv'
    BY <1>0 DEF UploadInv, IdleInv, OwnInv, AheadInv, UnusedInv
  <2>3. AheadInv'
    BY <1>0 DEF UploadInv, IdleInv, OwnInv, AheadInv, UnusedInv, RecordedInv
  <2> QED
    BY <2>1, <2>2, <2>3 DEF UploadInv
<1>4. RecordedInv'
  BY <1>0 DEF RecordedInv, UnusedInv, UploadInv, IdleInv, OwnInv, AheadInv
<1>5. ViewInv'
  BY <1>0 DEF ViewInv, RecordedInv
<1>6. AnswerInv'
  BY <1>0 DEF AnswerInv, ViewInv, RecordedInv
<1>7. NoneAlone'
  <2> SUFFICES ASSUME NEW j \in FileIds PROVE HasFile(j)' /\ HasRecord(j)'
    BY DEF NoneAlone
  <2>0. HasFile(j) /\ HasRecord(j)
    BY DEF NoneAlone
  <2>1. HasFile(j)'
    BY <1>0, <2>0 DEF HasFile, RecordedInv, UnusedInv, UploadInv, AheadInv
  <2>2. HasRecord(j)'
    BY <1>0, <2>0 DEF HasRecord, UnusedInv, UploadInv, IdleInv, OwnInv
  <2> QED
    BY <2>1, <2>2
<1> QED
  BY <1>1, <1>2, <1>3, <1>4, <1>5, <1>6, <1>7

LEMMA CreateRecordStep ==
  ASSUME IInv, NEW u \in Uploaders, CreateRecord(u)
  PROVE  IInv'
<1> USE FilesAssumption DEF IInv, CreateRecord, Tells, Resting, FilesTypeOK, Uploads, Views,
  Goes, Sees, Records, HadRecord, ByUpload, FileIds, NoFileId
<1>0. upload[u].id \in FileIds
  BY DEF UploadInv, IdleInv
<1>1. FilesTypeOK'
  BY <1>0 DEF Told
<1>2. UnusedInv'
  BY <1>0 DEF UnusedInv
<1>3. UploadInv'
  <2>1. IdleInv'
    BY <1>0 DEF UploadInv, IdleInv
  <2>2. OwnInv'
    BY <1>0 DEF UploadInv, IdleInv, OwnInv, AheadInv, UnusedInv
  <2>3. AheadInv'
    BY <1>0 DEF UploadInv, IdleInv, OwnInv, AheadInv, UnusedInv, RecordedInv
  <2> QED
    BY <2>1, <2>2, <2>3 DEF UploadInv
<1>4. RecordedInv'
  BY <1>0 DEF RecordedInv, UnusedInv, UploadInv, IdleInv, OwnInv, AheadInv
<1>5. ViewInv'
  BY <1>0 DEF ViewInv, RecordedInv
<1>6. AnswerInv'
  BY <1>0 DEF AnswerInv, ViewInv, RecordedInv
<1>7. NoneAlone'
  <2> SUFFICES ASSUME NEW j \in FileIds PROVE HasFile(j)' /\ HasRecord(j)'
    BY DEF NoneAlone
  <2>0. HasFile(j) /\ HasRecord(j)
    BY DEF NoneAlone
  <2>1. HasFile(j)'
    BY <1>0, <2>0 DEF HasFile, RecordedInv, UnusedInv, UploadInv, AheadInv
  <2>2. HasRecord(j)'
    BY <1>0, <2>0 DEF HasRecord, UnusedInv, UploadInv, IdleInv, OwnInv
  <2> QED
    BY <2>1, <2>2
<1> QED
  BY <1>1, <1>2, <1>3, <1>4, <1>5, <1>6, <1>7

LEMMA RecordRefusedStep ==
  ASSUME IInv, NEW u \in Uploaders, RecordRefused(u)
  PROVE  IInv'
<1> USE FilesAssumption DEF IInv, RecordRefused, FilesTypeOK, Uploads, Views,
  Goes, Sees, Records, HadRecord, ByUpload, FileIds, NoFileId
<1>0. upload[u].id \in FileIds
  BY DEF UploadInv, IdleInv
<1>1. FilesTypeOK'
  BY <1>0 DEF Told
<1>2. UnusedInv'
  BY <1>0 DEF UnusedInv
<1>3. UploadInv'
  <2>1. IdleInv'
    BY <1>0 DEF UploadInv, IdleInv
  <2>2. OwnInv'
    BY <1>0 DEF UploadInv, IdleInv, OwnInv, AheadInv, UnusedInv
  <2>3. AheadInv'
    BY <1>0 DEF UploadInv, IdleInv, OwnInv, AheadInv, UnusedInv, RecordedInv
  <2> QED
    BY <2>1, <2>2, <2>3 DEF UploadInv
<1>4. RecordedInv'
  BY <1>0 DEF RecordedInv, UnusedInv, UploadInv, IdleInv, OwnInv, AheadInv
<1>5. ViewInv'
  BY <1>0 DEF ViewInv, RecordedInv
<1>6. AnswerInv'
  BY <1>0 DEF AnswerInv, ViewInv, RecordedInv
<1>7. NoneAlone'
  <2> SUFFICES ASSUME NEW j \in FileIds PROVE HasFile(j)' /\ HasRecord(j)'
    BY DEF NoneAlone
  <2>0. HasFile(j) /\ HasRecord(j)
    BY DEF NoneAlone
  <2>1. HasFile(j)'
    BY <1>0, <2>0 DEF HasFile, RecordedInv, UnusedInv, UploadInv, AheadInv
  <2>2. HasRecord(j)'
    BY <1>0, <2>0 DEF HasRecord, UnusedInv, UploadInv, IdleInv, OwnInv
  <2> QED
    BY <2>1, <2>2
<1> QED
  BY <1>1, <1>2, <1>3, <1>4, <1>5, <1>6, <1>7

LEMMA RecordFailsStep ==
  ASSUME IInv, NEW u \in Uploaders, RecordFails(u)
  PROVE  IInv'
<1> USE FilesAssumption DEF IInv, RecordFails, Trouble, Tells, FilesTypeOK, Uploads, Views,
  Goes, Sees, Records, HadRecord, ByUpload, FileIds, NoFileId
<1>0. upload[u].id \in FileIds
  BY DEF UploadInv, IdleInv
<1>a. \/ UNCHANGED <<records, path, story>>
      \/ /\ upload[u].id \notin records
         /\ Records(upload[u].id, upload[u].id) /\ Tells(upload[u].id, "doubtful")
  BY DEF RecordFails
<1>1. FilesTypeOK'
  <2>1. CASE UNCHANGED <<records, path, story>>
    BY <1>0, <2>1
  <2>2. CASE Records(upload[u].id, upload[u].id) /\ Tells(upload[u].id, "doubtful")
    <3>1. records' \subseteq FileIds /\ path' \in [FileIds -> FileIds \cup {NoFileId}]
      BY <1>0, <2>2
    <3>2. story' \in [FileIds -> SUBSET Told]
      BY <1>0, <2>2 DEF Told
    <3> QED
      BY <1>0, <3>1, <3>2
  <2> QED
    BY <1>a, <2>1, <2>2
<1>2. UnusedInv'
  BY <1>0 DEF UnusedInv
<1>3. UploadInv'
  <2>1. IdleInv'
    BY <1>0 DEF UploadInv, IdleInv
  <2>2. OwnInv'
    BY <1>0 DEF UploadInv, IdleInv, OwnInv, AheadInv, UnusedInv
  <2>3. AheadInv'
    BY <1>0 DEF UploadInv, IdleInv, OwnInv, AheadInv, UnusedInv, RecordedInv
  <2> QED
    BY <2>1, <2>2, <2>3 DEF UploadInv
<1>4. RecordedInv'
  <2>1. CASE UNCHANGED <<records, path, story>>
    BY <1>0, <2>1 DEF RecordedInv
  <2>2. CASE Records(upload[u].id, upload[u].id) /\ Tells(upload[u].id, "doubtful")
    BY <1>0, <2>2 DEF RecordedInv, UploadInv, AheadInv
  <2> QED
    BY <1>a, <2>1, <2>2
<1>b. \A i \in FileIds : story[i] \subseteq story'[i]
  <2>1. CASE UNCHANGED <<records, path, story>>
    BY <2>1
  <2>2. CASE Tells(upload[u].id, "doubtful")
    BY <1>0, <2>2
  <2> QED
    BY <1>a, <2>1, <2>2
<1>5. ViewInv'
  BY <1>b DEF ViewInv
<1>6. AnswerInv'
  BY <1>b DEF AnswerInv
<1>7. NoneAlone'
  <2> SUFFICES ASSUME NEW j \in FileIds PROVE HasFile(j)' /\ HasRecord(j)'
    BY DEF NoneAlone
  <2>0. HasFile(j) /\ HasRecord(j)
    BY DEF NoneAlone
  <2>1. HasFile(j)'
    BY <1>0, <2>0 DEF HasFile, RecordedInv, UnusedInv, UploadInv, AheadInv
  <2>2. HasRecord(j)'
    BY <1>0, <2>0 DEF HasRecord, UnusedInv, UploadInv, IdleInv, OwnInv
  <2> QED
    BY <2>1, <2>2
<1> QED
  BY <1>1, <1>2, <1>3, <1>4, <1>5, <1>6, <1>7

LEMMA RemoveFileStep ==
  ASSUME IInv, NEW u \in Uploaders, RemoveFile(u)
  PROVE  IInv'
<1> USE FilesAssumption DEF IInv, RemoveFile, Resting, FilesTypeOK, Uploads, Views,
  Goes, Sees, Records, HadRecord, ByUpload, FileIds, NoFileId
<1>0. upload[u].id \in FileIds
  BY DEF UploadInv, IdleInv
<1>1. FilesTypeOK'
  BY <1>0 DEF Told
<1>2. UnusedInv'
  BY <1>0 DEF UnusedInv
<1>3. UploadInv'
  <2>1. IdleInv'
    BY <1>0 DEF UploadInv, IdleInv
  <2>2. OwnInv'
    BY <1>0 DEF UploadInv, IdleInv, OwnInv, AheadInv, UnusedInv
  <2>3. AheadInv'
    BY <1>0 DEF UploadInv, IdleInv, OwnInv, AheadInv, UnusedInv, RecordedInv
  <2> QED
    BY <2>1, <2>2, <2>3 DEF UploadInv
<1>4. RecordedInv'
  BY <1>0 DEF RecordedInv, UnusedInv, UploadInv, IdleInv, OwnInv, AheadInv
<1>5. ViewInv'
  BY <1>0 DEF ViewInv, RecordedInv
<1>6. AnswerInv'
  BY <1>0 DEF AnswerInv, ViewInv, RecordedInv
<1>7. NoneAlone'
  <2> SUFFICES ASSUME NEW j \in FileIds PROVE HasFile(j)' /\ HasRecord(j)'
    BY DEF NoneAlone
  <2>0. HasFile(j) /\ HasRecord(j)
    BY DEF NoneAlone
  <2>1. HasFile(j)'
    BY <1>0, <2>0 DEF HasFile, RecordedInv, UnusedInv, UploadInv, AheadInv
  <2>2. HasRecord(j)'
    BY <1>0, <2>0 DEF HasRecord, UnusedInv, UploadInv, IdleInv, OwnInv
  <2> QED
    BY <2>1, <2>2
<1> QED
  BY <1>1, <1>2, <1>3, <1>4, <1>5, <1>6, <1>7

LEMMA RemoveFailsStep ==
  ASSUME IInv, NEW u \in Uploaders, RemoveFails(u)
  PROVE  IInv'
<1> USE FilesAssumption DEF IInv, RemoveFails, Trouble, Tells, Resting, FilesTypeOK, Uploads, Views,
  Goes, Sees, Records, HadRecord, ByUpload, FileIds, NoFileId
<1>0. upload[u].id \in FileIds
  BY DEF UploadInv, IdleInv
<1>1. FilesTypeOK'
  BY <1>0 DEF Told
<1>2. UnusedInv'
  BY <1>0 DEF UnusedInv
<1>3. UploadInv'
  <2>1. IdleInv'
    BY <1>0 DEF UploadInv, IdleInv
  <2>2. OwnInv'
    BY <1>0 DEF UploadInv, IdleInv, OwnInv, AheadInv, UnusedInv
  <2>3. AheadInv'
    BY <1>0 DEF UploadInv, IdleInv, OwnInv, AheadInv, UnusedInv, RecordedInv
  <2> QED
    BY <2>1, <2>2, <2>3 DEF UploadInv
<1>4. RecordedInv'
  BY <1>0 DEF RecordedInv, UnusedInv, UploadInv, IdleInv, OwnInv, AheadInv
<1>5. ViewInv'
  BY <1>0 DEF ViewInv, RecordedInv
<1>6. AnswerInv'
  BY <1>0 DEF AnswerInv, ViewInv, RecordedInv
<1>7. NoneAlone'
  <2> SUFFICES ASSUME NEW j \in FileIds PROVE HasFile(j)' /\ HasRecord(j)'
    BY DEF NoneAlone
  <2>0. HasFile(j) /\ HasRecord(j)
    BY DEF NoneAlone
  <2>1. HasFile(j)'
    BY <1>0, <2>0 DEF HasFile, RecordedInv, UnusedInv, UploadInv, AheadInv
  <2>2. HasRecord(j)'
    <3>1. CASE j = upload[u].id
      <4>1. "left" \in story'[j]
        BY <1>0, <3>1
      <4> QED
        BY <4>1 DEF HasRecord
    <3>2. CASE j # upload[u].id
      <4>1. story'[j] = story[j] /\ \A w \in Uploaders : upload[w].id = j => upload'[w].id = j
        BY <1>0, <3>2
      <4> QED
        BY <2>0, <4>1 DEF HasRecord
    <3> QED
      BY <3>1, <3>2
  <2> QED
    BY <2>1, <2>2
<1> QED
  BY <1>1, <1>2, <1>3, <1>4, <1>5, <1>6, <1>7

LEMMA MakeRecordStep ==
  ASSUME IInv, NEW i \in FileIds, NEW file \in FileIds \cup {NoFileId}, MakeRecord(i, file)
  PROVE  IInv'
<1> USE FilesAssumption DEF IInv, MakeRecord, ByHand, Tells, FilesTypeOK, Uploads, Views,
  Goes, Sees, Records, HadRecord, ByUpload, FileIds, NoFileId
<1>1. FilesTypeOK'
  BY DEF Told
<1>2. UnusedInv'
  BY DEF UnusedInv
<1>3. UploadInv'
  <2>1. IdleInv'
    BY DEF UploadInv, IdleInv
  <2>2. OwnInv'
    BY DEF UploadInv, IdleInv, OwnInv, AheadInv, UnusedInv
  <2>3. AheadInv'
    BY DEF UploadInv, IdleInv, OwnInv, AheadInv, UnusedInv, RecordedInv
  <2> QED
    BY <2>1, <2>2, <2>3 DEF UploadInv
<1>4. RecordedInv'
  BY DEF RecordedInv, UnusedInv, UploadInv, IdleInv, OwnInv, AheadInv
<1>5. ViewInv'
  BY DEF ViewInv, RecordedInv
<1>6. AnswerInv'
  BY DEF AnswerInv, ViewInv, RecordedInv
<1>7. NoneAlone'
  <2> SUFFICES ASSUME NEW j \in FileIds PROVE HasFile(j)' /\ HasRecord(j)'
    BY DEF NoneAlone
  <2>0. HasFile(j) /\ HasRecord(j)
    BY DEF NoneAlone
  <2>1. HasFile(j)'
    BY <2>0 DEF HasFile, RecordedInv, UnusedInv, UploadInv, AheadInv
  <2>2. HasRecord(j)'
    BY <2>0 DEF HasRecord, UnusedInv, UploadInv, IdleInv, OwnInv
  <2> QED
    BY <2>1, <2>2
<1> QED
  BY <1>1, <1>2, <1>3, <1>4, <1>5, <1>6, <1>7

LEMMA ChangePathStep ==
  ASSUME IInv, NEW i \in FileIds, NEW file \in FileIds \cup {NoFileId}, ChangePath(i, file)
  PROVE  IInv'
<1> USE FilesAssumption DEF IInv, ChangePath, ByHand, Tells, FilesTypeOK, Uploads, Views,
  Goes, Sees, Records, HadRecord, ByUpload, FileIds, NoFileId
<1>1. FilesTypeOK'
  BY DEF Told
<1>2. UnusedInv'
  BY DEF UnusedInv
<1>3. UploadInv'
  <2>1. IdleInv'
    BY DEF UploadInv, IdleInv
  <2>2. OwnInv'
    BY DEF UploadInv, IdleInv, OwnInv, AheadInv, UnusedInv
  <2>3. AheadInv'
    BY DEF UploadInv, IdleInv, OwnInv, AheadInv, UnusedInv, RecordedInv
  <2> QED
    BY <2>1, <2>2, <2>3 DEF UploadInv
<1>4. RecordedInv'
  BY DEF RecordedInv, UnusedInv, UploadInv, IdleInv, OwnInv, AheadInv
<1>5. ViewInv'
  BY DEF ViewInv, RecordedInv
<1>6. AnswerInv'
  BY DEF AnswerInv, ViewInv, RecordedInv
<1>7. NoneAlone'
  <2> SUFFICES ASSUME NEW j \in FileIds PROVE HasFile(j)' /\ HasRecord(j)'
    BY DEF NoneAlone
  <2>0. HasFile(j) /\ HasRecord(j)
    BY DEF NoneAlone
  <2>1. HasFile(j)'
    BY <2>0 DEF HasFile, RecordedInv, UnusedInv, UploadInv, AheadInv
  <2>2. HasRecord(j)'
    BY <2>0 DEF HasRecord, UnusedInv, UploadInv, IdleInv, OwnInv
  <2> QED
    BY <2>1, <2>2
<1> QED
  BY <1>1, <1>2, <1>3, <1>4, <1>5, <1>6, <1>7

LEMMA DestroyRecordStep ==
  ASSUME IInv, NEW i \in FileIds, DestroyRecord(i)
  PROVE  IInv'
<1> USE FilesAssumption DEF IInv, DestroyRecord, Tells, FilesTypeOK, Uploads, Views,
  Goes, Sees, Records, HadRecord, ByUpload, FileIds, NoFileId
<1>1. FilesTypeOK'
  BY DEF Told
<1>2. UnusedInv'
  BY DEF UnusedInv
<1>3. UploadInv'
  <2>1. IdleInv'
    BY DEF UploadInv, IdleInv
  <2>2. OwnInv'
    BY DEF UploadInv, IdleInv, OwnInv, AheadInv, UnusedInv
  <2>3. AheadInv'
    BY DEF UploadInv, IdleInv, OwnInv, AheadInv, UnusedInv, RecordedInv
  <2> QED
    BY <2>1, <2>2, <2>3 DEF UploadInv
<1>4. RecordedInv'
  BY DEF RecordedInv, UnusedInv, UploadInv, IdleInv, OwnInv, AheadInv
<1>5. ViewInv'
  BY DEF ViewInv, RecordedInv
<1>6. AnswerInv'
  BY DEF AnswerInv, ViewInv, RecordedInv
<1>7. NoneAlone'
  <2> SUFFICES ASSUME NEW j \in FileIds PROVE HasFile(j)' /\ HasRecord(j)'
    BY DEF NoneAlone
  <2>0. HasFile(j) /\ HasRecord(j)
    BY DEF NoneAlone
  <2>1. HasFile(j)'
    BY <2>0 DEF HasFile, RecordedInv, UnusedInv, UploadInv, AheadInv
  <2>2. HasRecord(j)'
    BY <2>0 DEF HasRecord, UnusedInv, UploadInv, IdleInv, OwnInv
  <2> QED
    BY <2>1, <2>2
<1> QED
  BY <1>1, <1>2, <1>3, <1>4, <1>5, <1>6, <1>7

LEMMA FindRecordStep ==
  ASSUME IInv, NEW v \in Viewers, NEW i \in FileIds, FindRecord(v, i)
  PROVE  IInv'
<1> USE FilesAssumption DEF IInv, FindRecord, Watching, FilesTypeOK, Uploads, Views,
  Goes, Sees, Records, HadRecord, ByUpload, FileIds, NoFileId
<1>1. FilesTypeOK'
  BY DEF Told
<1>2. UnusedInv'
  BY DEF UnusedInv
<1>3. UploadInv'
  <2>1. IdleInv'
    BY DEF UploadInv, IdleInv
  <2>2. OwnInv'
    BY DEF UploadInv, IdleInv, OwnInv, AheadInv, UnusedInv
  <2>3. AheadInv'
    BY DEF UploadInv, IdleInv, OwnInv, AheadInv, UnusedInv, RecordedInv
  <2> QED
    BY <2>1, <2>2, <2>3 DEF UploadInv
<1>4. RecordedInv'
  BY DEF RecordedInv, UnusedInv, UploadInv, IdleInv, OwnInv, AheadInv
<1>5. ViewInv'
  <2>1. path[i] \in FileIds /\ (ByUpload(i) => HadRecord(i) /\ path[i] = i)
    BY DEF RecordedInv
  <2> QED
    BY <2>1 DEF ViewInv
<1>6. AnswerInv'
  BY DEF AnswerInv, ViewInv, RecordedInv
<1>7. NoneAlone'
  <2> SUFFICES ASSUME NEW j \in FileIds PROVE HasFile(j)' /\ HasRecord(j)'
    BY DEF NoneAlone
  <2>0. HasFile(j) /\ HasRecord(j)
    BY DEF NoneAlone
  <2>1. HasFile(j)'
    BY <2>0 DEF HasFile, RecordedInv, UnusedInv, UploadInv, AheadInv
  <2>2. HasRecord(j)'
    BY <2>0 DEF HasRecord, UnusedInv, UploadInv, IdleInv, OwnInv
  <2> QED
    BY <2>1, <2>2
<1> QED
  BY <1>1, <1>2, <1>3, <1>4, <1>5, <1>6, <1>7

LEMMA FindNoRecordStep ==
  ASSUME IInv, NEW v \in Viewers, NEW i \in FileIds, FindNoRecord(v, i)
  PROVE  IInv'
<1> USE FilesAssumption DEF IInv, FindNoRecord, FilesTypeOK, Uploads, Views,
  Goes, Sees, Records, HadRecord, ByUpload, FileIds, NoFileId
<1>1. FilesTypeOK'
  BY DEF Told
<1>2. UnusedInv'
  BY DEF UnusedInv
<1>3. UploadInv'
  <2>1. IdleInv'
    BY DEF UploadInv, IdleInv
  <2>2. OwnInv'
    BY DEF UploadInv, IdleInv, OwnInv, AheadInv, UnusedInv
  <2>3. AheadInv'
    BY DEF UploadInv, IdleInv, OwnInv, AheadInv, UnusedInv, RecordedInv
  <2> QED
    BY <2>1, <2>2, <2>3 DEF UploadInv
<1>4. RecordedInv'
  BY DEF RecordedInv, UnusedInv, UploadInv, IdleInv, OwnInv, AheadInv
<1>5. ViewInv'
  BY DEF ViewInv, RecordedInv
<1>6. AnswerInv'
  BY DEF AnswerInv, ViewInv, RecordedInv
<1>7. NoneAlone'
  <2> SUFFICES ASSUME NEW j \in FileIds PROVE HasFile(j)' /\ HasRecord(j)'
    BY DEF NoneAlone
  <2>0. HasFile(j) /\ HasRecord(j)
    BY DEF NoneAlone
  <2>1. HasFile(j)'
    BY <2>0 DEF HasFile, RecordedInv, UnusedInv, UploadInv, AheadInv
  <2>2. HasRecord(j)'
    BY <2>0 DEF HasRecord, UnusedInv, UploadInv, IdleInv, OwnInv
  <2> QED
    BY <2>1, <2>2
<1> QED
  BY <1>1, <1>2, <1>3, <1>4, <1>5, <1>6, <1>7

LEMMA StatFileStep ==
  ASSUME IInv, NEW v \in Viewers, StatFile(v)
  PROVE  IInv'
<1> USE FilesAssumption DEF IInv, StatFile, FilesTypeOK, Uploads, Views,
  Goes, Sees, Records, HadRecord, ByUpload, FileIds, NoFileId
<1>1. FilesTypeOK'
  BY DEF Told
<1>2. UnusedInv'
  BY DEF UnusedInv
<1>3. UploadInv'
  <2>1. IdleInv'
    BY DEF UploadInv, IdleInv
  <2>2. OwnInv'
    BY DEF UploadInv, IdleInv, OwnInv, AheadInv, UnusedInv
  <2>3. AheadInv'
    BY DEF UploadInv, IdleInv, OwnInv, AheadInv, UnusedInv, RecordedInv
  <2> QED
    BY <2>1, <2>2, <2>3 DEF UploadInv
<1>4. RecordedInv'
  BY DEF RecordedInv, UnusedInv, UploadInv, IdleInv, OwnInv, AheadInv
<1>5. ViewInv'
  BY DEF ViewInv, RecordedInv
<1>6. AnswerInv'
  BY DEF AnswerInv, ViewInv, RecordedInv
<1>7. NoneAlone'
  <2> SUFFICES ASSUME NEW j \in FileIds PROVE HasFile(j)' /\ HasRecord(j)'
    BY DEF NoneAlone
  <2>0. HasFile(j) /\ HasRecord(j)
    BY DEF NoneAlone
  <2>1. HasFile(j)'
    BY <2>0 DEF HasFile, RecordedInv, UnusedInv, UploadInv, AheadInv
  <2>2. HasRecord(j)'
    BY <2>0 DEF HasRecord, UnusedInv, UploadInv, IdleInv, OwnInv
  <2> QED
    BY <2>1, <2>2
<1> QED
  BY <1>1, <1>2, <1>3, <1>4, <1>5, <1>6, <1>7

LEMMA ServeFileStep ==
  ASSUME IInv, NEW v \in Viewers, ServeFile(v)
  PROVE  IInv'
<1> USE FilesAssumption DEF IInv, ServeFile, FilesTypeOK, Uploads, Views,
  Goes, Sees, Records, HadRecord, ByUpload, FileIds, NoFileId
<1>0. view[v].file \in FileIds /\ disk[view[v].file] \in {"none", "part", "whole"}
  BY DEF ViewInv
<1>1. FilesTypeOK'
  BY <1>0 DEF Told
<1>2. UnusedInv'
  BY DEF UnusedInv
<1>3. UploadInv'
  <2>1. IdleInv'
    BY DEF UploadInv, IdleInv
  <2>2. OwnInv'
    BY DEF UploadInv, IdleInv, OwnInv, AheadInv, UnusedInv
  <2>3. AheadInv'
    BY DEF UploadInv, IdleInv, OwnInv, AheadInv, UnusedInv, RecordedInv
  <2> QED
    BY <2>1, <2>2, <2>3 DEF UploadInv
<1>4. RecordedInv'
  BY DEF RecordedInv, UnusedInv, UploadInv, IdleInv, OwnInv, AheadInv
<1>5. ViewInv'
  BY DEF ViewInv, RecordedInv
<1>6. AnswerInv'
  BY DEF AnswerInv, ViewInv, RecordedInv
<1>7. NoneAlone'
  <2> SUFFICES ASSUME NEW j \in FileIds PROVE HasFile(j)' /\ HasRecord(j)'
    BY DEF NoneAlone
  <2>0. HasFile(j) /\ HasRecord(j)
    BY DEF NoneAlone
  <2>1. HasFile(j)'
    BY <1>0, <2>0 DEF HasFile, RecordedInv, UnusedInv, UploadInv, AheadInv
  <2>2. HasRecord(j)'
    BY <1>0, <2>0 DEF HasRecord, UnusedInv, UploadInv, IdleInv, OwnInv
  <2> QED
    BY <2>1, <2>2
<1> QED
  BY <1>1, <1>2, <1>3, <1>4, <1>5, <1>6, <1>7

LEMMA ForgetStep ==
  ASSUME IInv, NEW v \in Viewers, Forget(v)
  PROVE  IInv'
<1> USE FilesAssumption DEF IInv, Forget, Watching, FilesTypeOK, Uploads, Views,
  Goes, Sees, Records, HadRecord, ByUpload, FileIds, NoFileId
<1>1. FilesTypeOK'
  BY DEF Told
<1>2. UnusedInv'
  BY DEF UnusedInv
<1>3. UploadInv'
  <2>1. IdleInv'
    BY DEF UploadInv, IdleInv
  <2>2. OwnInv'
    BY DEF UploadInv, IdleInv, OwnInv, AheadInv, UnusedInv
  <2>3. AheadInv'
    BY DEF UploadInv, IdleInv, OwnInv, AheadInv, UnusedInv, RecordedInv
  <2> QED
    BY <2>1, <2>2, <2>3 DEF UploadInv
<1>4. RecordedInv'
  BY DEF RecordedInv, UnusedInv, UploadInv, IdleInv, OwnInv, AheadInv
<1>5. ViewInv'
  BY DEF ViewInv, RecordedInv
<1>6. AnswerInv'
  BY DEF AnswerInv, ViewInv, RecordedInv
<1>7. NoneAlone'
  <2> SUFFICES ASSUME NEW j \in FileIds PROVE HasFile(j)' /\ HasRecord(j)'
    BY DEF NoneAlone
  <2>0. HasFile(j) /\ HasRecord(j)
    BY DEF NoneAlone
  <2>1. HasFile(j)'
    BY <2>0 DEF HasFile, RecordedInv, UnusedInv, UploadInv, AheadInv
  <2>2. HasRecord(j)'
    BY <2>0 DEF HasRecord, UnusedInv, UploadInv, IdleInv, OwnInv
  <2> QED
    BY <2>1, <2>2
<1> QED
  BY <1>1, <1>2, <1>3, <1>4, <1>5, <1>6, <1>7

LEMMA DieStep ==
  ASSUME IInv, Die
  PROVE  IInv'
<1> USE FilesAssumption DEF IInv, Die, Trouble, Resting, Watching, FilesTypeOK, Uploads, Views,
  Goes, Sees, Records, HadRecord, ByUpload, FileIds, NoFileId
<1>1. FilesTypeOK'
  BY DEF Told
<1>2. UnusedInv'
  BY DEF UnusedInv
<1>3. UploadInv'
  <2>1. IdleInv'
    BY DEF UploadInv, IdleInv
  <2>2. OwnInv'
    BY DEF UploadInv, IdleInv, OwnInv, AheadInv, UnusedInv
  <2>3. AheadInv'
    BY DEF UploadInv, IdleInv, OwnInv, AheadInv, UnusedInv, RecordedInv
  <2> QED
    BY <2>1, <2>2, <2>3 DEF UploadInv
<1>4. RecordedInv'
  BY DEF RecordedInv, UnusedInv, UploadInv, IdleInv, OwnInv, AheadInv
<1>5. ViewInv'
  BY DEF ViewInv, RecordedInv
<1>6. AnswerInv'
  BY DEF AnswerInv, ViewInv, RecordedInv
<1>7. NoneAlone'
  <2> SUFFICES ASSUME NEW j \in FileIds PROVE HasFile(j)' /\ HasRecord(j)'
    BY DEF NoneAlone
  <2>0. HasFile(j) /\ HasRecord(j)
    BY DEF NoneAlone
  <2>1. HasFile(j)'
    BY <2>0 DEF HasFile, RecordedInv, UnusedInv, UploadInv, AheadInv
  <2>2. HasRecord(j)'
    BY <2>0 DEF HasRecord, UnusedInv, UploadInv, IdleInv, OwnInv
  <2> QED
    BY <2>1, <2>2
<1> QED
  BY <1>1, <1>2, <1>3, <1>4, <1>5, <1>6, <1>7

LEMMA StutterStep ==
  ASSUME IInv, UNCHANGED fileVars
  PROVE  IInv'
<1> USE DEF IInv, fileVars, Uploads, Views, HadRecord, ByUpload
<1>1. FilesTypeOK' /\ UnusedInv'
  BY DEF FilesTypeOK, UnusedInv
<1>2. UploadInv'
  BY DEF UploadInv, IdleInv, OwnInv, AheadInv
<1>3. RecordedInv' /\ ViewInv' /\ AnswerInv'
  BY DEF RecordedInv, ViewInv, AnswerInv
<1>4. NoneAlone'
  BY DEF NoneAlone, HasFile, HasRecord
<1> QED
  BY <1>1, <1>2, <1>3, <1>4

\* The invariant is inductive.
THEOREM Inductive == FilesSpec => []IInv
<1>1. ASSUME IInv, [FilesNext]_fileVars PROVE IInv'
  BY <1>1, StutterStep, CreateFileStep, CreateFileFailsStep, CopyAllStep, CopyBreaksStep,
    CloseBreaksStep, CreateRecordStep, RecordFailsStep, RemoveFileStep, RemoveFailsStep,
    RecordRefusedStep, MakeRecordStep, ChangePathStep, DestroyRecordStep, FindRecordStep, FindNoRecordStep, StatFileStep,
    ServeFileStep, ForgetStep, DieStep
  DEF FilesNext
<1> QED
  BY Initially, <1>1, PTL DEF FilesSpec

\* What is served is all that was uploaded, and file and record are those of each
\* other, whatever fails or stops (Database.SaveFileObject, OpenFileObject).
THEOREM FilesAreWhole == FilesSpec => []FilesHold
<1>1. IInv => FilesHold
  BY DEF IInv, FilesHold, ServedWhole, AnswerInv, RecordedInv, FilesTypeOK, FileIds, HadRecord
<1> QED
  BY Inductive, <1>1, PTL

-----------------------------------------------------------------------------
(***************************************************************************)
(* NestedWrites.                                                           *)
(***************************************************************************)
\* Link <<p, s, t>> is kept.
Has(links, p, s, t) == <<p, s, t>> \in links

Places == FieldNames \cup {Place(f) : f \in RelFields}

WriteType ==
  [at : {"idle", "resolve", "associate"}, op : {"none", "create", "update", "updateWhere"},
   rows : SUBSET Sources,
   values : [RelFields -> [given : BOOLEAN, ids : SUBSET Targets, new : 0..1]],
   todo : SUBSET RelFields, columns : SUBSET (FieldNames \X SUBSET Targets),
   made : [RelFields -> SUBSET Targets], whole : SUBSET RelFields, staged : Tables]

NestedTypes == kept \in Tables /\ write \in WriteType

\* The targets that a field is to show, and the columns that this is written to.
LinkedTo(f) == write.values[f].ids \cup write.made[f]
ColumnsOf(f) == IF LinkedTo(f) = {} THEN {f} ELSE {f, Place(f)}

\* Every write but an Update by filter has one row.
RowsInv ==
  write.at # "idle" /\ write.op # "updateWhere" => \E s \in Sources : write.rows = {s}

ValuesInv == \A f \in RelFields : write.values[f] \in Values(f) \cup {Omitted}

\* Nothing is deleted, and what is created is there.
ThereInv ==
  write.at # "idle" =>
    /\ kept.there \subseteq write.staged.there
    /\ \A f \in RelFields : write.made[f] \subseteq write.staged.there

\* Until the row is written no link is.  The columns are those of the fields that
\* have been resolved.
Resolved(f) == f \in Given /\ Kind[f] \in InColumn /\ f \notin write.todo

ResolveInv ==
  write.at = "resolve" =>
    /\ write.staged.links = kept.links
    /\ \A f \in write.todo : f \in Given /\ Kind[f] \in InColumn
    /\ \A c \in write.columns :
         \E f \in RelFields : Resolved(f) /\ c[1] \in ColumnsOf(f) /\ c[2] = LinkedTo(f)
    /\ \A f \in RelFields : Resolved(f) =>
         /\ \A p \in ColumnsOf(f) \cap FieldNames : <<p, LinkedTo(f)>> \in write.columns
         /\ Kind[f] = "belongsTo" /\ write.values[f] # Null => LinkedTo(f) # {}

\* After it, a field that has been dealt with has the links that it was given.
Settled(f) ==
  \A s \in write.rows, t \in Targets : Has(write.staged.links, Place(f), s, t) <=> t \in LinkedTo(f)

AssociateInv ==
  write.at = "associate" =>
    /\ \A f \in write.todo : f \in Given /\ Kind[f] \notin InColumn
    /\ write.op = "updateWhere" => write.todo = {}
    /\ \A f \in RelFields :
         f \in Given /\ f \notin write.todo /\ f \in write.whole /\ Heeded(f) /\ ~Contested(f)
           /\ ~Detached(f) => Settled(f)

\* What is kept in other places stays; of other records, all but what is moved.
FrameInv ==
  write.at # "idle" =>
    \A p \in Places, s \in Sources, t \in Targets :
      Has(kept.links, p, s, t) /\ ~Has(write.staged.links, p, s, t) =>
        /\ \E f \in Given : p = f \/ p = Place(f)
        /\ s \in write.rows \/ \E f \in Given : t \in write.values[f].ids

NestedInvar ==
  /\ NestedTypes /\ RowsInv /\ ValuesInv /\ ThereInv /\ ResolveInv /\ AssociateInv /\ FrameInv

-----------------------------------------------------------------------------
\* A link is in a place, from a source to a target.
LEMMA LinkParts ==
  ASSUME NEW l \in Link
  PROVE l = <<l[1], l[2], l[3]>> /\ l[1] \in Places /\ l[2] \in Sources /\ l[3] \in Targets
BY DEF Link, Places

\* And whatever is made of these is a link.
LEMMA LinkMade ==
  ASSUME NEW p \in Places, NEW s \in Sources, NEW t \in Targets
  PROVE <<p, s, t>> \in Link
BY DEF Link, Places

\* A value that names targets is well formed.
LEMMA NamedTyped ==
  ASSUME NEW ids \in SUBSET Targets, NEW n \in 0..1
  PROVE Named(ids, n) \in [given : BOOLEAN, ids : SUBSET Targets, new : 0..1] /\ Named(ids, n).given
BY DEF Named

\* What may be given for a field is.
LEMMA ValuesTyped ==
  ASSUME NEW f \in RelFields, NEW x \in Values(f)
  PROVE x \in [given : BOOLEAN, ids : SUBSET Targets, new : 0..1] /\ x.given
<1>1. CASE Kind[f] = "belongsTo"
  <2>1. x = Null \/ x = Named({}, 1) \/ \E t \in Targets : x = Named({t}, 0)
    BY <1>1 DEF Values
  <2>2. {} \in SUBSET Targets /\ \A t \in Targets : {t} \in SUBSET Targets
    OBVIOUS
  <2>3. CASE x = Null \/ x = Named({}, 1)
    BY <2>2, <2>3, NamedTyped DEF Null
  <2>4. CASE \E t \in Targets : x = Named({t}, 0)
    <3>1. PICK t \in Targets : x = Named({t}, 0)
      BY <2>4
    <3>2. {t} \in SUBSET Targets /\ 0 \in 0..1
      OBVIOUS
    <3> DEFINE ids == {t}
    <3>3. ids \in SUBSET Targets /\ x = Named(ids, 0)
      BY <3>1, <3>2
    <3> HIDE DEF ids
    <3> QED
      BY <3>2, <3>3, NamedTyped
  <2> QED
    BY <2>1, <2>3, <2>4
<1>2. CASE Kind[f] # "belongsTo"
  <2>1. PICK l \in Lists : x = Named(l[1], l[2])
    BY <1>2 DEF Values
  <2>2. l[1] \in SUBSET Targets /\ l[2] \in 0..1
    BY NestedAssumption
  <2> DEFINE ids == l[1]
             n == l[2]
  <2>3. ids \in SUBSET Targets /\ n \in 0..1 /\ x = Named(ids, n)
    BY <2>1, <2>2
  <2> HIDE DEF ids, n
  <2> QED
    BY <2>3, NamedTyped
<1> QED
  BY <1>1, <1>2

\* What a belongsTo is given names no target only if it is null or one is created.
LEMMA BelongsToNames ==
  ASSUME NEW f \in RelFields, NEW x \in Values(f), Kind[f] = "belongsTo", x # Null, x.ids = {}
  PROVE x.new = 1
<1>1. x = Null \/ x = Named({}, 1) \/ \E t \in Targets : x = Named({t}, 0)
  BY DEF Values
<1> QED
  BY <1>1 DEF Named

\* A relation that is kept in a column is kept in a place, and so is every column.
LEMMA PlaceFacts ==
  ASSUME NEW f \in RelFields
  PROVE /\ Place(f) \in Places /\ FieldNames \subseteq Places
        /\ Kind[f] \in InColumn => f \in FieldNames
        /\ Kind[f] = "belongsToManyArray" => Place(f) = f
BY NestedAssumption DEF Places, Place

\* What there is after the row is written: its columns have what they are given, and
\* everything else is as it was.
WrittenHas(links, columns, rows, p, s, t) ==
  Has(Written(links, columns, rows), p, s, t) <=>
    \/ Has(links, p, s, t) /\ ~(s \in rows /\ \E c \in columns : c[1] = p)
    \/ s \in rows /\ \E c \in columns : c[1] = p /\ t \in c[2]

\* That is what is written.
LEMMA WrittenIs ==
  ASSUME NEW links \in SUBSET Link, NEW columns \in SUBSET (FieldNames \X SUBSET Targets),
         NEW rows \in SUBSET Sources
  PROVE /\ Written(links, columns, rows) \in SUBSET Link
        /\ \A p \in Places, s \in Sources, t \in Targets :
             WrittenHas(links, columns, rows, p, s, t)
<1> DEFINE Cells(c) == {<<c[1], s, t>> : s \in rows, t \in c[2]}
           Cleaned == {l \in links : ~(l[2] \in rows /\ \E c \in columns : c[1] = l[1])}
<1>1. Written(links, columns, rows) = Cleaned \cup UNION {Cells(c) : c \in columns}
  BY DEF Written
<1>2. \A l : \A c \in columns : l \in Cells(c) <=> \E s \in rows, t \in c[2] : l = <<c[1], s, t>>
  <2> SUFFICES ASSUME NEW c \in columns, NEW l
               PROVE l \in Cells(c) <=> \E s \in rows, t \in c[2] : l = <<c[1], s, t>>
    OBVIOUS
  <2> DEFINE Cell(s, t) == <<c[1], s, t>>
             all == c[2]
  <2>1. Cells(c) = {Cell(s, t) : s \in rows, t \in all}
    OBVIOUS
  <2> HIDE DEF Cells, Cell, all
  <2>2. l \in Cells(c) <=> \E s \in rows, t \in all : l = Cell(s, t)
    BY <2>1
  <2> QED
    BY <2>2 DEF Cell, all
<1>3. \A c \in columns : c[1] \in FieldNames /\ c[2] \in SUBSET Targets
  OBVIOUS
<1>4. \A l : l \in Cleaned <=> l \in links /\ ~(l[2] \in rows /\ \E c \in columns : c[1] = l[1])
  OBVIOUS
<1> HIDE DEF Cells, Cleaned
<1>5. \A l : l \in Written(links, columns, rows) <=> l \in Cleaned \/ \E c \in columns : l \in Cells(c)
  BY <1>1
<1>6. Written(links, columns, rows) \in SUBSET Link
  <2> SUFFICES ASSUME NEW l \in Written(links, columns, rows) PROVE l \in Link
    OBVIOUS
  <2>1. CASE l \in Cleaned
    BY <1>4, <2>1
  <2>2. CASE \E c \in columns : l \in Cells(c)
    <3>0. PICK c \in columns : l \in Cells(c)
      BY <2>2
    <3>1. PICK s \in rows, t \in c[2] : l = <<c[1], s, t>>
      BY <1>2, <3>0
    <3>2. c[1] \in Places /\ s \in Sources /\ t \in Targets
      BY <1>3 DEF Places
    <3> QED
      BY <3>1, <3>2, LinkMade
  <2> QED
    BY <1>5, <2>1, <2>2
<1>7. ASSUME NEW p \in Places, NEW s \in Sources, NEW t \in Targets
      PROVE WrittenHas(links, columns, rows, p, s, t)
  <2> DEFINE l == <<p, s, t>>
  <2>1. l[1] = p /\ l[2] = s /\ l[3] = t
    OBVIOUS
  <2>2. l \in Cleaned <=> l \in links /\ ~(s \in rows /\ \E c \in columns : c[1] = p)
    BY <1>4, <2>1
  <2>3. \A c \in columns : l \in Cells(c) <=> s \in rows /\ c[1] = p /\ t \in c[2]
    <3> SUFFICES ASSUME NEW c \in columns
                 PROVE l \in Cells(c) <=> s \in rows /\ c[1] = p /\ t \in c[2]
      OBVIOUS
    <3>1. l \in Cells(c) <=> \E x \in rows, y \in c[2] : l = <<c[1], x, y>>
      BY <1>2
    <3> QED
      BY <3>1
  <2> HIDE DEF l
  <2>4. l \in Written(links, columns, rows) <=> l \in Cleaned \/ \E c \in columns : l \in Cells(c)
    BY <1>5
  <2>5. Has(links, p, s, t) <=> l \in links
    BY DEF Has, l
  <2>6. Has(Written(links, columns, rows), p, s, t) <=> l \in Written(links, columns, rows)
    BY DEF Has, l
  <2> QED
    BY <2>2, <2>3, <2>4, <2>5, <2>6 DEF WrittenHas
<1> QED
  BY <1>6, <1>7

\* The links of a source in a place, and of a target.
LEMMA RowIs ==
  ASSUME NEW links \in SUBSET Link, NEW p \in Places, NEW s \in Sources
  PROVE /\ InRow(links, p, s) \in SUBSET links
        /\ \A q \in Places, x \in Sources, t \in Targets :
             Has(InRow(links, p, s), q, x, t) <=> Has(links, q, x, t) /\ q = p /\ x = s
        /\ IsFiniteSet(InRow(links, p, s))
<1>1. InRow(links, p, s) \in SUBSET links
  BY DEF InRow
<1>2. ASSUME NEW q \in Places, NEW x \in Sources, NEW t \in Targets
      PROVE Has(InRow(links, p, s), q, x, t) <=> Has(links, q, x, t) /\ q = p /\ x = s
  <2> DEFINE l == <<q, x, t>>
  <2>1. l[1] = q /\ l[2] = x
    OBVIOUS
  <2> HIDE DEF l
  <2>2. l \in InRow(links, p, s) <=> l \in links /\ q = p /\ x = s
    BY <2>1 DEF InRow
  <2> QED
    BY <2>2 DEF Has, l
<1>3. IsFiniteSet(InRow(links, p, s))
  <2> DEFINE there == {t \in Targets : Has(links, p, s, t)}
             row == [t \in there |-> <<p, s, t>>]
  <2>1. IsFiniteSet(there)
    BY NestedAssumption, FS_Subset
  <2>2. ASSUME NEW l \in InRow(links, p, s)
        PROVE \E t \in there : row[t] = l
    <3>1. l \in links /\ l[1] = p /\ l[2] = s
      BY <2>2 DEF InRow
    <3>2. l = <<l[1], l[2], l[3]>> /\ l[3] \in Targets
      BY <3>1, LinkParts
    <3>3. l = <<p, s, l[3]>>
      BY <3>1, <3>2
    <3>4. l[3] \in there
      BY <3>1, <3>2, <3>3 DEF Has
    <3> QED
      BY <3>3, <3>4
  <2>3. ASSUME NEW t \in there PROVE row[t] \in InRow(links, p, s)
    <3>1. <<p, s, t>> \in links /\ <<p, s, t>>[1] = p /\ <<p, s, t>>[2] = s
      BY DEF Has
    <3> QED
      BY <3>1 DEF InRow
  <2>4. row \in Surjection(there, InRow(links, p, s))
    <3>1. row \in [there -> InRow(links, p, s)]
      BY <2>3
    <3> HIDE DEF row, there
    <3> QED
      BY <2>2, <3>1 DEF Surjection
  <2> HIDE DEF row, there
  <2> QED
    BY <2>1, <2>4, FS_Surjection
<1> QED
  BY <1>1, <1>2, <1>3

\* What is cleared is of this source and place, and all of it when it fits a page.
LEMMA ClearedIs ==
  ASSUME NEW links \in SUBSET Link, NEW f \in RelFields, NEW s \in Sources,
         NEW cleared \in Cleared(links, f, s)
  PROVE /\ cleared \in SUBSET InRow(links, Place(f), s)
        /\ Fits(links, f, s) => cleared = InRow(links, Place(f), s)
<1> DEFINE old == InRow(links, Place(f), s)
           size == IF Cardinality(old) < MaxLinked THEN Cardinality(old) ELSE MaxLinked
<1>1. IsFiniteSet(old) /\ Cardinality(old) \in Nat
  BY PlaceFacts, RowIs, FS_CardinalityType
<1>2. CASE Kind[f] \in OneEach
  <2>1. cleared \in SUBSET old /\ Cardinality(cleared) = size
    BY <1>2 DEF Cleared
  <2>2. Fits(links, f, s) => Cardinality(old) <= MaxLinked
    BY <1>2 DEF Fits
  <2>3. Fits(links, f, s) => size = Cardinality(old)
    BY <1>1, <2>2, NestedAssumption
  <2> HIDE DEF old, size
  <2>4. Cardinality(old) = Cardinality(cleared) => old = cleared
    BY <1>1, <2>1, FS_Subset
  <2>5. Fits(links, f, s) => cleared = old
    BY <2>1, <2>3, <2>4
  <2> QED
    BY <2>1, <2>5 DEF old
<1>3. CASE Kind[f] \notin OneEach
  BY <1>3 DEF Cleared
<1> QED
  BY <1>2, <1>3

\* The links after AddAssociation.
LEMMA LinkedIs ==
  ASSUME NEW links \in SUBSET Link, NEW f \in RelFields, NEW s \in Sources, NEW ids \in SUBSET Targets
  PROVE /\ Linked(links, f, s, ids) \in SUBSET Link
        /\ \A p \in Places, x \in Sources, t \in Targets :
             Has(Linked(links, f, s, ids), p, x, t) <=>
               \/ p = Place(f) /\ x = s /\ t \in ids
               \/ Has(links, p, x, t) /\ ~(Kind[f] \in OneEach /\ p = Place(f) /\ t \in ids)
<1> DEFINE New == {<<Place(f), s, t>> : t \in ids}
           Moved == UNION {InTarget(links, Place(f), t) : t \in ids}
           Rest == IF Kind[f] \in OneEach THEN links \ Moved ELSE links
<1>1. Linked(links, f, s, ids) = Rest \cup New
  BY DEF Linked
<1>2. New \in SUBSET Link
  BY PlaceFacts, LinkMade
<1>3. ASSUME NEW p \in Places, NEW x \in Sources, NEW t \in Targets
      PROVE /\ <<p, x, t>> \in New <=> p = Place(f) /\ x = s /\ t \in ids
            /\ <<p, x, t>> \in Moved <=> <<p, x, t>> \in links /\ p = Place(f) /\ t \in ids
  <2>1. <<p, x, t>> \in New <=> p = Place(f) /\ x = s /\ t \in ids
    OBVIOUS
  <2> DEFINE l == <<p, x, t>>
  <2>2. l[1] = p /\ l[2] = x /\ l[3] = t
    OBVIOUS
  <2> HIDE DEF l
  <2>3. l \in Moved <=> \E y \in ids : l \in InTarget(links, Place(f), y)
    OBVIOUS
  <2>4. \A y \in ids : l \in InTarget(links, Place(f), y) <=> l \in links /\ p = Place(f) /\ t = y
    BY <2>2 DEF InTarget
  <2>5. l \in Moved <=> l \in links /\ p = Place(f) /\ t \in ids
    BY <2>3, <2>4
  <2> QED
    BY <2>1, <2>5 DEF l
<1>4. Rest \in SUBSET Link
  OBVIOUS
<1>5. \A l : l \in Rest <=> l \in links /\ ~(Kind[f] \in OneEach /\ l \in Moved)
  OBVIOUS
<1> HIDE DEF New, Moved, Rest
<1>6. ASSUME NEW p \in Places, NEW x \in Sources, NEW t \in Targets
      PROVE Has(Linked(links, f, s, ids), p, x, t) <=>
               \/ p = Place(f) /\ x = s /\ t \in ids
               \/ Has(links, p, x, t) /\ ~(Kind[f] \in OneEach /\ p = Place(f) /\ t \in ids)
  BY <1>1, <1>3, <1>5 DEF Has
<1> QED
  BY <1>1, <1>2, <1>4, <1>6

-----------------------------------------------------------------------------
\* What depends on the values of a write only, while they are the same.
LEMMA SameValues ==
  ASSUME write'.values = write.values, write'.op = write.op, NEW f \in RelFields
  PROVE /\ Given' = Given /\ (f \in Given)' = (f \in Given)
        /\ Contested(f)' = Contested(f) /\ Detached(f)' = Detached(f) /\ Heeded(f)' = Heeded(f)
<1>1. Given' = Given
  BY DEF Given
<1>2. Contested(f)' = Contested(f)
  BY <1>1 DEF Contested
<1> QED
  BY <1>1, <1>2 DEF Detached, Heeded

\* No write is under way at first, and all of the invariant is about one.
LEMMA IdleHolds ==
  ASSUME kept \in Tables, write = NotWriting
  PROVE NestedInvar
<1>1. /\ write.at = "idle" /\ write.values = [f \in RelFields |-> Omitted]
  BY DEF NotWriting
<1>2. write \in WriteType
  <2>1. [there |-> {}, links |-> {}] \in Tables
    BY DEF Tables
  <2>2. Omitted \in [given : BOOLEAN, ids : SUBSET Targets, new : 0..1]
    BY DEF Omitted
  <2>3. [f \in RelFields |-> Omitted] \in [RelFields -> [given : BOOLEAN, ids : SUBSET Targets, new : 0..1]]
    BY <2>2
  <2> QED
    BY <2>1, <2>3 DEF NotWriting, WriteType
<1>3. ValuesInv
  BY <1>1 DEF ValuesInv
<1> QED
  BY <1>1, <1>2, <1>3
     DEF NestedInvar, NestedTypes, RowsInv, ThereInv, ResolveInv, AssociateInv, FrameInv

\* The same, to be used of the next state.
LEMMA IdleImplies == kept \in Tables /\ write = NotWriting => NestedInvar
BY IdleHolds

\* A write starts from what is kept, with no column resolved.
LEMMA StartKeeps ==
  ASSUME NestedInvar, StartWrite
  PROVE NestedInvar'
<1>0. kept \in Tables /\ kept' = kept
  BY DEF NestedInvar, NestedTypes, StartWrite
<1>1. PICK op \in {"create", "update", "updateWhere"}, f \in RelFields, g \in RelFields :
        \E x \in Values(f), y \in Values(g), rows \in SUBSET Sources :
          /\ op # "updateWhere" => \E s \in Sources : rows = {s}
          /\ f = g => x = y
          /\ write' = [NotWriting EXCEPT !.at = "resolve", !.op = op, !.rows = rows,
                         !.values = [NotWriting.values EXCEPT ![f] = x, ![g] = y], !.staged = kept,
                         !.todo = {f, g} \cap {h \in RelFields : Kind[h] \in InColumn}]
  <2>1. PICK op \in {"create", "update", "updateWhere"}, f \in RelFields, g \in RelFields :
          \E x \in Values(f), y \in Values(g) :
            LET present == Sources \cap kept.there IN
            \E rows \in CASE op = "create" -> {{s} : s \in Sources \ present}
                          [] op = "update" -> {{s} : s \in present}
                          [] OTHER -> SUBSET present :
              /\ f = g => x = y
              /\ write' = [NotWriting EXCEPT !.at = "resolve", !.op = op, !.rows = rows,
                         !.values = [NotWriting.values EXCEPT ![f] = x, ![g] = y], !.staged = kept,
                         !.todo = {f, g} \cap {h \in RelFields : Kind[h] \in InColumn}]
    BY DEF StartWrite
  <2> DEFINE present == Sources \cap kept.there
             choices == CASE op = "create" -> {{s} : s \in Sources \ present}
                          [] op = "update" -> {{s} : s \in present}
                          [] OTHER -> SUBSET present
  <2>2. ASSUME NEW rows \in choices
        PROVE rows \in SUBSET Sources /\ (op # "updateWhere" => \E s \in Sources : rows = {s})
    <3>1. CASE op = "create"
      BY <3>1
    <3>2. CASE op = "update"
      BY <3>2
    <3>3. CASE op = "updateWhere"
      BY <3>3
    <3> QED
      BY <3>1, <3>2, <3>3
  <2>3. PICK x \in Values(f), y \in Values(g), rows \in choices :
              /\ f = g => x = y
              /\ write' = [NotWriting EXCEPT !.at = "resolve", !.op = op, !.rows = rows,
                         !.values = [NotWriting.values EXCEPT ![f] = x, ![g] = y], !.staged = kept,
                         !.todo = {f, g} \cap {h \in RelFields : Kind[h] \in InColumn}]
    BY <2>1
  <2> HIDE DEF choices, present
  <2> QED
    BY <2>2, <2>3
<1>2. PICK x \in Values(f), y \in Values(g), rows \in SUBSET Sources :
          /\ op # "updateWhere" => \E s \in Sources : rows = {s}
          /\ f = g => x = y
          /\ write' = [NotWriting EXCEPT !.at = "resolve", !.op = op, !.rows = rows,
                         !.values = [NotWriting.values EXCEPT ![f] = x, ![g] = y], !.staged = kept,
                         !.todo = {f, g} \cap {h \in RelFields : Kind[h] \in InColumn}]
  BY <1>1
<1>3. /\ write'.at = "resolve" /\ write'.op = op /\ write'.rows = rows /\ write'.staged = kept
      /\ write'.values = [[h \in RelFields |-> Omitted] EXCEPT ![f] = x, ![g] = y]
      /\ write'.todo = {f, g} \cap {h \in RelFields : Kind[h] \in InColumn}
      /\ write'.columns = {} /\ write'.made = [h \in RelFields |-> {}] /\ write'.whole = RelFields
  BY <1>2 DEF NotWriting
<1>4. \A h \in RelFields :
        write'.values[h] = IF h = g THEN y ELSE IF h = f THEN x ELSE Omitted
  BY <1>3
<1>5. NestedTypes'
  <2>1. Omitted \in [given : BOOLEAN, ids : SUBSET Targets, new : 0..1]
    BY DEF Omitted
  <2>2. write'.values \in [RelFields -> [given : BOOLEAN, ids : SUBSET Targets, new : 0..1]]
    BY <1>3, <2>1, ValuesTyped
  <2>3. write'.todo \in SUBSET RelFields
    BY <1>3
  <2>4. write' = [at |-> "resolve", op |-> op, rows |-> rows, values |-> write'.values,
                  todo |-> write'.todo, columns |-> {}, made |-> [h \in RelFields |-> {}],
                  whole |-> RelFields, staged |-> kept]
    BY <1>2 DEF NotWriting
  <2>5. [h \in RelFields |-> {}] \in [RelFields -> SUBSET Targets]
    OBVIOUS
  <2>6. write' \in WriteType
    BY <1>0, <2>2, <2>3, <2>4, <2>5 DEF WriteType
  <2> QED
    BY <1>0, <2>6 DEF NestedTypes
<1>6. RowsInv'
  BY <1>2, <1>3 DEF RowsInv
<1>7. ValuesInv'
  BY <1>4, <1>2 DEF ValuesInv
<1>8. ThereInv'
  BY <1>0, <1>3 DEF ThereInv
<1>9. ResolveInv'
  <2>1. \A h \in RelFields : (h \in Given)' <=> h = f \/ h = g
    <3>1. x.given /\ y.given /\ ~Omitted.given
      BY <1>2, ValuesTyped DEF Omitted
    <3> QED
      BY <1>2, <1>4, <3>1 DEF Given
  <2>2. \A h \in write'.todo : (h \in Given)' /\ Kind[h] \in InColumn
    BY <1>3, <2>1
  <2>3. \A h \in RelFields : ~Resolved(h)'
    BY <1>3, <2>1 DEF Resolved
  <2> QED
    BY <1>0, <1>3, <2>2, <2>3 DEF ResolveInv
<1>10. AssociateInv'
  BY <1>3 DEF AssociateInv
<1>11. FrameInv'
  BY <1>0, <1>3 DEF FrameInv
<1> QED
  BY <1>5, <1>6, <1>7, <1>8, <1>9, <1>10, <1>11 DEF NestedInvar

\* What is created was not known.
LEMMA CreationsNew ==
  ASSUME NestedTypes, NEW n \in 0..1, NEW ids \in Creations(n)
  PROVE /\ ids \in SUBSET Targets /\ Cardinality(ids) = n
        /\ \A p \in Places, s \in Sources, t \in ids : ~Has(write.staged.links, p, s, t)
<1>1. /\ ids \in SUBSET Targets /\ Cardinality(ids) = n
      /\ ids \cap {l[3] : l \in write.staged.links} = {}
  BY DEF Creations
<1>2. ASSUME NEW p \in Places, NEW s \in Sources, NEW t \in ids, Has(write.staged.links, p, s, t)
      PROVE FALSE
  <2>1. <<p, s, t>>[3] \in {l[3] : l \in write.staged.links}
    BY <1>2 DEF Has
  <2> QED
    BY <1>1, <2>1
<1> QED
  BY <1>1, <1>2

\* A field is resolved: its columns are to have its targets.
LEMMA ResolveKeeps ==
  ASSUME NestedInvar, NEW f \in RelFields, Resolve(f)
  PROVE NestedInvar'
<1>0. /\ NestedTypes /\ write.at = "resolve" /\ f \in write.todo /\ kept' = kept
      /\ f \in Given /\ Kind[f] \in InColumn
  BY DEF NestedInvar, ResolveInv, Resolve
<1> DEFINE v == write.values[f]
<1>1. /\ v \in [given : BOOLEAN, ids : SUBSET Targets, new : 0..1]
      /\ v \in Values(f)
  <2>1. v \in [given : BOOLEAN, ids : SUBSET Targets, new : 0..1]
    BY <1>0 DEF NestedTypes, WriteType
  <2>2. v # Omitted
    BY <1>0 DEF Given, Omitted
  <2> QED
    BY <2>1, <2>2 DEF NestedInvar, ValuesInv
<1>2. PICK ids \in Creations(v.new) :
        LET linked == v.ids \cup ids
            columns == IF linked = {} THEN {f} ELSE {f, Place(f)} IN
        write' = [write EXCEPT !.todo = @ \ {f}, !.made = [write.made EXCEPT ![f] = ids],
                   !.staged = [there |-> @.there \cup ids, links |-> @.links],
                   !.columns = @ \cup ((columns \cap FieldNames) \X {linked})]
  BY DEF Resolve
<1> DEFINE linked == v.ids \cup ids
           columns == IF linked = {} THEN {f} ELSE {f, Place(f)}
           added == (columns \cap FieldNames) \X {linked}
<1>3. ids \in SUBSET Targets /\ Cardinality(ids) = v.new
  BY <1>0, <1>1, <1>2, CreationsNew
<1>4. /\ write.made \in [RelFields -> SUBSET Targets] /\ write.columns \in SUBSET (FieldNames \X SUBSET Targets)
      /\ write.staged \in Tables /\ write.staged.there \in SUBSET (Sources \cup Targets)
      /\ write.staged.links \in SUBSET Link
  BY <1>0 DEF NestedTypes, WriteType, Tables
<1>5. /\ write'.at = write.at /\ write'.op = write.op /\ write'.rows = write.rows
      /\ write'.values = write.values /\ write'.whole = write.whole
      /\ write'.todo = write.todo \ {f}
      /\ write'.made = [write.made EXCEPT ![f] = ids]
      /\ write'.staged = [there |-> write.staged.there \cup ids, links |-> write.staged.links]
      /\ write'.columns = write.columns \cup added
  BY <1>0, <1>2 DEF NestedTypes, WriteType
<1>6. /\ write'.staged.links = write.staged.links
      /\ write'.staged.there = write.staged.there \cup ids
  BY <1>5
<1>7. /\ \A h \in RelFields : write'.made[h] = IF h = f THEN ids ELSE write.made[h]
      /\ \A h \in RelFields : LinkedTo(h)' = IF h = f THEN linked ELSE LinkedTo(h)
  BY <1>4, <1>5 DEF LinkedTo
<1>8. added \in SUBSET (FieldNames \X SUBSET Targets)
  BY <1>1, <1>3
<1>9. NestedTypes'
  <2>1. write'.staged \in Tables
    BY <1>3, <1>4, <1>5 DEF Tables
  <2>2. write'.made \in [RelFields -> SUBSET Targets]
    BY <1>3, <1>4, <1>5
  <2>3. write'.columns \in SUBSET (FieldNames \X SUBSET Targets)
    <3> HIDE DEF added
    <3> QED
      BY <1>4, <1>5, <1>8
  <2>4. write' = [at |-> write.at, op |-> write.op, rows |-> write.rows, values |-> write.values,
                  todo |-> write.todo \ {f}, columns |-> write'.columns, made |-> write'.made,
                  whole |-> write.whole, staged |-> write'.staged]
    <3> HIDE DEF added
    <3> QED
      BY <1>0, <1>2, <1>5 DEF NestedTypes, WriteType
  <2>5. /\ write.at \in {"idle", "resolve", "associate"}
        /\ write.op \in {"none", "create", "update", "updateWhere"} /\ write.rows \in SUBSET Sources
        /\ write.values \in [RelFields -> [given : BOOLEAN, ids : SUBSET Targets, new : 0..1]]
        /\ write.todo \ {f} \in SUBSET RelFields /\ write.whole \in SUBSET RelFields
    BY <1>0 DEF NestedTypes, WriteType
  <2>6. write' \in WriteType
    BY <2>1, <2>2, <2>3, <2>4, <2>5 DEF WriteType
  <2> QED
    BY <1>0, <2>6 DEF NestedTypes
<1>10. RowsInv'
  BY <1>5 DEF NestedInvar, RowsInv
<1>11. ValuesInv'
  BY <1>5 DEF NestedInvar, ValuesInv
<1>12. ThereInv'
  BY <1>0, <1>5, <1>6, <1>7 DEF NestedInvar, ThereInv
<1>13. ResolveInv'
  <2>1. Given' = Given
    BY <1>5 DEF Given
  <2>2. \A h \in RelFields : Resolved(h)' <=> Resolved(h) \/ h = f
    BY <1>0, <1>5, <2>1 DEF Resolved
  <2>3. \A h \in RelFields : Resolved(h) => h # f
    BY <1>0 DEF Resolved
  <2>4. \A h \in RelFields : ColumnsOf(h)' = IF h = f THEN columns ELSE ColumnsOf(h)
    BY <1>7 DEF ColumnsOf
  <2>5. \A c \in write'.columns :
          \E h \in RelFields : Resolved(h)' /\ c[1] \in ColumnsOf(h)' /\ c[2] = LinkedTo(h)'
    <3> SUFFICES ASSUME NEW c \in write'.columns
                 PROVE \E h \in RelFields : Resolved(h)' /\ c[1] \in ColumnsOf(h)' /\ c[2] = LinkedTo(h)'
      OBVIOUS
    <3>1. CASE c \in added
      <4>1. c[1] \in columns /\ c[2] = linked
        BY <3>1
      <4> HIDE DEF linked, columns
      <4> QED
        BY <1>7, <2>2, <2>4, <4>1
    <3>2. CASE c \in write.columns
      <4>1. PICK h \in RelFields : Resolved(h) /\ c[1] \in ColumnsOf(h) /\ c[2] = LinkedTo(h)
        BY <1>0, <3>2 DEF NestedInvar, ResolveInv
      <4>2. h # f
        BY <2>3, <4>1
      <4>3. Resolved(h)' /\ ColumnsOf(h)' = ColumnsOf(h) /\ LinkedTo(h)' = LinkedTo(h)
        BY <1>7, <2>2, <2>4, <4>1, <4>2
      <4>4. c[1] \in ColumnsOf(h)' /\ c[2] = LinkedTo(h)'
        BY <4>1, <4>3
      <4> QED
        BY <4>3, <4>4
    <3> HIDE DEF added
    <3> QED
      BY <1>5, <3>1, <3>2
  <2>6. ASSUME NEW h \in RelFields, Resolved(h)'
        PROVE /\ \A p \in ColumnsOf(h)' \cap FieldNames : <<p, LinkedTo(h)'>> \in write'.columns
              /\ Kind[h] = "belongsTo" /\ write'.values[h] # Null => LinkedTo(h)' # {}
    <3>1. CASE h = f
      <4>1. LinkedTo(h)' = linked /\ ColumnsOf(h)' = columns
        BY <1>7, <2>4, <3>1
      <4>2. \A p \in columns \cap FieldNames : <<p, linked>> \in added
        OBVIOUS
      <4>3. Kind[f] = "belongsTo" /\ v # Null => linked # {}
        <5>1. ASSUME Kind[f] = "belongsTo", v # Null, linked = {} PROVE FALSE
          <6>1. v.ids = {} /\ ids = {}
            BY <5>1
          <6>2. v.new = 1
            BY <1>1, <5>1, <6>1, BelongsToNames
          <6> QED
            BY <1>3, <6>1, <6>2, FS_EmptySet
        <5> QED
          BY <5>1
      <4> HIDE DEF added, linked, columns
      <4> QED
        BY <1>5, <3>1, <4>1, <4>2, <4>3
    <3>2. CASE h # f
      <4>1. Resolved(h) /\ LinkedTo(h)' = LinkedTo(h) /\ ColumnsOf(h)' = ColumnsOf(h)
        BY <1>7, <2>2, <2>4, <2>6, <3>2
      <4>2. /\ \A p \in ColumnsOf(h) \cap FieldNames : <<p, LinkedTo(h)>> \in write.columns
            /\ Kind[h] = "belongsTo" /\ write.values[h] # Null => LinkedTo(h) # {}
        BY <1>0, <4>1 DEF NestedInvar, ResolveInv
      <4> HIDE DEF added
      <4> QED
        BY <1>5, <4>1, <4>2
    <3> QED
      BY <3>1, <3>2
  <2>7. write.staged.links = kept.links /\ \A h \in write.todo : h \in Given /\ Kind[h] \in InColumn
    BY <1>0 DEF NestedInvar, ResolveInv
  <2>8. \A h \in write'.todo : h \in Given' /\ Kind[h] \in InColumn
    BY <1>5, <2>1, <2>7
  <2>9. write'.staged.links = kept'.links
    BY <1>0, <1>6, <2>7
  <2> QED
    BY <2>5, <2>6, <2>8, <2>9 DEF ResolveInv
<1>14. AssociateInv'
  BY <1>0, <1>5 DEF AssociateInv
<1>15. FrameInv'
  <2>1. Given' = Given
    BY <1>5 DEF Given
  <2>2. \A p \in Places, s \in Sources, t \in Targets :
          Has(kept'.links, p, s, t) => Has(write'.staged.links, p, s, t)
    BY <1>0, <1>6 DEF NestedInvar, ResolveInv
  <2> QED
    BY <2>2 DEF FrameInv
<1> QED
  BY <1>9, <1>10, <1>11, <1>12, <1>13, <1>14, <1>15 DEF NestedInvar

\* The row is written: every field that is kept in a column is settled.
LEMMA WriteRowKeeps ==
  ASSUME NestedInvar, WriteRow
  PROVE NestedInvar'
<1>0. /\ NestedTypes /\ write.at = "resolve" /\ write.todo = {} /\ kept' = kept
      /\ write.staged.links = kept.links
  BY DEF NestedInvar, ResolveInv, WriteRow
<1> DEFINE links == write.staged.links
           new == Written(links, write.columns, write.rows)
           rest == IF write.op = "updateWhere" THEN {}
                   ELSE {f \in RelFields : write.values[f].given /\ Kind[f] \notin InColumn}
<1>1. /\ links \in SUBSET Link /\ write.columns \in SUBSET (FieldNames \X SUBSET Targets)
      /\ write.rows \in SUBSET Sources /\ write.staged.there \in SUBSET (Sources \cup Targets)
      /\ write.made \in [RelFields -> SUBSET Targets]
  BY <1>0 DEF NestedTypes, WriteType, Tables
<1>2. write' = [write EXCEPT !.at = "associate",
                  !.staged = [there |-> @.there \cup write.rows, links |-> new], !.todo = rest]
  BY DEF WriteRow
<1>3. /\ write'.at = "associate" /\ write'.op = write.op /\ write'.rows = write.rows
      /\ write'.values = write.values /\ write'.whole = write.whole /\ write'.todo = rest
      /\ write'.made = write.made
      /\ write'.staged = [there |-> write.staged.there \cup write.rows, links |-> new]
  <2> HIDE DEF new, rest
  <2> QED
    BY <1>0, <1>2 DEF NestedTypes, WriteType
<1>4. write'.staged.links = new /\ write'.staged.there = write.staged.there \cup write.rows
  <2> HIDE DEF new
  <2> QED
    BY <1>3
<1>5. /\ new \in SUBSET Link
      /\ \A p \in Places, s \in Sources, t \in Targets :
           Has(new, p, s, t) <=>
             \/ Has(links, p, s, t) /\ ~(s \in write.rows /\ \E c \in write.columns : c[1] = p)
             \/ s \in write.rows /\ \E c \in write.columns : c[1] = p /\ t \in c[2]
  <2> DEFINE columns == write.columns
             rows == write.rows
  <2>1. links \in SUBSET Link /\ columns \in SUBSET (FieldNames \X SUBSET Targets) /\ rows \in SUBSET Sources
    BY <1>1
  <2> HIDE DEF links, columns, rows
  <2>2. /\ Written(links, columns, rows) \in SUBSET Link
        /\ \A p \in Places, s \in Sources, t \in Targets :
             WrittenHas(links, columns, rows, p, s, t)
    BY <2>1, WrittenIs
  <2> QED
    BY <2>2 DEF WrittenHas, columns, rows
<1>6. rest \in SUBSET RelFields
  OBVIOUS
<1>7. \A f \in RelFields : f \in rest <=>
        f \in Given /\ Kind[f] \notin InColumn /\ write.op # "updateWhere"
  BY DEF Given
<1> HIDE DEF new, rest
<1>8. NestedTypes'
  <2>1. write'.staged \in Tables
    BY <1>1, <1>3, <1>5 DEF Tables
  <2>2. write' = [at |-> "associate", op |-> write.op, rows |-> write.rows, values |-> write.values,
                  todo |-> rest, columns |-> write.columns, made |-> write.made,
                  whole |-> write.whole, staged |-> write'.staged]
    BY <1>0, <1>2, <1>3 DEF NestedTypes, WriteType
  <2>3. write' \in WriteType
    BY <1>0, <1>1, <1>6, <2>1, <2>2 DEF NestedTypes, WriteType
  <2> QED
    BY <1>0, <2>3 DEF NestedTypes
<1>9. RowsInv'
  BY <1>0, <1>3 DEF NestedInvar, RowsInv
<1>10. ValuesInv'
  BY <1>3 DEF NestedInvar, ValuesInv
<1>11. ThereInv'
  BY <1>0, <1>3, <1>4 DEF NestedInvar, ThereInv
<1>12. ResolveInv'
  BY <1>3 DEF ResolveInv
<1>13. \A c \in write.columns :
         \E f \in RelFields : Resolved(f) /\ c[1] \in {f, Place(f)} /\ c[2] = LinkedTo(f)
  BY <1>0 DEF NestedInvar, ResolveInv, ColumnsOf
<1>14. Given' = Given
  BY <1>3 DEF Given
<1>15. AssociateInv'
  <2>1. ASSUME NEW f \in RelFields, f \in Given, f \notin rest, Heeded(f), ~Contested(f), ~Detached(f)
        PROVE Settled(f)'
    <3>1. Kind[f] \in InColumn
      BY <1>7, <2>1 DEF Heeded
    <3>2. Resolved(f)
      BY <1>0, <2>1, <3>1 DEF Resolved
    <3>3. \A c \in write.columns : c[1] = Place(f) => c[2] = LinkedTo(f)
      <4> SUFFICES ASSUME NEW c \in write.columns, c[1] = Place(f) PROVE c[2] = LinkedTo(f)
        OBVIOUS
      <4>1. PICK g \in RelFields : Resolved(g) /\ c[1] \in {g, Place(g)} /\ c[2] = LinkedTo(g)
        BY <1>13
      <4>2. g = f
        BY <2>1, <4>1 DEF Contested, Resolved
      <4> QED
        BY <4>1, <4>2
    <3>4. Place(f) \in ColumnsOf(f) \cap FieldNames
      <4>1. f \in FieldNames /\ (Kind[f] = "belongsToManyArray" => Place(f) = f)
        BY <3>1, PlaceFacts
      <4>2. CASE Place(f) = f
        BY <4>1, <4>2 DEF ColumnsOf
      <4>3. CASE Place(f) # f
        <5>1. Kind[f] = "belongsTo"
          BY <3>1, <4>1, <4>3 DEF InColumn
        <5>2. write.values[f] # Null /\ Place(f) \in FieldNames
          BY <2>1, <4>3, <5>1 DEF Detached
        <5>3. LinkedTo(f) # {}
          BY <1>0, <3>2, <5>1, <5>2 DEF NestedInvar, ResolveInv
        <5> QED
          BY <5>2, <5>3 DEF ColumnsOf
      <4> QED
        BY <4>2, <4>3
    <3>5. <<Place(f), LinkedTo(f)>> \in write.columns
      BY <1>0, <3>2, <3>4 DEF NestedInvar, ResolveInv
    <3>6. \E c \in write.columns : c[1] = Place(f) /\ c[2] = LinkedTo(f)
      <4>1. <<Place(f), LinkedTo(f)>>[1] = Place(f) /\ <<Place(f), LinkedTo(f)>>[2] = LinkedTo(f)
        OBVIOUS
      <4> QED
        BY <3>5, <4>1
    <3>7. \A s \in write.rows, t \in Targets : Has(new, Place(f), s, t) <=> t \in LinkedTo(f)
      <4> SUFFICES ASSUME NEW s \in write.rows, NEW t \in Targets
                   PROVE Has(new, Place(f), s, t) <=> t \in LinkedTo(f)
        OBVIOUS
      <4>1. Place(f) \in Places /\ s \in Sources
        BY <1>1, PlaceFacts
      <4>2. Has(new, Place(f), s, t) <=>
              \/ Has(links, Place(f), s, t) /\ ~\E c \in write.columns : c[1] = Place(f)
              \/ \E c \in write.columns : c[1] = Place(f) /\ t \in c[2]
        BY <1>5, <4>1
      <4> QED
        BY <3>3, <3>6, <4>2
    <3>8. LinkedTo(f)' = LinkedTo(f)
      BY <1>3 DEF LinkedTo
    <3> QED
      BY <1>3, <1>4, <3>7, <3>8 DEF Settled
  <2>2. \A f \in RelFields :
          /\ Contested(f)' = Contested(f) /\ Detached(f)' = Detached(f) /\ Heeded(f)' = Heeded(f)
    BY <1>3, SameValues
  <2>3. \A f \in RelFields : (f \in Given)' <=> f \in Given
    BY <1>14
  <2>4. \A f \in RelFields :
          (f \in Given)' /\ f \notin write'.todo /\ f \in write'.whole /\ Heeded(f)'
            /\ ~Contested(f)' /\ ~Detached(f)' => Settled(f)'
    BY <1>3, <2>1, <2>2, <2>3
  <2>5. /\ \A f \in write'.todo : (f \in Given)' /\ Kind[f] \notin InColumn
        /\ write'.op = "updateWhere" => write'.todo = {}
    BY <1>3, <1>6, <1>7, <2>3
  <2> QED
    BY <2>4, <2>5 DEF AssociateInv
<1>16. FrameInv'
  <2>1. ASSUME NEW p \in Places, NEW s \in Sources, NEW t \in Targets,
               Has(kept.links, p, s, t), ~Has(new, p, s, t)
        PROVE s \in write.rows /\ \E f \in Given : p = f \/ p = Place(f)
    <3>1. s \in write.rows /\ \E c \in write.columns : c[1] = p
      BY <1>0, <1>5, <2>1
    <3>2. PICK c \in write.columns : c[1] = p
      BY <3>1
    <3>3. PICK f \in RelFields : Resolved(f) /\ c[1] \in {f, Place(f)}
      BY <1>13, <3>2
    <3> QED
      BY <3>1, <3>2, <3>3 DEF Resolved
  <2> QED
    BY <1>0, <1>3, <1>4, <1>14, <2>1 DEF FrameInv
<1> QED
  BY <1>8, <1>9, <1>10, <1>11, <1>12, <1>15, <1>16 DEF NestedInvar

\* A field is set that is not kept in a column: it is settled, the others stay so, and
\* only targets that it names are moved.
LEMMA AssociateKeeps ==
  ASSUME NestedInvar, NEW f \in RelFields, Associate(f)
  PROVE NestedInvar'
<1>0. /\ NestedTypes /\ write.at = "associate" /\ f \in write.todo /\ kept' = kept
      /\ f \in Given /\ Kind[f] \notin InColumn /\ write.op # "updateWhere"
  BY DEF NestedInvar, AssociateInv, Associate
<1> DEFINE v == write.values[f]
           links == write.staged.links
<1>1. PICK s \in write.rows, ids \in Creations(v.new) : \E cleared \in Cleared(links, f, s) :
        write' = [write EXCEPT
         !.todo = @ \ {f}, !.made = [write.made EXCEPT ![f] = ids],
         !.whole = IF Fits(links, f, s) THEN @ ELSE @ \ {f},
         !.staged = [there |-> @.there \cup ids,
                     links |-> Linked(links \ cleared, f, s, v.ids \cup ids)]]
  BY DEF Associate
<1>2. PICK cleared \in Cleared(links, f, s) :
        write' = [write EXCEPT
         !.todo = @ \ {f}, !.made = [write.made EXCEPT ![f] = ids],
         !.whole = IF Fits(links, f, s) THEN @ ELSE @ \ {f},
         !.staged = [there |-> @.there \cup ids,
                     links |-> Linked(links \ cleared, f, s, v.ids \cup ids)]]
  BY <1>1
<1> DEFINE left == links \ cleared
           linked == v.ids \cup ids
           new == Linked(left, f, s, linked)
           whole == IF Fits(links, f, s) THEN write.whole ELSE write.whole \ {f}
<1>3. /\ links \in SUBSET Link /\ write.rows \in SUBSET Sources /\ write.staged \in Tables
      /\ write.staged.there \in SUBSET (Sources \cup Targets)
      /\ write.made \in [RelFields -> SUBSET Targets] /\ write.whole \in SUBSET RelFields
      /\ v \in [given : BOOLEAN, ids : SUBSET Targets, new : 0..1]
  BY <1>0 DEF NestedTypes, WriteType, Tables
<1>4. s \in Sources /\ write.rows = {s}
  BY <1>0, <1>3 DEF NestedInvar, RowsInv
<1>5. /\ ids \in SUBSET Targets
      /\ \A p \in Places, x \in Sources, t \in ids : ~Has(links, p, x, t)
  BY <1>0, <1>3, CreationsNew
<1>6. linked \in SUBSET Targets
  BY <1>3, <1>5
<1>7. Place(f) \in Places
  BY PlaceFacts
<1>8. /\ cleared \in SUBSET InRow(links, Place(f), s)
      /\ Fits(links, f, s) => cleared = InRow(links, Place(f), s)
  BY <1>3, <1>4, ClearedIs
<1>9. \A p \in Places, x \in Sources, t \in Targets :
        /\ Has(left, p, x, t) => Has(links, p, x, t)
        /\ Has(links, p, x, t) /\ ~Has(left, p, x, t) => p = Place(f) /\ x = s
        /\ Fits(links, f, s) => ~Has(left, Place(f), s, t)
  <2> DEFINE row == InRow(links, Place(f), s)
  <2> SUFFICES ASSUME NEW p \in Places, NEW x \in Sources, NEW t \in Targets
               PROVE /\ Has(left, p, x, t) => Has(links, p, x, t)
                     /\ Has(links, p, x, t) /\ ~Has(left, p, x, t) => p = Place(f) /\ x = s
                     /\ Fits(links, f, s) => ~Has(left, Place(f), s, t)
    OBVIOUS
  <2>1. \A q \in Places, y \in Sources, u \in Targets :
          Has(row, q, y, u) <=> Has(links, q, y, u) /\ q = Place(f) /\ y = s
    <3> HIDE DEF links
    <3> QED
      BY <1>3, <1>4, <1>7, RowIs
  <2> HIDE DEF row, links
  <2>2. \A q, y, u : Has(left, q, y, u) <=> Has(links, q, y, u) /\ <<q, y, u>> \notin cleared
    BY DEF Has
  <2>3. \A q, y, u : <<q, y, u>> \in cleared => Has(row, q, y, u)
    BY <1>8 DEF Has, row
  <2>4. Fits(links, f, s) => \A q, y, u : Has(row, q, y, u) => <<q, y, u>> \in cleared
    BY <1>8 DEF Has, row
  <2>5. Has(left, p, x, t) => Has(links, p, x, t)
    BY <2>2
  <2>6. ASSUME Has(links, p, x, t), ~Has(left, p, x, t) PROVE p = Place(f) /\ x = s
    <3>1. Has(row, p, x, t)
      BY <2>2, <2>3, <2>6
    <3> QED
      BY <2>1, <3>1
  <2>7. ASSUME Fits(links, f, s), Has(left, Place(f), s, t) PROVE FALSE
    <3>1. Has(links, Place(f), s, t) /\ <<Place(f), s, t>> \notin cleared
      BY <2>2, <2>7
    <3>2. Has(row, Place(f), s, t)
      BY <1>4, <1>7, <2>1, <3>1
    <3> QED
      BY <2>4, <2>7, <3>1, <3>2
  <2> QED
    BY <2>5, <2>6, <2>7
<1>10. /\ new \in SUBSET Link
       /\ \A p \in Places, x \in Sources, t \in Targets :
            Has(new, p, x, t) <=>
               \/ p = Place(f) /\ x = s /\ t \in linked
               \/ Has(left, p, x, t) /\ ~(Kind[f] \in OneEach /\ p = Place(f) /\ t \in linked)
  <2>1. left \in SUBSET Link
    BY <1>3
  <2> HIDE DEF left, linked
  <2> QED
    BY <1>4, <1>6, <2>1, LinkedIs
<1> HIDE DEF left, new
<1>11. /\ write'.at = write.at /\ write'.op = write.op /\ write'.rows = write.rows
       /\ write'.values = write.values /\ write'.whole = whole
       /\ write'.todo = write.todo \ {f}
       /\ write'.made = [write.made EXCEPT ![f] = ids]
       /\ write'.staged = [there |-> write.staged.there \cup ids, links |-> new]
  BY <1>0, <1>2 DEF NestedTypes, WriteType, new, left
<1>12. /\ write'.staged.links = new
       /\ write'.staged.there = write.staged.there \cup ids
  BY <1>11
<1>13. /\ \A h \in RelFields : write'.made[h] = IF h = f THEN ids ELSE write.made[h]
       /\ \A h \in RelFields : LinkedTo(h)' = IF h = f THEN linked ELSE LinkedTo(h)
  BY <1>3, <1>11 DEF LinkedTo
<1>14. NestedTypes'
  <2>1. write'.staged \in Tables
    BY <1>3, <1>5, <1>10, <1>11 DEF Tables
  <2>2. write'.made \in [RelFields -> SUBSET Targets]
    BY <1>3, <1>5, <1>11
  <2>3. write' = [at |-> write.at, op |-> write.op, rows |-> write.rows, values |-> write.values,
                  todo |-> write.todo \ {f}, columns |-> write.columns, made |-> write'.made,
                  whole |-> whole, staged |-> write'.staged]
    BY <1>0, <1>2, <1>11 DEF NestedTypes, WriteType
  <2>4. whole \in SUBSET RelFields
    BY <1>3
  <2>5. /\ write.at \in {"idle", "resolve", "associate"}
        /\ write.op \in {"none", "create", "update", "updateWhere"} /\ write.rows \in SUBSET Sources
        /\ write.values \in [RelFields -> [given : BOOLEAN, ids : SUBSET Targets, new : 0..1]]
        /\ write.todo \ {f} \in SUBSET RelFields
        /\ write.columns \in SUBSET (FieldNames \X SUBSET Targets)
    BY <1>0 DEF NestedTypes, WriteType
  <2> HIDE DEF whole
  <2>6. write' \in WriteType
    BY <2>1, <2>2, <2>3, <2>4, <2>5 DEF WriteType
  <2> QED
    BY <1>0, <2>6 DEF NestedTypes
<1>15. RowsInv'
  BY <1>11 DEF NestedInvar, RowsInv
<1>16. ValuesInv'
  BY <1>11 DEF NestedInvar, ValuesInv
<1>17. ThereInv'
  BY <1>0, <1>12, <1>13 DEF NestedInvar, ThereInv
<1>18. ResolveInv'
  BY <1>0, <1>11 DEF ResolveInv
<1>19. Given' = Given
  BY <1>11 DEF Given
<1>20. AssociateInv'
  <2>1. ASSUME NEW h \in RelFields, h \in Given, h \notin write.todo \ {f}, h \in whole,
               Heeded(h), ~Contested(h), ~Detached(h)
        PROVE Settled(h)'
    <3>1. CASE h = f
      <4>1. Fits(links, f, s)
        BY <2>1, <3>1
      <4>2. \A t \in Targets : Has(new, Place(f), s, t) <=> t \in linked
        BY <1>4, <1>7, <1>9, <1>10, <4>1
      <4>3. LinkedTo(f)' = linked
        BY <1>13
      <4>4. \A x \in write'.rows, t \in Targets : Has(write'.staged.links, Place(f), x, t) <=> t \in LinkedTo(f)'
        <5> HIDE DEF linked
        <5> QED
          BY <1>4, <1>11, <1>12, <4>2, <4>3
      <4> QED
        BY <3>1, <4>4 DEF Settled
    <3>2. CASE h # f
      <4>1. Place(h) # Place(f)
        BY <1>0, <2>1, <3>2 DEF Contested
      <4>2. Settled(h)
        BY <1>0, <2>1, <3>2 DEF NestedInvar, AssociateInv
      <4>3. Place(h) \in Places
        BY PlaceFacts
      <4>4. \A t \in Targets : Has(new, Place(h), s, t) <=> Has(links, Place(h), s, t)
        BY <1>4, <1>9, <1>10, <4>1, <4>3
      <4>5. LinkedTo(h)' = LinkedTo(h)
        BY <1>13, <3>2
      <4>6. \A x \in write'.rows, t \in Targets : Has(write'.staged.links, Place(h), x, t) <=> t \in LinkedTo(h)'
        BY <1>4, <1>11, <1>12, <4>2, <4>4, <4>5 DEF Settled
      <4> QED
        BY <4>6 DEF Settled
    <3> QED
      BY <3>1, <3>2
  <2>2. \A h \in RelFields :
          /\ Contested(h)' = Contested(h) /\ Detached(h)' = Detached(h) /\ Heeded(h)' = Heeded(h)
    BY <1>11, SameValues
  <2>3. \A h \in RelFields : (h \in Given)' <=> h \in Given
    BY <1>19
  <2> HIDE DEF whole
  <2>4. \A h \in RelFields :
          (h \in Given)' /\ h \notin write'.todo /\ h \in write'.whole /\ Heeded(h)'
            /\ ~Contested(h)' /\ ~Detached(h)' => Settled(h)'
    BY <1>11, <2>1, <2>2, <2>3
  <2>5. \A h \in write.todo : h \in RelFields /\ h \in Given /\ Kind[h] \notin InColumn
    BY <1>0 DEF NestedInvar, AssociateInv, NestedTypes, WriteType
  <2>6. /\ \A h \in write'.todo : (h \in Given)' /\ Kind[h] \notin InColumn
        /\ write'.op # "updateWhere"
    BY <1>0, <1>11, <2>3, <2>5
  <2> QED
    BY <2>4, <2>6 DEF AssociateInv
<1>21. FrameInv'
  <2>1. ASSUME NEW p \in Places, NEW x \in Sources, NEW t \in Targets,
               Has(kept.links, p, x, t), ~Has(new, p, x, t)
        PROVE /\ \E h \in Given : p = h \/ p = Place(h)
              /\ x \in write.rows \/ \E h \in Given : t \in write.values[h].ids
    <3>1. CASE ~Has(links, p, x, t)
      BY <1>0, <2>1, <3>1 DEF NestedInvar, FrameInv
    <3>2. CASE Has(links, p, x, t) /\ ~Has(left, p, x, t)
      BY <1>0, <1>4, <1>9, <3>2
    <3>3. CASE Has(links, p, x, t) /\ Has(left, p, x, t)
      <4>1. p = Place(f) /\ t \in linked
        BY <1>10, <2>1, <3>3
      <4>2. t \in v.ids
        BY <1>5, <3>3, <4>1
      <4> QED
        BY <1>0, <4>1, <4>2
    <3> QED
      BY <3>1, <3>2, <3>3
  <2> QED
    BY <1>0, <1>11, <1>12, <1>19, <2>1 DEF FrameInv
<1> QED
  BY <1>14, <1>15, <1>16, <1>17, <1>18, <1>20, <1>21 DEF NestedInvar

\* The invariant holds at first.
LEMMA NestedFirst == ASSUME NestedInit PROVE NestedInvar
<1>1. kept \in Tables /\ write = NotWriting
  BY NestedAssumption DEF NestedInit
<1> QED
  BY <1>1, IdleHolds

\* Each action keeps it.
LEMMA NestedStep ==
  ASSUME NestedInvar, [NestedNext]_nestedVars
  PROVE NestedInvar'
<1>1. CASE UNCHANGED nestedVars
  <2>1. kept' = kept /\ write' = write
    BY <1>1 DEF nestedVars
  <2>2. NestedTypes' /\ RowsInv' /\ ValuesInv' /\ ThereInv'
    BY <2>1 DEF NestedInvar, NestedTypes, RowsInv, ValuesInv, ThereInv
  <2>3. Given' = Given
    BY <2>1 DEF Given
  <2>4. \A f \in RelFields :
          /\ Resolved(f)' = Resolved(f) /\ LinkedTo(f)' = LinkedTo(f) /\ ColumnsOf(f)' = ColumnsOf(f)
          /\ Settled(f)' = Settled(f)
    BY <2>1, <2>3 DEF Resolved, LinkedTo, ColumnsOf, Settled
  <2>5. \A f \in RelFields :
          /\ Contested(f)' = Contested(f) /\ Detached(f)' = Detached(f) /\ Heeded(f)' = Heeded(f)
    BY <2>1, SameValues
  <2>6. ResolveInv'
    BY <2>1, <2>3, <2>4 DEF NestedInvar, ResolveInv
  <2>7. AssociateInv'
    BY <2>1, <2>3, <2>4, <2>5 DEF NestedInvar, AssociateInv
  <2>8. FrameInv'
    BY <2>1, <2>3 DEF NestedInvar, FrameInv
  <2> QED
    BY <2>2, <2>6, <2>7, <2>8 DEF NestedInvar
<1>2. CASE StartWrite
  BY <1>2, StartKeeps
<1>3. CASE WriteRow
  BY <1>3, WriteRowKeeps
<1>4. CASE CommitNested \/ NestedFails
  <2>1. kept' \in Tables /\ write' = NotWriting
    BY <1>4 DEF NestedInvar, NestedTypes, WriteType, CommitNested, NestedFails
  <2>2. (kept \in Tables /\ write = NotWriting => NestedInvar)'
    BY IdleImplies, PTL
  <2> QED
    BY <2>1, <2>2
<1>5. ASSUME NEW f \in RelFields, Resolve(f) PROVE NestedInvar'
  BY <1>5, ResolveKeeps
<1>6. ASSUME NEW f \in RelFields, Associate(f) PROVE NestedInvar'
  BY <1>6, AssociateKeeps
<1> QED
  BY <1>1, <1>2, <1>3, <1>4, <1>5, <1>6 DEF NestedNext

\* Whatever the relation fields of a collection, the places they are kept in and the
\* links and records that are there at first, the invariant of a nested write holds.
THEOREM NestedKept == NestedSpec => []NestedInvar
<1>1. NestedInit => NestedInvar
  BY NestedFirst
<1>2. NestedInvar /\ [NestedNext]_nestedVars => NestedInvar'
  BY NestedStep
<1> QED
  BY <1>1, <1>2, PTL DEF NestedSpec

\* A field that is settled shows what it was given.
LEMMA SettledShows ==
  ASSUME NestedInvar, NEW f \in RelFields, NEW s \in write.rows, Settled(f), ~Detached(f),
         write.at # "idle"
  PROVE Shows(f, s, write.staged, (write.values[f].ids \cap write.staged.there) \cup write.made[f])
<1> DEFINE expected == (write.values[f].ids \cap write.staged.there) \cup write.made[f]
           loaded == Loaded(f, s, write.staged)
<1>1. /\ write.values[f].ids \in SUBSET Targets /\ write.made[f] \in SUBSET Targets
      /\ write.made[f] \subseteq write.staged.there
  BY DEF NestedInvar, NestedTypes, WriteType, ThereInv
<1>2. Kind[f] = "belongsTo" => Place(f) \in FieldNames
  <2>1. Kind[f] = "belongsTo" => f \in FieldNames
    BY PlaceFacts DEF InColumn
  <2> QED
    BY <2>1 DEF Detached
<1>3. loaded = expected
  <2>1. \A t \in Targets : <<Place(f), s, t>> \in write.staged.links <=>
          t \in write.values[f].ids \/ t \in write.made[f]
    BY DEF Settled, Has, LinkedTo
  <2>2. loaded = {t \in Targets \cap write.staged.there : <<Place(f), s, t>> \in write.staged.links}
    BY <1>2 DEF Loaded
  <2> HIDE DEF loaded
  <2> QED
    BY <1>1, <2>1, <2>2
<1> HIDE DEF loaded, expected
<1>4. Shown(f, s, write.staged) =
        IF Kind[f] = "hasOne" /\ loaded # {} THEN {{t} : t \in loaded} ELSE {loaded}
  BY DEF Shown, loaded
<1>5. \A answer \in Shown(f, s, write.staged) :
       IF Kind[f] = "hasOne" THEN answer \subseteq expected /\ (answer = {} <=> expected = {})
       ELSE answer = expected
  BY <1>3, <1>4
<1>6. \A list \in ListedAlone(f, s, write.staged) :
       list \in Shown(f, s, write.staged) \/ Kind[f] = "belongsToManyArray"
  BY DEF ListedAlone
<1> QED
  BY <1>5, <1>6 DEF Shows, expected

\* Every write leaves what it was given, and of what it was not given only the targets
\* that it moves are lost.
THEOREM NestedTrue == NestedSpec => []NestedWhole
<1>1. NestedInvar => NestedWhole
  <2> SUFFICES ASSUME NestedInvar, write.at = "associate", write.todo = {} PROVE NestedWhole
    BY DEF NestedWhole
  <2>1. ASSUME NEW f \in Given, NEW s \in write.rows, f \in write.whole, Heeded(f), ~Contested(f),
               ~Detached(f)
        PROVE Shows(f, s, write.staged,
                    (write.values[f].ids \cap write.staged.there) \cup write.made[f])
    <3>1. f \in RelFields
      BY DEF Given
    <3>2. Settled(f)
      BY <2>1, <3>1 DEF NestedInvar, AssociateInv
    <3> QED
      BY <2>1, <3>1, <3>2, SettledShows
  <2>2. ASSUME NEW f \in RelFields, NEW s \in Sources \cap kept.there,
               NEW t \in Loaded(f, s, kept) \ Loaded(f, s, write.staged)
        PROVE /\ \E g \in Given : Place(f) = g \/ Place(f) = Place(g)
              /\ s \in write.rows \/ \E g \in Given : t \in write.values[g].ids
    <3>1. t \in Targets /\ t \in kept.there /\ Has(kept.links, Place(f), s, t)
      BY DEF Loaded, Has
    <3>2. t \in write.staged.there
      BY <3>1 DEF NestedInvar, ThereInv
    <3>3. ~Has(write.staged.links, Place(f), s, t)
      BY <3>1, <3>2 DEF Loaded, Has
    <3> QED
      BY <3>1, <3>3, PlaceFacts DEF NestedInvar, FrameInv
  <2> DEFINE moved == UNION {write.values[f].ids : f \in Given}
             places == {Place(f) : f \in Given} \cup Given
  <2>3. ASSUME NEW f \in RelFields, NEW s \in Sources \cap kept.there
        PROVE LET gone == Loaded(f, s, kept) \ Loaded(f, s, write.staged) IN
              /\ s \in write.rows /\ Place(f) \notin places /\ f \notin places => gone = {}
              /\ s \notin write.rows => gone \subseteq moved
    <3> DEFINE gone == Loaded(f, s, kept) \ Loaded(f, s, write.staged)
    <3>1. \A t \in gone : \E g \in Given : Place(f) = g \/ Place(f) = Place(g)
      BY <2>2
    <3>2. \A t \in gone : s \in write.rows \/ \E g \in Given : t \in write.values[g].ids
      BY <2>2
    <3> HIDE DEF gone
    <3>3. Place(f) \notin places => gone = {}
      BY <3>1
    <3>4. s \notin write.rows => gone \subseteq moved
      BY <3>2
    <3> QED
      BY <3>3, <3>4 DEF gone
  <2> QED
    BY <2>1, <2>3 DEF NestedWhole
<1> QED
  BY <1>1, NestedKept, PTL
=============================================================================
