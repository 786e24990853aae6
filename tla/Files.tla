-------------------------------- MODULE Files --------------------------------
(***************************************************************************)
(* The files of a collection of type file                                  *)
(* (service/metadata/file_storage.go).  A file is on disk and its record   *)
(* is in a table, and nothing makes the two one: an upload writes the      *)
(* file, then creates the record, and removes the file again if either     *)
(* goes wrong; destroying the record leaves the file where it is.  A       *)
(* record is found by its id and names its file by its path, and both are  *)
(* ordinary fields: a client that creates a record as any other may give   *)
(* it a free id and any path, and may change the path of any.              *)
(*                                                                         *)
(* Who may upload and open is in Authority and Access, the records as such *)
(* are in WriteUnit and Access.  A name on disk begins with the id of the  *)
(* upload, and ids differ (Snowflake), so no two uploads have one file.    *)
(* Paths are those of uploads, made or not; other files are left out.      *)
(***************************************************************************)
EXTENDS Naturals, FiniteSets

CONSTANTS
  Uploaders, Viewers,   \* requests
  MaxUploads,           \* bound: ids
  MaxByHand,            \* bound: records that clients create and paths they change
  MaxFileTroubles       \* bound: failures and crashes

ASSUME FilesAssumption ==
  MaxUploads \in Nat /\ MaxByHand \in Nat /\ MaxFileTroubles \in Nat

FileIds == 1..MaxUploads
NoFileId == 0

VARIABLES
  disk,      \* what is in the file of an id: nothing, part of what was sent, or the whole
  records,   \* the ids of the committed records
  path,      \* path[i]: the file that record i names, by the id of its upload, if any
  upload,    \* the uploads
  view,      \* the requests for a file's content
  story,     \* history: what happened to an id
  idsGiven, byHand, fileTroubles

fileVars == <<disk, records, path, upload, view, story, idsGiven, byHand, fileTroubles>>

Resting == [at |-> "idle", id |-> NoFileId]
Watching == [at |-> "idle", file |-> NoFileId, own |-> FALSE, got |-> "none"]

FilesInit ==
  /\ disk = [i \in FileIds |-> "none"]
  /\ records = {} /\ path = [i \in FileIds |-> NoFileId]
  /\ upload = [u \in Uploaders |-> Resting]
  /\ view = [v \in Viewers |-> Watching]
  /\ story = [i \in FileIds |-> {}]
  /\ idsGiven = 0 /\ byHand = 0 /\ fileTroubles = 0

Uploads(u, at) == upload[u].at = at
Goes(u, at) == upload' = [upload EXCEPT ![u] = [at |-> at, id |-> upload[u].id]]
Records(i, file) == records' = records \cup {i} /\ path' = [path EXCEPT ![i] = file]
Tells(i, what) == story' = [story EXCEPT ![i] = @ \cup {what}]
Trouble == fileTroubles < MaxFileTroubles /\ fileTroubles' = fileTroubles + 1

-----------------------------------------------------------------------------
(***************************************************************************)
(* An upload.  io.Copy writes piece by piece: the file has part of what is *)
(* sent as soon as it is there.                                            *)
(***************************************************************************)
CreateFile(u) ==
  /\ Uploads(u, "idle") /\ idsGiven < MaxUploads
  /\ idsGiven' = idsGiven + 1
  /\ disk' = [disk EXCEPT ![idsGiven'] = "part"]
  /\ upload' = [upload EXCEPT ![u] = [at |-> "copy", id |-> idsGiven']]
  /\ UNCHANGED <<records, path, view, story, byHand, fileTroubles>>

\* The directory or the file cannot be made.
CreateFileFails(u) ==
  /\ Uploads(u, "idle") /\ idsGiven < MaxUploads /\ Trouble
  /\ idsGiven' = idsGiven + 1
  /\ UNCHANGED <<disk, records, path, upload, view, story, byHand>>

CopyAll(u) ==
  /\ Uploads(u, "copy")
  /\ disk' = [disk EXCEPT ![upload[u].id] = "whole"]
  /\ Goes(u, "record")
  /\ UNCHANGED <<records, path, view, story, idsGiven, byHand, fileTroubles>>

\* (slip) The record is created all the same.
CopyPasses(u) ==
  /\ Uploads(u, "copy") /\ Trouble
  /\ Goes(u, "record")
  /\ UNCHANGED <<disk, records, path, view, story, idsGiven, byHand>>

CopyBreaks(u) ==
  /\ Uploads(u, "copy") /\ Trouble
  /\ Goes(u, "remove")
  /\ UNCHANGED <<disk, records, path, view, story, idsGiven, byHand>>

\* What Close says is ignored: what could not be written by then is missing.
CloseBreaks(u) ==
  /\ Uploads(u, "copy") /\ Trouble
  /\ Goes(u, "record")
  /\ Tells(upload[u].id, "short")
  /\ UNCHANGED <<disk, records, path, view, idsGiven, byHand>>

CreateRecord(u) ==
  /\ Uploads(u, "record") /\ upload[u].id \notin records
  /\ Records(upload[u].id, upload[u].id)
  /\ upload' = [upload EXCEPT ![u] = Resting]
  /\ Tells(upload[u].id, "uploaded")
  /\ UNCHANGED <<disk, view, idsGiven, byHand, fileTroubles>>

\* The id is the primary key, and a client has taken it.
RecordRefused(u) ==
  /\ Uploads(u, "record") /\ upload[u].id \in records
  /\ Goes(u, "remove")
  /\ UNCHANGED <<disk, records, path, view, story, idsGiven, byHand, fileTroubles>>

\* A commit that is reported as failed may have taken place.
RecordFails(u) ==
  /\ Uploads(u, "record") /\ Trouble
  /\ Goes(u, "remove")
  /\ \/ UNCHANGED <<records, path, story>>
     \/ /\ upload[u].id \notin records
        /\ Records(upload[u].id, upload[u].id)
        /\ Tells(upload[u].id, "doubtful")
  /\ UNCHANGED <<disk, view, idsGiven, byHand>>

RemoveFile(u) ==
  /\ Uploads(u, "remove")
  /\ disk' = [disk EXCEPT ![upload[u].id] = "none"]
  /\ upload' = [upload EXCEPT ![u] = Resting]
  /\ UNCHANGED <<records, path, view, story, idsGiven, byHand, fileTroubles>>

\* What Remove says is ignored.
RemoveFails(u) ==
  /\ Uploads(u, "remove") /\ Trouble
  /\ upload' = [upload EXCEPT ![u] = Resting]
  /\ Tells(upload[u].id, "left")
  /\ UNCHANGED <<disk, records, path, view, idsGiven, byHand>>

-----------------------------------------------------------------------------
(***************************************************************************)
(* Records of the collection are created, updated and destroyed as any     *)
(* other, and no file is touched.                                          *)
(***************************************************************************)
ByHand == byHand < MaxByHand /\ byHand' = byHand + 1

MakeRecord(i, file) ==
  /\ i \notin records /\ ByHand
  /\ Records(i, file)
  /\ Tells(i, "made")
  /\ UNCHANGED <<disk, upload, view, idsGiven, fileTroubles>>

ChangePath(i, file) ==
  /\ i \in records /\ ByHand
  /\ Records(i, file)
  /\ Tells(i, "moved")
  /\ UNCHANGED <<disk, upload, view, idsGiven, fileTroubles>>

DestroyRecord(i) ==
  /\ i \in records
  /\ records' = records \ {i} /\ path' = [path EXCEPT ![i] = NoFileId]
  /\ Tells(i, "destroyed")
  /\ UNCHANGED <<disk, upload, view, idsGiven, byHand, fileTroubles>>

\* Nobody but the upload has written what record i says.
ByUpload(i) == story[i] \cap {"made", "moved"} = {}

-----------------------------------------------------------------------------
(***************************************************************************)
(* OpenFileObject finds the record, then looks for the file; ServeFile     *)
(* opens it only then.                                                     *)
(***************************************************************************)
Views(v, at) == view[v].at = at
Sees(v, at, file, own, got) ==
  view' = [view EXCEPT ![v] = [at |-> at, file |-> file, own |-> own, got |-> got]]

FindRecord(v, i) ==
  /\ Views(v, "idle") /\ i \in records /\ path[i] # NoFileId
  /\ Sees(v, "stat", path[i], ByUpload(i), "none")
  /\ UNCHANGED <<disk, records, path, upload, story, idsGiven, byHand, fileTroubles>>

\* No record, or none with a path.
FindNoRecord(v, i) ==
  /\ Views(v, "idle") /\ ~(i \in records /\ path[i] # NoFileId)
  /\ Sees(v, "answered", NoFileId, FALSE, "nothing")
  /\ UNCHANGED <<disk, records, path, upload, story, idsGiven, byHand, fileTroubles>>

StatFile(v) ==
  LET w == view[v] IN
  /\ Views(v, "stat")
  /\ Sees(v, IF disk[w.file] = "none" THEN "answered" ELSE "serve", w.file, w.own, "none")
  /\ UNCHANGED <<disk, records, path, upload, story, idsGiven, byHand, fileTroubles>>

ServeFile(v) ==
  /\ Views(v, "serve")
  /\ Sees(v, "answered", view[v].file, view[v].own, disk[view[v].file])
  /\ UNCHANGED <<disk, records, path, upload, story, idsGiven, byHand, fileTroubles>>

Forget(v) ==
  /\ Views(v, "answered")
  /\ view' = [view EXCEPT ![v] = Watching]
  /\ UNCHANGED <<disk, records, path, upload, story, idsGiven, byHand, fileTroubles>>

-----------------------------------------------------------------------------
\* The process dies, and starts again.
Die ==
  /\ Trouble
  /\ story' = [i \in FileIds |->
       IF \E u \in Uploaders : upload[u].id = i THEN story[i] \cup {"stopped"} ELSE story[i]]
  /\ upload' = [u \in Uploaders |-> Resting]
  /\ view' = [v \in Viewers |-> Watching]
  /\ UNCHANGED <<disk, records, path, idsGiven, byHand>>

FilesNext ==
  \/ \E u \in Uploaders :
       \/ CreateFile(u) \/ CreateFileFails(u) \/ CopyAll(u) \/ CopyBreaks(u) \/ CloseBreaks(u)
       \/ CreateRecord(u) \/ RecordRefused(u) \/ RecordFails(u) \/ RemoveFile(u) \/ RemoveFails(u)
  \/ \E i \in FileIds, file \in FileIds \cup {NoFileId} : MakeRecord(i, file) \/ ChangePath(i, file)
  \/ \E i \in FileIds : DestroyRecord(i)
  \/ \E v \in Viewers, i \in FileIds : FindRecord(v, i) \/ FindNoRecord(v, i)
  \/ \E v \in Viewers : StatFile(v) \/ ServeFile(v) \/ Forget(v)
  \/ Die

FilesSpec == FilesInit /\ [][FilesNext]_fileVars

-----------------------------------------------------------------------------
(***************************************************************************)
(* Properties.                                                             *)
(***************************************************************************)
\* Whoever asks for a record that its upload alone has written is served all
\* that was uploaded, whatever else is going on; and a file that was uploaded
\* stays whole, whichever records name it (both if Close succeeded).
ServedWhole ==
  /\ \A v \in Viewers : Views(v, "answered") /\ view[v].own =>
       \/ view[v].got = "whole"
       \/ view[v].got = "part" /\ "short" \in story[view[v].file]
       \/ view[v].got = "none" /\ "doubtful" \in story[view[v].file]
  /\ \A i \in FileIds : "uploaded" \in story[i] /\ "short" \notin story[i] => disk[i] = "whole"

HasFile(i) ==
  i \in records /\ ByUpload(i) /\ disk[i] = "none" => "doubtful" \in story[i]

HasRecord(i) ==
  disk[i] # "none" /\ ~(i \in records /\ path[i] = i) =>
    \/ \E u \in Uploaders : upload[u].id = i
    \/ story[i] \cap {"stopped", "left", "destroyed", "moved"} # {}

\* A record without its file comes only of a commit that was reported as failed, or
\* of a client's own writing; a file that the record of its id does not name comes
\* only of a crash, a removal that failed, or the record's destruction or change,
\* unless its upload is still under way.
NoneAlone == \A i \in FileIds : HasFile(i) /\ HasRecord(i)

\* The files on disk and the records are those of each other.
FilesHold == ServedWhole /\ NoneAlone
=============================================================================
