-------------------------------- MODULE Files --------------------------------
(***************************************************************************)
(* File attachments: routers/files.py and services/file_service.py.        *)
(*                                                                         *)
(* An attachment is a row and a file on the disk.  The row takes part in   *)
(* the request's transaction, the file does not: it is written and removed *)
(* at once, whatever becomes of the transaction.  A deleted row is marked. *)
(***************************************************************************)
EXTENDS Transactions

CONSTANTS Entity, User, MaxFilesPerEntity, FileLoads

\* The load: how many files are uploaded; the staff, and which of them are managers;
\* whether anything is deleted.
IsFileLoad(l) ==
  /\ IsFiniteSet(l.sessions) /\ l.sessions # {}
  /\ l.uploads \in Nat /\ l.managers \subseteq User /\ l.deletes \in BOOLEAN

ASSUME FileAssumption ==
  MaxFilesPerEntity \in Nat /\ \A l \in FileLoads : IsFileLoad(l)

----------------------------------------------------------------------------

\* The attachment's entity, who uploaded it, whether its row is deleted.
AttachmentTable(d) ==
  /\ IsColumn(d.entity, Nat, Entity)
  /\ IsColumn(d.uploader, Nat, User)
  /\ IsColumn(d.deleted, Nat, {TRUE})

\* disk: the files in UPLOAD_DIR.  It is no column: no transaction writes it.
NoFiles == [entity |-> Empty, uploader |-> Empty, deleted |-> Empty, disk |-> Empty]

Attachments == DOMAIN db.entity \ DOMAIN db.deleted
AttachmentsOf(e) == {f \in Attachments : db.entity[f] = e}

\* A request that changes the disk and goes on with its transaction.
BeginOnDisk(s, writes, disk) ==
  /\ s \in load.sessions \ DOMAIN txn
  /\ txn' = Overlay(At(s, writes), txn)
  /\ db' = [db EXCEPT !.disk = disk]
  /\ UNCHANGED load

\* Fault: the uploader is not recorded.
AnonymousAttachment(f, e, u) == [NoFiles EXCEPT !.entity = At(f, e)]
NewAttachment(f, e, u) == [NoFiles EXCEPT !.entity = At(f, e), !.uploader = At(f, u)]
\* Fault: the limit itself is let through.
UploadOverLimit(s, u, f, e) ==
  /\ Cardinality(AttachmentsOf(e)) <= MaxFilesPerEntity
  /\ BeginOnDisk(s, NewAttachment(f, e, u), Overlay(At(f, TRUE), db.disk))
\* Fault: the row is inserted and the file never written.
UploadRowOnly(s, u, f, e) ==
  Cardinality(AttachmentsOf(e)) < MaxFilesPerEntity /\ Begin(s, NewAttachment(f, e, u))
\* The row is for a file already on the disk, which stays there if the row is not committed.
UploadFile(s, u, f, e) ==
  /\ Cardinality(AttachmentsOf(e)) < MaxFilesPerEntity
  /\ BeginOnDisk(s, NewAttachment(f, e, u), Overlay(At(f, TRUE), db.disk))

\* That the removal fails on the disk goes unnoticed; that the transaction fails after
\* it leaves a row without its file.
Removed(f) == [g \in DOMAIN db.disk \ {f} |-> TRUE]
DeleteFile(s, u, f) ==
  /\ load.deletes
  /\ u \in load.managers \/ db.uploader[f] = u
  /\ \E disk \in {Removed(f), db.disk} :
       BeginOnDisk(s, [NoFiles EXCEPT !.deleted = At(f, TRUE)], disk)

FilesInit == load \in FileLoads /\ db = NoFiles /\ txn = Empty

FilesNext ==
  \E s \in load.sessions :
    \/ \E u \in User, f \in 1 .. load.uploads, e \in Entity :
         Fresh(f, Used("entity") \cup DOMAIN db.disk) /\ UploadFile(s, u, f, e)
    \/ \E u \in User, f \in Attachments : DeleteFile(s, u, f)
    \/ s \in DOMAIN txn /\ Commit(s, TRUE)
    \/ Rollback(s)

FilesSpec == FilesInit /\ [][FilesNext]_vars
----------------------------------------------------------------------------

\* Type invariant: every row, committed or in flight, is whole, and only rows that
\* exist are deleted.
WholeFile(W, d) ==
  /\ DOMAIN W.uploader = DOMAIN W.entity /\ DOMAIN W.deleted \subseteq DOMAIN d.entity
FilesTypeOK ==
  load \in FileLoads =>
    /\ AttachmentTable(db) /\ WholeFile(db, db) /\ IsColumn(db.disk, Nat, {TRUE})
    /\ \A s \in DOMAIN txn :
         AttachmentTable(txn[s]) /\ WholeFile(txn[s], db) /\ txn[s].disk = Empty

\* An entity has at most MAX_FILES_PER_ENTITY attachments ("Maximum of ... attachments
\* reached"), and one more for each other session whose upload counted them before.
AttachmentLimit ==
  load \in FileLoads => \A e \in Entity :
    Cardinality(AttachmentsOf(e)) <= MaxFilesPerEntity + Cardinality(load.sessions) - 1

\* Uploads alone leave no attachment whose file is missing ("The requested file is no
\* longer present on the server storage."), whichever of them fail.
FilesOnDisk == load \in FileLoads /\ ~load.deletes => Attachments \subseteq DOMAIN db.disk
=============================================================================
