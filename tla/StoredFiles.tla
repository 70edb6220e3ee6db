----------------------------- MODULE StoredFiles -----------------------------
(***************************************************************************)
(* Files of employee documents, leave requests and profile images: rows in *)
(* PostgreSQL that name objects in the object store (apps/documents,       *)
(* apps/leave, apps/employees, apps/common/storage.py).                    *)
(*                                                                         *)
(* No transaction spans the two stores, and the three kinds of record use  *)
(* different orders: a document's replacement writes the new object, then  *)
(* the row, and deletes the old object after the commit; a deletion        *)
(* deletes the object before the commit; a profile image takes no lock.    *)
(* Some handlers save every column of a row that they read without a lock. *)
(***************************************************************************)
EXTENDS Integers, Sequences, FiniteSets

CONSTANTS
  Document,    \* bound: ids available for employee documents
  Request,     \* bound: ids available for leave requests with an attachment
  Employee,    \* employees, whose row holds the profile image
  Worker,      \* server processes
  MaxObjects,  \* bound: objects written to the store
  MaxFaults,   \* bound: crashes and failed calls of the store
  None         \* absent row, empty local variable

Owner == Document \cup Request \cup Employee

ASSUME FilesAssumption ==
  /\ Document \cap Request = {}
  /\ (Document \cup Request) \cap Employee = {}
  /\ MaxObjects \in Nat /\ MaxFaults \in Nat

VARIABLES
  file,     \* the object that an owner's row names, NoFile, or None: no row
  store,    \* the objects in the store
  issued,   \* history variable: the owner of each object ever written
  pc, job,  \* per worker: where its handler is; the call being served
  new,      \* per worker: the object it has written
  leaked,   \* history variable: owners with an object that no row will name
  torn,     \* history variable: owners whose row may name a deleted object
  faults    \* crashes and failed calls of the store

handlerVars == <<pc, job, new>>
blame == <<leaked, torn>>
vars == <<file, store, issued, handlerVars, blame, faults>>

-----------------------------------------------------------------------------
(* Object keys are fresh uuids, here numbered in the order of their writes. *)

NoFile == 0
Object == Nat \ {NoFile}

Operation == {"create", "replace", "delete", "detach", "setImage", "clearImage", "save"}
Uploads   == {"create", "replace", "setImage"}

(* What a call carries: the row's file as it was read without a lock.       *)
Job == [op : Operation, owner : Owner, file : Object \cup {NoFile, None}]

ASSUME NoneAssumption == None \notin Job /\ None \notin Nat

TypeOK ==
  /\ file \in [Owner -> Object \cup {NoFile, None}]
  /\ store \subseteq DOMAIN issued
  /\ issued \in Seq(Owner)
  /\ pc \in [Worker -> {"idle", "lock", "erase", "upload", "write", "sweep"}]
  /\ job \in [Worker -> Job \cup {None}]
  /\ new \in [Worker -> Object \cup {None}]
  /\ leaked \subseteq Owner /\ torn \subseteq Owner
  /\ faults \in 0..MaxFaults
  /\ \A w \in Worker : /\ pc[w] = "idle" <=> job[w] = None
                       /\ new[w] # None <=> pc[w] = "write" /\ job[w].op \in Uploads
  /\ \A o \in Owner : file[o] \in Object => file[o] \in DOMAIN issued /\ issued[file[o]] = o

MarkIf(leak, tear, o) ==
  /\ leaked' = IF leak THEN leaked \cup {o} ELSE leaked
  /\ torn' = IF tear THEN torn \cup {o} ELSE torn

-----------------------------------------------------------------------------
(* How a handler moves.                                                     *)

(* Variant with a bug: clearing a profile image leaves its object.          *)
SupersedesByUpload == {"replace", "setImage"}

(* Handlers that replace the file they read before taking any lock.         *)
Supersedes == {"replace", "setImage", "clearImage"}

(* Handlers that work under the row lock, and their steps that hold it.     *)
HoldsLock(w, o) ==
  /\ pc[w] # "idle" /\ job[w].owner = o
  /\ \/ job[w].op = "replace" /\ pc[w] \in {"upload", "write"}
     \/ job[w].op \in {"delete", "detach"} /\ pc[w] \in {"erase", "write"}

Unlocked(w, o) == \A v \in Worker \ {w} : ~HoldsLock(v, o)

(* An upload needs an object key that no other handler will take.           *)
KeyAvailable ==
  Len(issued) + Cardinality({v \in Worker :
      /\ pc[v] \in {"lock", "upload"} /\ job[v].op \in Uploads}) < MaxObjects

Begin(w, op, o, f, step) ==
  /\ pc[w] = "idle"
  /\ op \in Uploads => KeyAvailable
  /\ pc' = [pc EXCEPT ![w] = step]
  /\ job' = [job EXCEPT ![w] = [op |-> op, owner |-> o, file |-> f]]
  /\ LET overlap == \E v \in Worker :
           pc[v] # "idle" /\ job[v].owner = o /\ job[v].op \in Supersedes
     IN  MarkIf(op \in Supersedes /\ overlap, FALSE, o)
  /\ UNCHANGED <<file, store, issued, new, faults>>

Goto(w, step) == pc' = [pc EXCEPT ![w] = step] /\ UNCHANGED <<job, new>>

Finish(w) ==
  /\ pc'  = [pc EXCEPT ![w] = "idle"]
  /\ job' = [job EXCEPT ![w] = None]
  /\ new' = [new EXCEPT ![w] = None]

-----------------------------------------------------------------------------
(* Calls, authorised on a row that is read without a lock.                  *)

(* create_document, and create_request with an attachment: a fresh row id.  *)
Create(w, o) ==
  /\ o \in Document \cup Request /\ file[o] = None
  /\ \A v \in Worker : pc[v] # "idle" => job[v].owner # o
  /\ \A k \in DOMAIN issued : issued[k] # o
  /\ Begin(w, "create", o, None, "upload")

ReplaceDocument(w, o) ==
  o \in Document /\ file[o] # None /\ Begin(w, "replace", o, file[o], "lock")

DeleteDocument(w, o) ==
  o \in Document /\ file[o] # None /\ Begin(w, "delete", o, None, "lock")

DeleteAttachment(w, o) ==
  o \in Request /\ file[o] # None /\ Begin(w, "detach", o, None, "lock")

SetProfileImage(w, o) ==
  o \in Employee /\ file[o] # None /\ Begin(w, "setImage", o, file[o], "upload")

ClearProfileImage(w, o) ==
  o \in Employee /\ file[o] # None /\ Begin(w, "clearImage", o, file[o], "write")

(* The employee endpoint and the admin site save every column of a row they *)
(* read without a lock; the endpoint can also set the image to "" or a URL. *)
SaveRow(w, o) ==
  /\ file[o] # None
  /\ \E f \in {file[o]} \cup (IF o \in Employee THEN {NoFile} ELSE {}) :
       Begin(w, "save", o, f, "write")

-----------------------------------------------------------------------------
(* The statements of a handler.                                             *)

(* Variant with a bug: the file to delete is named after the row is saved.  *)
SupersededReread(w) == file[job[w].owner]

Superseded(w) == job[w].file

(* select_for_update().get(pk): the row may be gone, or hold no attachment. *)
LockRow(w) ==
  LET o == job[w].owner IN
  /\ pc[w] = "lock" /\ Unlocked(w, o)
  /\ IF file[o] = None \/ (job[w].op = "detach" /\ file[o] = NoFile)
       THEN Finish(w)
       ELSE Goto(w, IF job[w].op = "replace" THEN "upload" ELSE "erase")
  /\ UNCHANGED <<file, store, issued, blame, faults>>

(* Variant with a bug: the key is made of the owner's id and the file name. *)
FreshKeyNamed == IF issued = <<>> THEN 1 ELSE Len(issued)

(* document_upload_path and its siblings put a new uuid in the key.         *)
FreshKey == Len(issued) + 1

(* FileField.pre_save, and set_profile_image, write the object first.       *)
Upload(w) ==
  LET k == FreshKey IN
  /\ pc[w] = "upload"
  /\ issued' = Append(issued, job[w].owner)
  /\ store' = store \cup {k}
  /\ pc' = [pc EXCEPT ![w] = "write"]
  /\ new' = [new EXCEPT ![w] = k]
  /\ UNCHANGED <<file, job, blame, faults>>

(* The object of a deleted document or attachment, before the row.          *)
Erase(w) ==
  /\ pc[w] = "erase"
  /\ store' = store \ {file[job[w].owner]}
  /\ Goto(w, "write")
  /\ UNCHANGED <<file, issued, blame, faults>>

(* What the handler saves in the row.                                       *)
Written(w) ==
  CASE job[w].op \in Uploads -> new[w]
    [] job[w].op = "delete"  -> None
    [] job[w].op = "save"    -> job[w].file
    [] OTHER -> NoFile

(* An UPDATE of named columns fails when the row is gone.                   *)
RowIsGone(w) == file[job[w].owner] = None /\ job[w].op \in {"setImage", "clearImage"}

(* The row is written and the transaction commits.                          *)
WriteRow(w) ==
  LET o == job[w].owner IN
  /\ pc[w] = "write" /\ Unlocked(w, o)
  /\ \/ RowIsGone(w) /\ Finish(w) /\ UNCHANGED <<file, blame>>
     \/ /\ ~RowIsGone(w)
        /\ file' = [file EXCEPT ![o] = Written(w)]
        /\ LET stale == job[w].op = "save" /\ file[o] # Written(w)
           IN  MarkIf(stale, stale /\ Written(w) # NoFile, o)
        /\ IF job[w].op \in Supersedes /\ Superseded(w) \in Object
             THEN /\ pc' = [pc EXCEPT ![w] = "sweep"]
                  /\ new' = [new EXCEPT ![w] = None]
                  /\ UNCHANGED job
             ELSE Finish(w)
  /\ UNCHANGED <<store, issued, faults>>

(* After the commit the replaced object is deleted; it may be gone already. *)
Sweep(w) ==
  /\ pc[w] = "sweep"
  /\ store' = store \ {Superseded(w)}
  /\ Finish(w)
  /\ UNCHANGED <<file, issued, blame, faults>>

-----------------------------------------------------------------------------
(* Failures, and rows that are removed without their object.                *)

(* A call of the store fails with or without effect (StorageService.delete  *)
(* asks once more whether the object exists, after it has deleted it): the  *)
(* transaction rolls back, or the response ends after the commit.           *)
FailUpload(w) ==
  /\ pc[w] = "upload"
  /\ issued' = Append(issued, job[w].owner)
  /\ store' = store \cup {FreshKey}
  /\ MarkIf(TRUE, FALSE, job[w].owner)

FailErase(w) ==
  /\ pc[w] = "erase"
  /\ store' = store \ {file[job[w].owner]}
  /\ MarkIf(FALSE, TRUE, job[w].owner)
  /\ UNCHANGED issued

FailInVain(w) ==
  /\ pc[w] \in {"upload", "erase", "sweep"}
  /\ MarkIf(pc[w] = "sweep", FALSE, job[w].owner)
  /\ UNCHANGED <<store, issued>>

StoreFails(w) ==
  /\ faults < MaxFaults
  /\ faults' = faults + 1
  /\ FailUpload(w) \/ FailErase(w) \/ FailInVain(w)
  /\ Finish(w)
  /\ UNCHANGED file

(* The process is killed, or the database refuses the commit.               *)
Crash(w) ==
  /\ pc[w] # "idle" /\ faults < MaxFaults
  /\ faults' = faults + 1
  /\ Finish(w)
  /\ MarkIf(new[w] # None \/ pc[w] = "sweep",
            pc[w] = "write" /\ job[w].op \in {"delete", "detach"}, job[w].owner)
  /\ UNCHANGED <<file, store, issued>>

(* The admin site, and the cascade of a deleted employee, delete only rows. *)
RemoveRow(o) ==
  /\ file[o] # None /\ \A w \in Worker : ~HoldsLock(w, o)
  /\ file' = [file EXCEPT ![o] = None]
  /\ MarkIf(TRUE, FALSE, o)
  /\ UNCHANGED <<store, issued, handlerVars, faults>>

-----------------------------------------------------------------------------
Init ==
  /\ file = [o \in Owner |-> IF o \in Employee THEN NoFile ELSE None]
  /\ store = {}
  /\ issued = <<>>
  /\ pc = [w \in Worker |-> "idle"]
  /\ job = [w \in Worker |-> None]
  /\ new = [w \in Worker |-> None]
  /\ leaked = {} /\ torn = {}
  /\ faults = 0

(* A client's call reaches an idle worker.                                  *)
Call(w) ==
  \E o \in Owner :
    \/ Create(w, o)
    \/ ReplaceDocument(w, o) \/ DeleteDocument(w, o)
    \/ DeleteAttachment(w, o)
    \/ SetProfileImage(w, o) \/ ClearProfileImage(w, o)
    \/ SaveRow(w, o)

(* The worker's next statement.                                             *)
Proceed(w) == LockRow(w) \/ Upload(w) \/ Erase(w) \/ WriteRow(w) \/ Sweep(w)

Next ==
  \/ \E w \in Worker : Call(w) \/ Proceed(w) \/ StoreFails(w) \/ Crash(w)
  \/ \E o \in Owner : RemoveRow(o)

Spec == Init /\ [][Next]_vars

-----------------------------------------------------------------------------
(* Properties.                                                              *)

(* The file that a row names is in the store, however replacements, image   *)
(* changes and deletions overlap: what loses it is the end of a deletion    *)
(* between object and row, by a crash or by a call of the store that fails  *)
(* after it deleted the object, or a save of a row that was read before.    *)
FilePresent ==
  \A o \in Owner \ torn :
    file[o] \in Object \ store =>
      \E w \in Worker : HoldsLock(w, o) /\ pc[w] = "write"

(* An object that no row names is about to be named or deleted, unless two  *)
(* calls that supersede the owner's file overlapped, one was cut short, a   *)
(* failed call of the store had or should have had an effect on it, or      *)
(* the row was removed or overwritten behind the store's back.              *)
NoOrphan ==
  \A k \in store :
    LET o == issued[k] IN
    \/ file[o] = k \/ o \in leaked
    \/ \E w \in Worker : \/ new[w] = k
                         \/ pc[w] = "sweep" /\ Superseded(w) = k
=============================================================================
