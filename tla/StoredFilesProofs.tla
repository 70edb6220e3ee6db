-------------------------- MODULE StoredFilesProofs --------------------------
(***************************************************************************)
(* Theorems about StoredFiles, for all sets of rows and server processes,  *)
(* every number of objects and every number of faults.                     *)
(***************************************************************************)
EXTENDS StoredFiles, SequenceTheorems, TLAPS

(* What a handler is doing at each step, and to what kind of row.            *)
HandlerOK(w) ==
  pc[w] # "idle" =>
    /\ pc[w] = "lock" => job[w].op \in {"replace", "delete", "detach"}
    /\ pc[w] = "erase" => job[w].op \in {"delete", "detach"}
    /\ pc[w] = "upload" => job[w].op \in Uploads
    /\ pc[w] = "sweep" => job[w].op \in Supersedes /\ job[w].file \in Object
    /\ job[w].op \in Supersedes => job[w].file # None
    /\ job[w].op = "create" => pc[w] \in {"upload", "write"}
    /\ job[w].op \in {"setImage", "clearImage"} => job[w].owner \in Employee
    /\ job[w].op = "clearImage" => pc[w] \in {"write", "sweep"}
    /\ job[w].op = "setImage" => pc[w] # "lock"
    /\ job[w].op = "save" => pc[w] = "write" /\ job[w].file # None
    /\ job[w].op \in {"replace", "delete"} => job[w].owner \in Document
    /\ job[w].op = "detach" => job[w].owner \in Request
    /\ job[w].op \in {"create", "detach"} => job[w].owner \in Document \cup Request

TypeInv == TypeOK /\ \A w \in Worker : HandlerOK(w)

(* The key that a handler read belongs to the row it works on.               *)
KeysOwned ==
  \A w \in Worker :
    (pc[w] # "idle" /\ job[w].file \in Object) =>
      job[w].file \in DOMAIN issued /\ issued[job[w].file] = job[w].owner

(* The object that a handler wrote is known to nobody else.                  *)
NewIsFresh ==
  \A w \in Worker : new[w] # None =>
    /\ new[w] \in store /\ issued[new[w]] = job[w].owner
    /\ \A o \in Owner : file[o] # new[w]
    /\ \A v \in Worker : /\ pc[v] # "idle" => job[v].file # new[w]
                         /\ v # w => new[v] # new[w]

(* At most one transaction holds a row, and the row is there.                *)
LockedOnce ==
  \A v, w \in Worker, o \in Owner : HoldsLock(v, o) /\ HoldsLock(w, o) => v = w

HeldRows == \A w \in Worker, o \in Owner : HoldsLock(w, o) => file[o] # None

(* A row that is being created is not visible to any other handler.          *)
Creating ==
  \A w \in Worker : (pc[w] # "idle" /\ job[w].op = "create") =>
    /\ file[job[w].owner] = None
    /\ \A v \in Worker : (pc[v] # "idle" /\ job[v].owner = job[w].owner) => v = w

(* Overlapping handlers that supersede one file are recorded ...             *)
OverlapsMarked ==
  \A v, w \in Worker :
    (/\ pc[v] # "idle" /\ job[v].op \in Supersedes
     /\ pc[w] # "idle" /\ job[w].op \in Supersedes
     /\ job[v].owner = job[w].owner /\ v # w) => job[v].owner \in leaked

(* ... and without them the file that a handler read is the row's.           *)
ReadsCurrent ==
  \A w \in Worker :
    (pc[w] \notin {"idle", "sweep"} /\ job[w].op \in Supersedes
       /\ job[w].owner \notin leaked) =>
      \/ file[job[w].owner] = job[w].file
      \/ file[job[w].owner] = None /\ pc[w] = "lock"

(* A superseded object is no longer named when it is deleted ...             *)
SweptUnnamed ==
  \A w \in Worker : (pc[w] = "sweep" /\ job[w].owner \notin torn) =>
    file[job[w].owner] # job[w].file

(* ... and a deletion at its commit has deleted the object.                  *)
ErasedGone ==
  \A w \in Worker :
    (pc[w] = "write" /\ job[w].op \in {"delete", "detach"}) =>
      file[job[w].owner] \notin store

FileKept ==
  \A o \in Owner \ torn :
    file[o] \in Object \ store =>
      \E w \in Worker : /\ pc[w] = "write" /\ job[w].owner = o
                        /\ job[w].op \in {"delete", "detach"}

FilesInv ==
  /\ TypeInv
  /\ KeysOwned /\ NewIsFresh
  /\ LockedOnce /\ HeldRows /\ Creating
  /\ OverlapsMarked /\ ReadsCurrent
  /\ SweptUnnamed /\ ErasedGone
  /\ FileKept /\ NoOrphan

-----------------------------------------------------------------------------

-----------------------------------------------------------------------------
(* The steps, by what they do to rows and objects.                           *)

(* A call begins: what it carries and where it starts depends on its kind.   *)
Begins(w, op, o, f, step) ==
  /\ Begin(w, op, o, f, step)
  /\ CASE op = "create" ->
            /\ o \in Document \cup Request /\ file[o] = None
            /\ \A v \in Worker : pc[v] # "idle" => job[v].owner # o
            /\ \A k \in DOMAIN issued : issued[k] # o
            /\ f = None /\ step = "upload"
       [] op = "replace" ->
            o \in Document /\ file[o] # None /\ f = file[o] /\ step = "lock"
       [] op = "delete" ->
            o \in Document /\ file[o] # None /\ f = None /\ step = "lock"
       [] op = "detach" ->
            o \in Request /\ file[o] # None /\ f = None /\ step = "lock"
       [] op = "setImage" ->
            o \in Employee /\ file[o] # None /\ f = file[o] /\ step = "upload"
       [] op = "clearImage" ->
            o \in Employee /\ file[o] # None /\ f = file[o] /\ step = "write"
       [] op = "save" ->
            file[o] # None /\ f \in {file[o], NoFile} /\ step = "write"
       [] OTHER -> FALSE

(* A handler ends early; what it leaves behind is recorded.                  *)
Ends(w) ==
  /\ pc[w] # "idle" /\ Finish(w)
  /\ UNCHANGED <<file, store, issued>>
  /\ faults' \in 0..MaxFaults
  /\ leaked \subseteq leaked' /\ leaked' \subseteq leaked \cup {job[w].owner}
  /\ torn \subseteq torn' /\ torn' \subseteq torn \cup {job[w].owner}
  /\ (new[w] # None \/ pc[w] = "sweep") => job[w].owner \in leaked'
  /\ (pc[w] = "write" /\ job[w].op \in {"delete", "detach"}) => job[w].owner \in torn'

(* A handler obtains the lock of its row.                                    *)
Locks(w) ==
  /\ pc[w] = "lock" /\ Unlocked(w, job[w].owner)
  /\ file[job[w].owner] # None
  /\ Goto(w, IF job[w].op = "replace" THEN "upload" ELSE "erase")
  /\ UNCHANGED <<file, store, issued, blame, faults>>

(* A handler writes its row and commits.                                     *)
Writes(w) == WriteRow(w) /\ ~RowIsGone(w)

(* What the types say of the handlers that run.                              *)
LEMMA Running ==
  ASSUME TypeInv, NEW w \in Worker, pc[w] # "idle"
  PROVE  /\ job[w] \in Job /\ job[w] # None
         /\ job[w].op \in Operation /\ job[w].owner \in Owner
         /\ job[w].file \in Object \cup {NoFile, None}
         /\ HandlerOK(w)
         /\ new[w] # None <=> pc[w] = "write" /\ job[w].op \in Uploads
BY DEF TypeInv, TypeOK, Job

(* Keys count the writes.                                                    *)
LEMMA KeysOfStore ==
  ASSUME TypeOK
  PROVE  /\ Len(issued) \in Nat /\ DOMAIN issued = 1..Len(issued)
         /\ \A k \in DOMAIN issued : k \in Object /\ k # None /\ issued[k] \in Owner
         /\ \A k \in store : k \in DOMAIN issued
<1>1. issued \in Seq(Owner)  BY DEF TypeOK
<1>2. /\ Len(issued) \in Nat /\ DOMAIN issued = 1..Len(issued)
      /\ \A k \in DOMAIN issued : issued[k] \in Owner
  BY <1>1, LenProperties, ElementOfSeq
<1>3. \A k \in 1..Len(issued) : k \in Object /\ k # None
  BY <1>2, NoneAssumption DEF Object, NoFile
<1>. QED  BY <1>2, <1>3 DEF TypeOK

LEMMA CallBegins ==
  ASSUME TypeInv, NEW w \in Worker, Call(w)
  PROVE  \E o \in Owner, op \in Operation, f \in Object \cup {NoFile, None},
            step \in {"lock", "upload", "write"} : Begins(w, op, o, f, step)
<1>1. PICK o \in Owner :
        \/ Create(w, o)
        \/ ReplaceDocument(w, o) \/ DeleteDocument(w, o)
        \/ DeleteAttachment(w, o)
        \/ SetProfileImage(w, o) \/ ClearProfileImage(w, o)
        \/ SaveRow(w, o)
  BY DEF Call
<1>2. file[o] \in Object \cup {NoFile, None}  BY DEF TypeInv, TypeOK
<1>3. CASE Create(w, o)
  <2>1. Begins(w, "create", o, None, "upload")  BY <1>3 DEF Create, Begins
  <2>. QED  BY <2>1 DEF Operation
<1>4. CASE ReplaceDocument(w, o)
  <2>1. Begins(w, "replace", o, file[o], "lock")  BY <1>4 DEF ReplaceDocument, Begins
  <2>. QED  BY <2>1, <1>2 DEF Operation
<1>5. CASE DeleteDocument(w, o)
  <2>1. Begins(w, "delete", o, None, "lock")  BY <1>5 DEF DeleteDocument, Begins
  <2>. QED  BY <2>1 DEF Operation
<1>6. CASE DeleteAttachment(w, o)
  <2>1. Begins(w, "detach", o, None, "lock")  BY <1>6 DEF DeleteAttachment, Begins
  <2>. QED  BY <2>1 DEF Operation
<1>7. CASE SetProfileImage(w, o)
  <2>1. Begins(w, "setImage", o, file[o], "upload")
    BY <1>7 DEF SetProfileImage, Begins
  <2>. QED  BY <2>1, <1>2 DEF Operation
<1>8. CASE ClearProfileImage(w, o)
  <2>1. Begins(w, "clearImage", o, file[o], "write")
    BY <1>8 DEF ClearProfileImage, Begins
  <2>. QED  BY <2>1, <1>2 DEF Operation
<1>9. CASE SaveRow(w, o)
  <2>1. PICK f \in {file[o], NoFile} : Begin(w, "save", o, f, "write")
    BY <1>9 DEF SaveRow
  <2>2. Begins(w, "save", o, f, "write")  BY <1>9, <2>1 DEF SaveRow, Begins
  <2>. QED  BY <2>2, <1>2 DEF Operation
<1>. QED  BY <1>1, <1>3, <1>4, <1>5, <1>6, <1>7, <1>8, <1>9

LEMMA FaultEnds ==
  ASSUME FilesInv, NEW w \in Worker, (StoreFails(w) /\ FailInVain(w)) \/ Crash(w)
  PROVE  Ends(w)
<1>1. /\ pc[w] # "idle" /\ Finish(w) /\ UNCHANGED <<file, store, issued>>
      /\ faults < MaxFaults /\ faults' = faults + 1
  BY DEF StoreFails, FailInVain, Crash
<1>2. faults \in 0..MaxFaults  BY DEF FilesInv, TypeInv, TypeOK
<1>3. faults' \in 0..MaxFaults  BY <1>1, <1>2, FilesAssumption
<1>4. /\ new[w] # None <=> pc[w] = "write" /\ job[w].op \in Uploads
  BY DEF FilesInv, TypeInv, TypeOK
<1>. QED  BY <1>1, <1>3, <1>4 DEF StoreFails, FailInVain, Crash, MarkIf, Ends

LEMMA LockRowSteps ==
  ASSUME FilesInv, NEW w \in Worker, LockRow(w)
  PROVE  Ends(w) \/ Locks(w)
<1>1. new[w] = None /\ faults \in 0..MaxFaults
  BY DEF FilesInv, TypeInv, TypeOK, LockRow
<1>. QED  BY <1>1 DEF LockRow, Ends, Locks, blame

(* A profile image whose row is gone leaves an object that was given up when *)
(* the row was removed.                                                      *)
LEMMA WriteRowSteps ==
  ASSUME FilesInv, NEW w \in Worker, WriteRow(w)
  PROVE  Ends(w) \/ Writes(w)
<1>1. CASE ~RowIsGone(w)  BY <1>1 DEF Writes
<1>2. CASE RowIsGone(w)
  <2>1. pc[w] = "write" /\ job[w].op \in Supersedes /\ file[job[w].owner] = None
    BY <1>2 DEF RowIsGone, WriteRow, Supersedes
  <2>2. job[w].file # None
    BY <2>1, Running DEF FilesInv, HandlerOK
  <2>3. job[w].owner \in leaked
    BY <2>1, <2>2 DEF FilesInv, ReadsCurrent
  <2>4. faults \in 0..MaxFaults  BY DEF FilesInv, TypeInv, TypeOK
  <2>. QED  BY <1>2, <2>1, <2>3, <2>4 DEF WriteRow, RowIsGone, Ends, blame
<1>. QED  BY <1>1, <1>2

-----------------------------------------------------------------------------
(* Each kind of step keeps the invariant.                                    *)

LEMMA BeginKeeps ==
  ASSUME FilesInv, NEW w \in Worker, NEW o \in Owner, NEW op \in Operation,
         NEW f \in Object \cup {NoFile, None}, NEW step \in {"lock", "upload", "write"},
         Begins(w, op, o, f, step)
  PROVE  FilesInv'
<1>1. /\ pc[w] = "idle" /\ job[w] = None /\ new[w] = None
      /\ step # "idle" /\ step # "sweep" /\ step # "erase"
      /\ pc'[w] = step /\ job'[w] = [op |-> op, owner |-> o, file |-> f]
      /\ \A v \in Worker \ {w} : pc'[v] = pc[v] /\ job'[v] = job[v]
      /\ new' = new /\ file' = file /\ store' = store /\ issued' = issued
      /\ faults' = faults /\ torn' = torn
      /\ leaked \subseteq leaked' /\ leaked' \subseteq leaked \cup {o}
  BY DEF FilesInv, TypeInv, TypeOK, Begins, Begin, MarkIf
<1>2. job'[w] \in Job /\ job'[w] # None
      /\ job'[w].op = op /\ job'[w].owner = o /\ job'[w].file = f
  BY <1>1, NoneAssumption DEF Job
<1>3. (op \in Uploads => step # "write") /\ (op \in {"delete", "detach"} => step = "lock")
      /\ (op = "replace" => step = "lock")
  BY DEF Begins, Uploads
<1>4. TypeInv'
  <2>1. TypeOK'
    BY <1>1, <1>2, <1>3 DEF FilesInv, TypeInv, TypeOK, Begins, Begin
  <2>2. HandlerOK(w)'
    <3>1. op \in Supersedes \/ op = "save" => f # None
      BY NoneAssumption DEF Begins, NoFile, Supersedes
    <3>. QED  BY <1>1, <1>2, <3>1 DEF Begins, HandlerOK, Uploads
  <2>3. \A v \in Worker \ {w} : HandlerOK(v)'
    BY <1>1 DEF FilesInv, TypeInv, HandlerOK
  <2>. QED  BY <2>1, <2>2, <2>3 DEF TypeInv
<1>5. f \in Object => f = file[o]
  BY NoneAssumption DEF Begins, NoFile, Object
<1>6. KeysOwned'
  BY <1>1, <1>2, <1>5 DEF FilesInv, TypeInv, TypeOK, KeysOwned
<1>7. NewIsFresh'
  <2>1. \A v \in Worker : new[v] # None => new[v] # f
    BY <1>5 DEF FilesInv, TypeInv, TypeOK, NewIsFresh
  <2>2. \A v \in Worker : new[v] # None => v # w  BY <1>1
  <2>. QED  BY <1>1, <1>2, <2>1, <2>2 DEF FilesInv, NewIsFresh
<1>8. \A v \in Worker, x \in Owner : HoldsLock(v, x)' => v # w /\ HoldsLock(v, x)
  BY <1>1, <1>2, <1>3 DEF HoldsLock
<1>9. LockedOnce' /\ HeldRows'
  BY <1>1, <1>8 DEF FilesInv, LockedOnce, HeldRows
<1>10. Creating'
  <2>1. op = "create" =>
          file[o] = None /\ \A v \in Worker : pc[v] # "idle" => job[v].owner # o
    BY DEF Begins
  <2>2. \A v \in Worker : pc[v] # "idle" /\ job[v].op = "create" => job[v].owner # o
    <3>1. CASE op = "create"  BY <2>1, <3>1
    <3>2. CASE op # "create"
      <4>1. file[o] # None  BY <3>2 DEF Begins
      <4>. QED  BY <4>1 DEF FilesInv, Creating
    <3>. QED  BY <3>1, <3>2
  <2>. QED  BY <1>1, <1>2, <2>1, <2>2 DEF FilesInv, Creating
<1>11. OverlapsMarked'
  <2>1. \A v \in Worker :
          (pc[v] # "idle" /\ job[v].owner = o /\ job[v].op \in Supersedes
             /\ op \in Supersedes) => o \in leaked'
    BY <1>1 DEF Begins, Begin, MarkIf
  <2>. QED  BY <1>1, <1>2, <2>1 DEF FilesInv, OverlapsMarked
<1>12. ReadsCurrent'
  <2>1. op \in Supersedes => f = file[o]  BY DEF Begins, Supersedes
  <2>. QED  BY <1>1, <1>2, <2>1 DEF FilesInv, ReadsCurrent
<1>13. SweptUnnamed' /\ ErasedGone'
  BY <1>1, <1>2, <1>3 DEF FilesInv, SweptUnnamed, ErasedGone
<1>14. FileKept'
  BY <1>1 DEF FilesInv, FileKept
<1>15. NoOrphan'
  BY <1>1 DEF FilesInv, NoOrphan, Superseded
<1>. QED
  BY <1>4, <1>6, <1>7, <1>9, <1>10, <1>11, <1>12, <1>13, <1>14, <1>15 DEF FilesInv

LEMMA EndKeeps ==
  ASSUME FilesInv, NEW w \in Worker, Ends(w)
  PROVE  FilesInv'
<1>1. /\ pc'[w] = "idle" /\ job'[w] = None /\ new'[w] = None
      /\ \A v \in Worker \ {w} : pc'[v] = pc[v] /\ job'[v] = job[v] /\ new'[v] = new[v]
      /\ file' = file /\ store' = store /\ issued' = issued
      /\ leaked \subseteq leaked' /\ torn \subseteq torn'
  BY DEF FilesInv, TypeInv, TypeOK, Ends, Finish
<1>2. job[w].owner \in Owner  BY Running DEF FilesInv, Ends
<1>3. TypeInv'
  <2>1. TypeOK'
    BY <1>1, <1>2 DEF FilesInv, TypeInv, TypeOK, Ends, Finish
  <2>2. HandlerOK(w)'  BY <1>1 DEF HandlerOK
  <2>3. \A v \in Worker \ {w} : HandlerOK(v)'
    BY <1>1 DEF FilesInv, TypeInv, HandlerOK
  <2>. QED  BY <2>1, <2>2, <2>3 DEF TypeInv
<1>4. KeysOwned' /\ NewIsFresh'
  BY <1>1 DEF FilesInv, KeysOwned, NewIsFresh
<1>5. \A v \in Worker, x \in Owner : HoldsLock(v, x)' => v # w /\ HoldsLock(v, x)
  BY <1>1 DEF HoldsLock
<1>6. LockedOnce' /\ HeldRows'
  BY <1>1, <1>5 DEF FilesInv, LockedOnce, HeldRows
<1>7. Creating' /\ OverlapsMarked'
  BY <1>1 DEF FilesInv, Creating, OverlapsMarked
<1>8. ReadsCurrent' /\ SweptUnnamed' /\ ErasedGone'
  BY <1>1 DEF FilesInv, ReadsCurrent, SweptUnnamed, ErasedGone
<1>9. FileKept'
  BY <1>1 DEF FilesInv, FileKept, Ends
<1>10. NoOrphan'
  <2>. SUFFICES ASSUME NEW k \in store', issued'[k] \notin leaked', file'[issued'[k]] # k
       PROVE  \E v \in Worker : \/ new'[v] = k
                                \/ pc'[v] = "sweep" /\ Superseded(v)' = k
    BY DEF NoOrphan
  <2>1. PICK v \in Worker : new[v] = k \/ (pc[v] = "sweep" /\ Superseded(v) = k)
    BY <1>1 DEF FilesInv, NoOrphan
  <2>2. k # None /\ k \in DOMAIN issued
    BY <1>1, KeysOfStore DEF FilesInv, TypeInv
  <2>3. issued[k] = job[v].owner
    <3>1. CASE new[v] = k  BY <3>1, <2>2 DEF FilesInv, NewIsFresh
    <3>2. CASE pc[v] = "sweep" /\ Superseded(v) = k
      <4>1. job[v].file = k /\ k \in Object
        BY <3>2 DEF FilesInv, TypeInv, HandlerOK, Superseded
      <4>. QED  BY <3>2, <4>1 DEF FilesInv, KeysOwned
    <3>. QED  BY <2>1, <3>1, <3>2
  <2>4. v # w  BY <1>1, <2>1, <2>2, <2>3 DEF Ends
  <2>. QED  BY <1>1, <2>1, <2>4 DEF Superseded
<1>. QED  BY <1>3, <1>4, <1>6, <1>7, <1>8, <1>9, <1>10 DEF FilesInv

LEMMA LockKeeps ==
  ASSUME FilesInv, NEW w \in Worker, Locks(w)
  PROVE  FilesInv'
<1>1. /\ pc[w] = "lock" /\ pc'[w] = IF job[w].op = "replace" THEN "upload" ELSE "erase"
      /\ pc'[w] # "idle" /\ pc'[w] # "sweep" /\ pc'[w] # "write" /\ pc'[w] # "lock"
      /\ \A v \in Worker \ {w} : pc'[v] = pc[v]
      /\ job' = job /\ new' = new
      /\ file' = file /\ store' = store /\ issued' = issued
      /\ leaked' = leaked /\ torn' = torn /\ faults' = faults
  BY DEF FilesInv, TypeInv, TypeOK, Locks, Goto, blame
<1>2. /\ job[w].owner \in Owner /\ HandlerOK(w)
      /\ job[w].op \in {"replace", "delete", "detach"}
  BY <1>1, Running DEF FilesInv, HandlerOK
<1>3. TypeInv'
  <2>1. TypeOK'
    BY <1>1 DEF FilesInv, TypeInv, TypeOK, Locks, Goto
  <2>2. HandlerOK(w)'
    BY <1>1, <1>2 DEF HandlerOK, Uploads
  <2>3. \A v \in Worker \ {w} : HandlerOK(v)'
    BY <1>1 DEF FilesInv, TypeInv, HandlerOK
  <2>. QED  BY <2>1, <2>2, <2>3 DEF TypeInv
<1>4. KeysOwned' /\ NewIsFresh'
  BY <1>1 DEF FilesInv, KeysOwned, NewIsFresh
<1>5. \A v \in Worker, x \in Owner : HoldsLock(v, x)' =>
        HoldsLock(v, x) \/ (v = w /\ x = job[w].owner)
  BY <1>1 DEF HoldsLock
<1>6. \A v \in Worker \ {w} : ~HoldsLock(v, job[w].owner)
  BY DEF Locks, Unlocked
<1>7. \A x \in Owner : ~HoldsLock(w, x)
  BY <1>1 DEF HoldsLock
<1>8. LockedOnce' /\ HeldRows'
  BY <1>1, <1>2, <1>5, <1>6, <1>7 DEF FilesInv, LockedOnce, HeldRows, Locks
<1>9. Creating' /\ OverlapsMarked'
  BY <1>1 DEF FilesInv, Creating, OverlapsMarked
<1>10. ReadsCurrent'
  BY <1>1, <1>2 DEF FilesInv, ReadsCurrent, Locks
<1>11. SweptUnnamed' /\ ErasedGone'
  BY <1>1 DEF FilesInv, SweptUnnamed, ErasedGone
<1>12. FileKept'
  BY <1>1 DEF FilesInv, FileKept
<1>13. NoOrphan'
  BY <1>1 DEF FilesInv, NoOrphan, Superseded
<1>. QED
  BY <1>3, <1>4, <1>8, <1>9, <1>10, <1>11, <1>12, <1>13 DEF FilesInv

(* The next key is nobody's, and one more write leaves the other keys alone. *)
LEMMA NextKey ==
  ASSUME FilesInv, NEW o \in Owner
  PROVE  LET k == Len(issued) + 1
             next == Append(issued, o)
         IN
         /\ k \in Object /\ k # None /\ k \notin DOMAIN issued /\ k \notin store
         /\ next \in Seq(Owner) /\ DOMAIN next = DOMAIN issued \cup {k}
         /\ next[k] = o /\ \A j \in DOMAIN issued : next[j] = issued[j]
         /\ \A x \in Owner : file[x] # k
         /\ \A v \in Worker : pc[v] # "idle" => job[v].file # k
         /\ \A v \in Worker : new[v] # k
<1>. DEFINE k == Len(issued) + 1
            next == Append(issued, o)
<1>1. issued \in Seq(Owner) /\ Len(issued) \in Nat /\ DOMAIN issued = 1..Len(issued)
  BY KeysOfStore DEF FilesInv, TypeInv, TypeOK
<1>2. /\ next \in Seq(Owner) /\ DOMAIN next = 1..k
      /\ next[k] = o /\ \A j \in DOMAIN issued : next[j] = issued[j]
  BY <1>1
<1>3. /\ k \in Object /\ k # None /\ k \notin DOMAIN issued
      /\ 1..k = (1..Len(issued)) \cup {k}
  BY <1>1, NoneAssumption DEF Object, NoFile
<1>. HIDE DEF k, next
<1>4. /\ \A x \in Owner : file[x] # k
      /\ \A v \in Worker : pc[v] # "idle" => job[v].file # k
      /\ \A v \in Worker : new[v] # k
      /\ k \notin store
  BY <1>3 DEF FilesInv, TypeInv, TypeOK, KeysOwned, NewIsFresh
<1>5. DOMAIN next = DOMAIN issued \cup {k}  BY <1>1, <1>2, <1>3
<1>. QED  BY <1>2, <1>3, <1>4, <1>5 DEF k, next

LEMMA UploadKeeps ==
  ASSUME FilesInv, NEW w \in Worker, Upload(w)
  PROVE  FilesInv'
<1>. DEFINE k == Len(issued) + 1
            o == job[w].owner
<1>1. /\ pc[w] = "upload" /\ pc'[w] = "write" /\ new'[w] = k
      /\ \A v \in Worker \ {w} : pc'[v] = pc[v] /\ new'[v] = new[v]
      /\ issued' = Append(issued, o) /\ store' = store \cup {k}
      /\ job' = job /\ file' = file
      /\ leaked' = leaked /\ torn' = torn /\ faults' = faults
  BY DEF FilesInv, TypeInv, TypeOK, Upload, FreshKey, blame
<1>2. /\ o \in Owner /\ HandlerOK(w) /\ job[w].op \in Uploads /\ new[w] = None
  BY <1>1, Running DEF FilesInv, HandlerOK
<1>3. /\ k \in Object /\ k # None /\ k \notin DOMAIN issued
      /\ issued' \in Seq(Owner) /\ DOMAIN issued' = DOMAIN issued \cup {k}
      /\ issued'[k] = o /\ \A j \in DOMAIN issued : issued'[j] = issued[j]
  BY <1>1, <1>2, NextKey
<1>4. /\ \A x \in Owner : file[x] # k
      /\ \A v \in Worker : pc[v] # "idle" => job[v].file # k
      /\ \A v \in Worker : new[v] # k
      /\ k \notin store
  BY <1>2, NextKey
<1>. HIDE DEF k, o
<1>5. TypeInv'
  <2>1. TypeOK'
    BY <1>1, <1>2, <1>3 DEF FilesInv, TypeInv, TypeOK, Upload
  <2>2. HandlerOK(w)'
    BY <1>1, <1>2 DEF HandlerOK, Uploads, Supersedes
  <2>3. \A v \in Worker \ {w} : HandlerOK(v)'
    BY <1>1 DEF FilesInv, TypeInv, HandlerOK
  <2>. QED  BY <2>1, <2>2, <2>3 DEF TypeInv
<1>6. KeysOwned'
  BY <1>1, <1>3 DEF FilesInv, KeysOwned
<1>7. NewIsFresh'
  <2>1. \A v \in Worker : new[v] # None => new[v] \in DOMAIN issued
    BY DEF FilesInv, TypeInv, TypeOK, NewIsFresh
  <2>2. NewIsFresh  BY DEF FilesInv
  <2>3. /\ new'[w] \in store' /\ issued'[new'[w]] = job'[w].owner
        /\ \A x \in Owner : file'[x] # new'[w]
        /\ \A v \in Worker : /\ pc'[v] # "idle" => job'[v].file # new'[w]
                             /\ v # w => new'[v] # new'[w]
    BY <1>1, <1>3, <1>4 DEF o
  <2>4. ASSUME NEW u \in Worker \ {w}, new'[u] # None
        PROVE  /\ new'[u] \in store' /\ issued'[new'[u]] = job'[u].owner
               /\ \A x \in Owner : file'[x] # new'[u]
               /\ \A v \in Worker : /\ pc'[v] # "idle" => job'[v].file # new'[u]
                                    /\ v # u => new'[v] # new'[u]
    BY <1>1, <1>3, <1>4, <2>1, <2>2, <2>4 DEF NewIsFresh
  <2>. QED  BY <2>3, <2>4 DEF NewIsFresh
<1>8. \A v \in Worker, x \in Owner : HoldsLock(v, x)' => HoldsLock(v, x)
  BY <1>1, <1>2 DEF HoldsLock, Uploads
<1>9. LockedOnce' /\ HeldRows'
  BY <1>1, <1>8 DEF FilesInv, LockedOnce, HeldRows
<1>10. Creating' /\ OverlapsMarked'
  BY <1>1 DEF FilesInv, Creating, OverlapsMarked
<1>11. ReadsCurrent' /\ SweptUnnamed'
  BY <1>1 DEF FilesInv, ReadsCurrent, SweptUnnamed
<1>12. ErasedGone'
  <2>1. \A v \in Worker : pc'[v] = "write" /\ job'[v].op \in {"delete", "detach"} => v # w
    BY <1>1, <1>2 DEF Uploads
  <2>2. \A v \in Worker : pc[v] # "idle" => job[v].owner \in Owner
    BY Running DEF FilesInv
  <2>. QED  BY <1>1, <1>4, <2>1, <2>2 DEF FilesInv, ErasedGone
<1>13. FileKept'
  <2>1. \A v \in Worker : pc[v] = "write" => v # w  BY <1>1
  <2>. QED  BY <1>1, <2>1 DEF FilesInv, FileKept
<1>14. NoOrphan'
  <2>. SUFFICES ASSUME NEW j \in store', issued'[j] \notin leaked', file'[issued'[j]] # j
       PROVE  \E v \in Worker : \/ new'[v] = j
                                \/ pc'[v] = "sweep" /\ Superseded(v)' = j
    BY DEF NoOrphan
  <2>1. CASE j = k  BY <1>1, <2>1
  <2>2. CASE j # k
    <3>1. j \in store /\ issued'[j] = issued[j]
      BY <1>1, <1>3, <2>2, KeysOfStore DEF FilesInv, TypeInv
    <3>2. PICK v \in Worker : new[v] = j \/ (pc[v] = "sweep" /\ Superseded(v) = j)
      BY <1>1, <3>1 DEF FilesInv, NoOrphan
    <3>3. j # None  BY <3>1, KeysOfStore DEF FilesInv, TypeInv
    <3>4. v # w  BY <1>1, <1>2, <3>2, <3>3
    <3>. QED  BY <1>1, <3>2, <3>4 DEF Superseded
  <2>. QED  BY <2>1, <2>2
<1>. QED
  BY <1>5, <1>6, <1>7, <1>9, <1>10, <1>11, <1>12, <1>13, <1>14 DEF FilesInv

LEMMA EraseKeeps ==
  ASSUME FilesInv, NEW w \in Worker, Erase(w)
  PROVE  FilesInv'
<1>1. /\ pc[w] = "erase" /\ pc'[w] = "write"
      /\ \A v \in Worker \ {w} : pc'[v] = pc[v]
      /\ store' = store \ {file[job[w].owner]}
      /\ job' = job /\ new' = new /\ file' = file /\ issued' = issued
      /\ leaked' = leaked /\ torn' = torn /\ faults' = faults
  BY DEF FilesInv, TypeInv, TypeOK, Erase, Goto, blame
<1>2. /\ job[w].owner \in Owner /\ HandlerOK(w)
      /\ job[w].op \in {"delete", "detach"}
      /\ job[w].op \notin Uploads /\ job[w].op \notin Supersedes
  BY <1>1, Running DEF FilesInv, HandlerOK, Uploads, Supersedes
<1>3. TypeInv'
  <2>1. TypeOK'
    BY <1>1, <1>2 DEF FilesInv, TypeInv, TypeOK, Erase, Goto
  <2>2. HandlerOK(w)'
    BY <1>1, <1>2 DEF HandlerOK, Uploads
  <2>3. \A v \in Worker \ {w} : HandlerOK(v)'
    BY <1>1 DEF FilesInv, TypeInv, HandlerOK
  <2>. QED  BY <2>1, <2>2, <2>3 DEF TypeInv
<1>4. KeysOwned' /\ NewIsFresh'
  BY <1>1, <1>2 DEF FilesInv, KeysOwned, NewIsFresh
<1>5. \A v \in Worker, x \in Owner : HoldsLock(v, x)' => HoldsLock(v, x)
  BY <1>1, <1>2 DEF HoldsLock
<1>6. LockedOnce' /\ HeldRows'
  BY <1>1, <1>5 DEF FilesInv, LockedOnce, HeldRows
<1>7. Creating' /\ OverlapsMarked'
  BY <1>1 DEF FilesInv, Creating, OverlapsMarked
<1>8. ReadsCurrent' /\ SweptUnnamed' /\ ErasedGone'
  BY <1>1, <1>2 DEF FilesInv, ReadsCurrent, SweptUnnamed, ErasedGone
<1>9. FileKept'
  <2>. SUFFICES ASSUME NEW x \in Owner \ torn', file'[x] \in Object \ store'
       PROVE  \E v \in Worker : /\ pc'[v] = "write" /\ job'[v].owner = x
                                /\ job'[v].op \in {"delete", "detach"}
    BY DEF FileKept
  <2>1. CASE x = job[w].owner  BY <1>1, <1>2, <2>1
  <2>2. CASE x # job[w].owner
    <3>1. file[x] # file[job[w].owner]
      BY <1>1, <1>2, <2>2 DEF FilesInv, TypeInv, TypeOK
    <3>. QED  BY <1>1, <3>1 DEF FilesInv, FileKept
  <2>. QED  BY <2>1, <2>2
<1>10. NoOrphan'
  BY <1>1 DEF FilesInv, NoOrphan, Superseded
<1>. QED
  BY <1>3, <1>4, <1>6, <1>7, <1>8, <1>9, <1>10 DEF FilesInv

(* What a failing call of the store does besides.                            *)
LEMMA FailEffect ==
  ASSUME FilesInv, NEW w \in Worker, StoreFails(w)
  PROVE  /\ pc'[w] = "idle" /\ job'[w] = None /\ new'[w] = None
         /\ \A v \in Worker \ {w} : pc'[v] = pc[v] /\ job'[v] = job[v] /\ new'[v] = new[v]
         /\ pc' \in [Worker -> {"idle", "lock", "erase", "upload", "write", "sweep"}]
         /\ job' \in [Worker -> Job \cup {None}] /\ new' \in [Worker -> Object \cup {None}]
         /\ file' = file /\ faults' \in 0..MaxFaults
         /\ pc[w] # "idle" /\ job[w].owner \in Owner /\ HandlerOK(w)
         /\ pc[w] # "write" => new[w] = None
<1>1. /\ pc'[w] = "idle" /\ job'[w] = None /\ new'[w] = None
      /\ \A v \in Worker \ {w} : pc'[v] = pc[v] /\ job'[v] = job[v] /\ new'[v] = new[v]
      /\ pc' \in [Worker -> {"idle", "lock", "erase", "upload", "write", "sweep"}]
      /\ job' \in [Worker -> Job \cup {None}] /\ new' \in [Worker -> Object \cup {None}]
  BY DEF FilesInv, TypeInv, TypeOK, StoreFails, Finish
<1>2. file' = file /\ faults' \in 0..MaxFaults
  BY FilesAssumption DEF FilesInv, TypeInv, TypeOK, StoreFails
<1>3. pc[w] # "idle"  BY DEF StoreFails, FailUpload, FailErase, FailInVain
<1>4. job[w].owner \in Owner /\ HandlerOK(w) /\ (pc[w] # "write" => new[w] = None)
  BY <1>3, Running DEF FilesInv
<1>. QED  BY <1>1, <1>2, <1>3, <1>4

(* A handler that ends leaves the rest of the invariant to the others.       *)
LEMMA FailKeepsRest ==
  ASSUME FilesInv, NEW w \in Worker, StoreFails(w), leaked \subseteq leaked',
         torn \subseteq torn'
  PROVE  /\ \A v \in Worker : HandlerOK(v)'
         /\ LockedOnce' /\ HeldRows' /\ Creating'
         /\ OverlapsMarked' /\ ReadsCurrent' /\ SweptUnnamed'
<1>1. /\ pc'[w] = "idle" /\ job'[w] = None /\ file' = file
      /\ \A v \in Worker \ {w} : pc'[v] = pc[v] /\ job'[v] = job[v]
  BY FailEffect
<1>2. \A v \in Worker : HandlerOK(v)'
  <2>1. HandlerOK(w)'  BY <1>1 DEF HandlerOK
  <2>2. \A v \in Worker \ {w} : HandlerOK(v)'
    BY <1>1 DEF FilesInv, TypeInv, HandlerOK
  <2>. QED  BY <2>1, <2>2
<1>3. \A v \in Worker, x \in Owner : HoldsLock(v, x)' => v # w /\ HoldsLock(v, x)
  BY <1>1 DEF HoldsLock
<1>4. LockedOnce' /\ HeldRows'
  BY <1>1, <1>3 DEF FilesInv, LockedOnce, HeldRows
<1>5. Creating' /\ OverlapsMarked'
  BY <1>1 DEF FilesInv, Creating, OverlapsMarked
<1>6. ReadsCurrent' /\ SweptUnnamed'
  BY <1>1 DEF FilesInv, ReadsCurrent, SweptUnnamed
<1>. QED  BY <1>2, <1>4, <1>5, <1>6

(* An object that was written although the call failed is recorded.          *)
LEMMA FailUploadKeeps ==
  ASSUME FilesInv, NEW w \in Worker, StoreFails(w), FailUpload(w)
  PROVE  FilesInv'
<1>. DEFINE k == Len(issued) + 1
            o == job[w].owner
<1>1. /\ pc[w] = "upload" /\ issued' = Append(issued, o) /\ store' = store \cup {k}
      /\ leaked' = leaked \cup {o} /\ torn' = torn
  BY DEF FailUpload, FreshKey, MarkIf
<1>2. /\ o \in Owner /\ new[w] = None
      /\ pc'[w] = "idle" /\ job'[w] = None /\ new'[w] = None /\ file' = file
      /\ \A v \in Worker \ {w} : pc'[v] = pc[v] /\ job'[v] = job[v] /\ new'[v] = new[v]
  BY <1>1, FailEffect
<1>3. /\ k \in Object /\ k # None /\ k \notin DOMAIN issued /\ k \notin store
      /\ issued' \in Seq(Owner) /\ DOMAIN issued' = DOMAIN issued \cup {k}
      /\ issued'[k] = o /\ \A j \in DOMAIN issued : issued'[j] = issued[j]
      /\ \A x \in Owner : file[x] # k
  BY <1>1, <1>2, NextKey
<1>. HIDE DEF k, o
<1>4. /\ \A v \in Worker : HandlerOK(v)'
      /\ LockedOnce' /\ HeldRows' /\ Creating'
      /\ OverlapsMarked' /\ ReadsCurrent' /\ SweptUnnamed'
  BY <1>1, FailKeepsRest
<1>5. TypeInv'
  <2>1. TypeOK
    BY DEF FilesInv, TypeInv
  <2>2. /\ file' \in [Owner -> Object \cup {NoFile, None}] /\ store' \subseteq DOMAIN issued'
        /\ leaked' \subseteq Owner /\ torn' \subseteq Owner
    BY <1>1, <1>2, <1>3, <2>1 DEF TypeOK
  <2>3. \A v \in Worker : /\ pc'[v] = "idle" <=> job'[v] = None
                          /\ new'[v] # None <=> pc'[v] = "write" /\ job'[v].op \in Uploads
    BY <1>2, <2>1 DEF TypeOK
  <2>4. \A x \in Owner : file'[x] \in Object =>
          file'[x] \in DOMAIN issued' /\ issued'[file'[x]] = x
    BY <1>2, <1>3, <2>1 DEF TypeOK
  <2>. QED  BY <1>3, <1>4, <2>2, <2>3, <2>4, FailEffect DEF TypeInv, TypeOK
<1>6. KeysOwned'
  BY <1>2, <1>3 DEF FilesInv, KeysOwned
<1>7. NewIsFresh'
  <2>1. \A v \in Worker : new[v] # None => new[v] \in DOMAIN issued
    BY DEF FilesInv, TypeInv, TypeOK, NewIsFresh
  <2>2. NewIsFresh  BY DEF FilesInv
  <2>3. ASSUME NEW u \in Worker \ {w}, new'[u] # None
        PROVE  /\ new'[u] \in store' /\ issued'[new'[u]] = job'[u].owner
               /\ \A x \in Owner : file'[x] # new'[u]
               /\ \A v \in Worker : /\ pc'[v] # "idle" => job'[v].file # new'[u]
                                    /\ v # u => new'[v] # new'[u]
    BY <1>1, <1>2, <1>3, <2>1, <2>2, <2>3 DEF NewIsFresh
  <2>. QED  BY <1>2, <2>3 DEF NewIsFresh
<1>8. ErasedGone'
  <2>1. \A v \in Worker : pc[v] # "idle" => job[v].owner \in Owner
    BY Running DEF FilesInv
  <2>. QED  BY <1>1, <1>2, <1>3, <2>1 DEF FilesInv, ErasedGone
<1>9. FileKept'
  <2>1. \A v \in Worker : pc[v] = "write" => v # w  BY <1>1
  <2>. QED  BY <1>1, <1>2, <2>1 DEF FilesInv, FileKept
<1>10. NoOrphan'
  <2>. SUFFICES ASSUME NEW j \in store', issued'[j] \notin leaked', file'[issued'[j]] # j
       PROVE  \E v \in Worker : \/ new'[v] = j
                                \/ pc'[v] = "sweep" /\ Superseded(v)' = j
    BY DEF NoOrphan
  <2>1. j # k  BY <1>1, <1>3
  <2>2. j \in store /\ issued'[j] = issued[j]
    BY <1>1, <1>3, <2>1, KeysOfStore DEF FilesInv, TypeInv
  <2>3. PICK v \in Worker : new[v] = j \/ (pc[v] = "sweep" /\ Superseded(v) = j)
    BY <1>1, <1>2, <2>2 DEF FilesInv, NoOrphan
  <2>4. j # None  BY <2>2, KeysOfStore DEF FilesInv, TypeInv
  <2>5. v # w  BY <1>1, <1>2, <2>3, <2>4
  <2>. QED  BY <1>2, <2>3, <2>5 DEF Superseded
<1>. QED  BY <1>4, <1>5, <1>6, <1>7, <1>8, <1>9, <1>10 DEF FilesInv

(* A row whose object was deleted although the call failed is recorded.      *)
LEMMA FailEraseKeeps ==
  ASSUME FilesInv, NEW w \in Worker, StoreFails(w), FailErase(w)
  PROVE  FilesInv'
<1>. DEFINE o == job[w].owner
<1>1. /\ pc[w] = "erase" /\ issued' = issued /\ store' = store \ {file[o]}
      /\ leaked' = leaked /\ torn' = torn \cup {o}
  BY DEF FailErase, MarkIf
<1>2. /\ o \in Owner /\ new[w] = None
      /\ pc'[w] = "idle" /\ job'[w] = None /\ new'[w] = None /\ file' = file
      /\ \A v \in Worker \ {w} : pc'[v] = pc[v] /\ job'[v] = job[v] /\ new'[v] = new[v]
  BY <1>1, FailEffect
<1>. HIDE DEF o
<1>3. /\ \A v \in Worker : HandlerOK(v)'
      /\ LockedOnce' /\ HeldRows' /\ Creating'
      /\ OverlapsMarked' /\ ReadsCurrent' /\ SweptUnnamed'
  BY <1>1, FailKeepsRest
<1>4. TypeInv'
  <2>1. TypeOK
    BY DEF FilesInv, TypeInv
  <2>2. \A v \in Worker : /\ pc'[v] = "idle" <=> job'[v] = None
                          /\ new'[v] # None <=> pc'[v] = "write" /\ job'[v].op \in Uploads
    BY <1>2, <2>1 DEF TypeOK
  <2>3. /\ store' \subseteq DOMAIN issued' /\ issued' \in Seq(Owner)
        /\ leaked' \subseteq Owner /\ torn' \subseteq Owner
        /\ file' \in [Owner -> Object \cup {NoFile, None}]
        /\ \A x \in Owner : file'[x] \in Object =>
             file'[x] \in DOMAIN issued' /\ issued'[file'[x]] = x
    BY <1>1, <1>2, <2>1 DEF TypeOK
  <2>. QED  BY <1>3, <2>2, <2>3, FailEffect DEF TypeInv, TypeOK
<1>5. KeysOwned'
  BY <1>1, <1>2 DEF FilesInv, KeysOwned
<1>6. NewIsFresh'
  <2>1. NewIsFresh  BY DEF FilesInv
  <2>2. \A v \in Worker : new[v] # None => file[o] # new[v]  BY <1>2, <2>1 DEF NewIsFresh
  <2>. QED  BY <1>1, <1>2, <2>1, <2>2 DEF NewIsFresh
<1>7. ErasedGone'
  BY <1>1, <1>2 DEF FilesInv, ErasedGone
<1>8. FileKept'
  <2>. SUFFICES ASSUME NEW x \in Owner \ torn', file'[x] \in Object \ store'
       PROVE  \E v \in Worker : /\ pc'[v] = "write" /\ job'[v].owner = x
                                /\ job'[v].op \in {"delete", "detach"}
    BY DEF FileKept
  <2>1. x # o  BY <1>1
  <2>2. file[x] # file[o]  BY <1>2, <2>1 DEF FilesInv, TypeInv, TypeOK
  <2>3. \A v \in Worker : pc[v] = "write" => v # w  BY <1>1
  <2>. QED  BY <1>1, <1>2, <2>2, <2>3 DEF FilesInv, FileKept
<1>9. NoOrphan'
  <2>1. \A j \in store : j # None  BY KeysOfStore DEF FilesInv, TypeInv
  <2>2. NoOrphan  BY DEF FilesInv
  <2>. QED  BY <1>1, <1>2, <2>1, <2>2 DEF NoOrphan, Superseded
<1>. QED  BY <1>3, <1>4, <1>5, <1>6, <1>7, <1>8, <1>9 DEF FilesInv

(* What a commit writes in the row belongs to the row, and is either what it *)
(* held, an object that nobody else knows, or no object at all.              *)
LEMMA WrittenOwned ==
  ASSUME FilesInv, NEW w \in Worker, pc[w] = "write"
  PROVE  /\ Written(w) \in Object \cup {NoFile, None}
         /\ Written(w) \in Object =>
              Written(w) \in DOMAIN issued /\ issued[Written(w)] = job[w].owner
         /\ CASE job[w].op \in Uploads -> new[w] # None /\ Written(w) = new[w]
              [] job[w].op = "save" -> Written(w) = job[w].file
              [] job[w].op = "delete" -> Written(w) = None
              [] job[w].op \in {"detach", "clearImage"} -> Written(w) = NoFile
              [] OTHER -> FALSE
<1>1. /\ job[w].op \in Operation /\ job[w].owner \in Owner
      /\ job[w].file \in Object \cup {NoFile, None}
      /\ new[w] # None <=> job[w].op \in Uploads
  BY Running DEF FilesInv
<1>2. new[w] # None =>
        /\ new[w] \in Object /\ new[w] \in DOMAIN issued /\ issued[new[w]] = job[w].owner
  BY DEF FilesInv, TypeInv, TypeOK, NewIsFresh
<1>3. job[w].file \in Object =>
        job[w].file \in DOMAIN issued /\ issued[job[w].file] = job[w].owner
  BY DEF FilesInv, KeysOwned
<1>4. NoFile \notin Object /\ None \notin Object
  BY NoneAssumption DEF Object, NoFile
<1>5. CASE job[w].op \in Uploads
  BY <1>1, <1>2, <1>5 DEF Written, Uploads
<1>6. CASE job[w].op \notin Uploads
  BY <1>1, <1>3, <1>4, <1>6 DEF Written, Uploads, Operation
<1>. QED  BY <1>5, <1>6

LEMMA WriteKeeps ==
  ASSUME FilesInv, NEW w \in Worker, Writes(w)
  PROVE  FilesInv'
<1>. DEFINE o == job[w].owner
            x == Written(w)
            stale == job[w].op = "save" /\ file[o] # x
            sweeps == job[w].op \in Supersedes /\ job[w].file \in Object
<1>1. /\ pc[w] = "write" /\ Unlocked(w, o)
      /\ file' = [file EXCEPT ![o] = x]
      /\ leaked' = IF stale THEN leaked \cup {o} ELSE leaked
      /\ torn' = IF stale /\ x # NoFile THEN torn \cup {o} ELSE torn
      /\ pc'[w] = IF sweeps THEN "sweep" ELSE "idle"
      /\ new'[w] = None
      /\ job'[w] = IF sweeps THEN job[w] ELSE None
      /\ \A v \in Worker \ {w} : pc'[v] = pc[v] /\ job'[v] = job[v] /\ new'[v] = new[v]
      /\ store' = store /\ issued' = issued /\ faults' = faults
  BY DEF FilesInv, TypeInv, TypeOK, Writes, WriteRow, MarkIf, Finish, Superseded
<1>2. /\ o \in Owner /\ HandlerOK(w) /\ job[w].op \in Operation /\ job[w] # None
      /\ new[w] # None <=> job[w].op \in Uploads
  BY <1>1, Running DEF FilesInv
<1>3. /\ x \in Object \cup {NoFile, None}
      /\ x \in Object => x \in DOMAIN issued /\ issued[x] = o
      /\ job[w].op \in Uploads => new[w] # None /\ x = new[w]
      /\ job[w].op = "save" => x = job[w].file
      /\ job[w].op = "delete" => x = None
      /\ job[w].op \in {"detach", "clearImage"} => x = NoFile
  BY <1>1, WrittenOwned DEF Uploads
<1>4. /\ file'[o] = x
      /\ \A y \in Owner \ {o} : file'[y] = file[y]
      /\ file \in [Owner -> Object \cup {NoFile, None}]
      /\ file' \in [Owner -> Object \cup {NoFile, None}]
  BY <1>1, <1>2, <1>3 DEF FilesInv, TypeInv, TypeOK
<1>5. NoFile \notin Object /\ None \notin Object /\ NoFile # None
  BY NoneAssumption DEF Object, NoFile
<1>6. /\ \A v \in Worker \ {w} : ~HoldsLock(v, o)
      /\ \A v \in Worker, y \in Owner : HoldsLock(v, y)' => v # w /\ HoldsLock(v, y)
  BY <1>1 DEF Unlocked, HoldsLock
<1>7. stale => x = job[w].file /\ x # None
  BY <1>1, <1>2, <1>3 DEF HandlerOK
<1>. HIDE DEF o, x, stale, sweeps
<1>8. job[w].owner = o  BY DEF o
<1>9. sweeps => job[w].op \in Supersedes /\ job[w].file \in Object  BY DEF sweeps
<1>10. TypeInv'
  <2>1. /\ pc' \in [Worker -> {"idle", "lock", "erase", "upload", "write", "sweep"}]
        /\ job' \in [Worker -> Job \cup {None}]
        /\ new' \in [Worker -> Object \cup {None}]
    BY DEF FilesInv, TypeInv, TypeOK, Writes, WriteRow, Finish
  <2>2. \A y \in Owner : file'[y] \in Object =>
          file'[y] \in DOMAIN issued' /\ issued'[file'[y]] = y
    BY <1>1, <1>3, <1>4 DEF FilesInv, TypeInv, TypeOK
  <2>3. \A v \in Worker : /\ pc'[v] = "idle" <=> job'[v] = None
                          /\ new'[v] # None <=> pc'[v] = "write" /\ job'[v].op \in Uploads
    BY <1>1, <1>2 DEF FilesInv, TypeInv, TypeOK
  <2>4. /\ leaked' \subseteq Owner /\ torn' \subseteq Owner /\ faults' \in 0..MaxFaults
        /\ store' \subseteq DOMAIN issued' /\ issued' \in Seq(Owner)
    BY <1>1, <1>2 DEF FilesInv, TypeInv, TypeOK
  <2>5. TypeOK'  BY <1>4, <2>1, <2>2, <2>3, <2>4 DEF TypeOK
  <2>6. HandlerOK(w)'
    BY <1>1, <1>2, <1>9 DEF HandlerOK, Supersedes
  <2>7. \A v \in Worker \ {w} : HandlerOK(v)'
    BY <1>1 DEF FilesInv, TypeInv, HandlerOK
  <2>. QED  BY <2>5, <2>6, <2>7 DEF TypeInv
<1>11. KeysOwned'
  BY <1>1 DEF FilesInv, KeysOwned
<1>12. NewIsFresh'
  <2>. SUFFICES ASSUME NEW u \in Worker, new'[u] # None
       PROVE  /\ new'[u] \in store' /\ issued'[new'[u]] = job'[u].owner
              /\ \A y \in Owner : file'[y] # new'[u]
              /\ \A v \in Worker : /\ pc'[v] # "idle" => job'[v].file # new'[u]
                                   /\ v # u => new'[v] # new'[u]
    BY DEF NewIsFresh
  <2>1. u # w /\ new'[u] = new[u] /\ new[u] # None /\ job'[u] = job[u]  BY <1>1
  <2>2. /\ new[u] \in store /\ issued[new[u]] = job[u].owner
        /\ \A y \in Owner : file[y] # new[u]
        /\ \A v \in Worker : /\ pc[v] # "idle" => job[v].file # new[u]
                             /\ v # u => new[v] # new[u]
    BY <2>1 DEF FilesInv, NewIsFresh
  <2>3. new[u] \in Object  BY <2>1 DEF FilesInv, TypeInv, TypeOK
  <2>4. x # new[u]
    BY <1>1, <1>2, <1>3, <1>5, <2>1, <2>2, <2>3, WrittenOwned DEF Operation, Uploads, x
  <2>. QED  BY <1>1, <1>4, <2>1, <2>2, <2>4
<1>13. LockedOnce' /\ HeldRows'
  BY <1>1, <1>4, <1>6 DEF FilesInv, LockedOnce, HeldRows
<1>14. Creating'
  <2>. SUFFICES ASSUME NEW u \in Worker, pc'[u] # "idle", job'[u].op = "create"
       PROVE  /\ file'[job'[u].owner] = None
              /\ \A v \in Worker : (pc'[v] # "idle" /\ job'[v].owner = job'[u].owner) => v = u
    BY DEF Creating
  <2>1. u # w /\ pc[u] # "idle" /\ job'[u] = job[u] /\ job[u].op = "create"
    BY <1>1, <1>9 DEF Supersedes
  <2>2. /\ file[job[u].owner] = None
        /\ \A v \in Worker : (pc[v] # "idle" /\ job[v].owner = job[u].owner) => v = u
    BY <2>1 DEF FilesInv, Creating
  <2>3. job[u].owner # o  BY <1>1, <1>8, <2>1, <2>2
  <2>4. job[u].owner \in Owner  BY <2>1, Running DEF FilesInv
  <2>. QED  BY <1>1, <1>4, <2>1, <2>2, <2>3, <2>4
<1>15. OverlapsMarked'
  BY <1>1 DEF FilesInv, OverlapsMarked
<1>16. ReadsCurrent'
  <2>. SUFFICES ASSUME NEW u \in Worker, pc'[u] \notin {"idle", "sweep"},
                       job'[u].op \in Supersedes, job'[u].owner \notin leaked'
       PROVE  \/ file'[job'[u].owner] = job'[u].file
              \/ file'[job'[u].owner] = None /\ pc'[u] = "lock"
    BY DEF ReadsCurrent
  <2>1. u # w /\ pc'[u] = pc[u] /\ job'[u] = job[u]  BY <1>1
  <2>2. \/ file[job[u].owner] = job[u].file
        \/ file[job[u].owner] = None /\ pc[u] = "lock"
    BY <1>1, <2>1 DEF FilesInv, ReadsCurrent
  <2>3. job[u].owner \in Owner /\ HandlerOK(u)
    BY <2>1, Running DEF FilesInv
  <2>4. CASE job[u].owner # o  BY <1>4, <2>1, <2>2, <2>3, <2>4
  <2>5. CASE job[u].owner = o
    <3>1. job[w].op \notin Supersedes
      BY <1>1, <1>8, <2>1, <2>5 DEF FilesInv, OverlapsMarked
    <3>2. job[w].op # "create"
      BY <1>1, <1>8, <2>1, <2>5 DEF FilesInv, Creating
    <3>3. CASE job[w].op = "save"
      BY <1>1, <1>4, <2>1, <2>2, <2>5, <3>3 DEF stale
    <3>4. CASE job[w].op = "detach"
      <4>1. o \in Request  BY <1>1, <1>2, <1>8, <3>4 DEF HandlerOK
      <4>2. job[u].owner \in Document \cup Employee
        BY <2>1, <2>3 DEF HandlerOK, Supersedes
      <4>. QED  BY <2>5, <4>1, <4>2, FilesAssumption
    <3>5. CASE job[w].op = "delete"
      <4>1. o \in Document  BY <1>1, <1>2, <1>8, <3>5 DEF HandlerOK
      <4>2. job[u].op = "replace"
        BY <2>1, <2>3, <2>5, <4>1, FilesAssumption DEF HandlerOK, Supersedes
      <4>3. pc[u] = "lock"
        BY <1>6, <2>1, <2>3, <2>5, <4>2 DEF HoldsLock, FilesInv, TypeInv, TypeOK, HandlerOK
      <4>. QED  BY <1>3, <1>4, <2>1, <2>5, <3>5, <4>3
    <3>. QED
      BY <1>2, <3>1, <3>2, <3>3, <3>4, <3>5 DEF Operation, Supersedes
  <2>. QED  BY <2>4, <2>5

<1>17. SweptUnnamed'
  <2>. SUFFICES ASSUME NEW u \in Worker, pc'[u] = "sweep", job'[u].owner \notin torn'
       PROVE  file'[job'[u].owner] # job'[u].file
    BY DEF SweptUnnamed
  <2>1. CASE u = w
    <3>1. sweeps /\ job'[u] = job[w]  BY <1>1, <2>1
    <3>2. x # job[w].file
      <4>1. CASE job[w].op \in Uploads
        BY <1>1, <1>3, <4>1 DEF FilesInv, NewIsFresh
      <4>2. CASE job[w].op = "clearImage"
        BY <1>3, <1>5, <1>9, <3>1, <4>2
      <4>. QED  BY <1>9, <3>1, <4>1, <4>2 DEF Supersedes, Uploads
    <3>. QED  BY <1>4, <1>8, <3>1, <3>2
  <2>2. CASE u # w
    <3>1. /\ pc[u] = "sweep" /\ job'[u] = job[u] /\ job[u].owner \in Owner
          /\ file[job[u].owner] # job[u].file /\ job[u].file \in Object
      BY <1>1, <2>2, Running DEF FilesInv, SweptUnnamed, HandlerOK
    <3>2. job[u].owner = o => x # job[u].file
      <4>1. CASE job[w].op \in Uploads
        BY <1>3, <3>1, <4>1 DEF FilesInv, NewIsFresh
      <4>2. CASE job[w].op = "save"
        BY <1>1, <1>5, <3>1, <4>2 DEF stale
      <4>3. CASE job[w].op \in {"delete", "detach", "clearImage"}
        BY <1>3, <1>5, <3>1, <4>3
      <4>. QED  BY <1>2, <4>1, <4>2, <4>3 DEF Operation, Uploads
    <3>. QED  BY <1>4, <3>1, <3>2
  <2>. QED  BY <2>1, <2>2
<1>18. ErasedGone'
  <2>. SUFFICES ASSUME NEW u \in Worker, pc'[u] = "write",
                       job'[u].op \in {"delete", "detach"}
       PROVE  file'[job'[u].owner] \notin store'
    BY DEF ErasedGone
  <2>1. u # w /\ pc[u] = "write" /\ job'[u] = job[u]  BY <1>1
  <2>2. job[u].owner # o  BY <1>6, <2>1 DEF HoldsLock
  <2>3. job[u].owner \in Owner  BY <2>1, Running DEF FilesInv
  <2>. QED  BY <1>1, <1>4, <2>1, <2>2, <2>3 DEF FilesInv, ErasedGone
<1>19. FileKept'
  <2>. SUFFICES ASSUME NEW y \in Owner \ torn', file'[y] \in Object \ store'
       PROVE  \E v \in Worker : /\ pc'[v] = "write" /\ job'[v].owner = y
                                /\ job'[v].op \in {"delete", "detach"}
    BY DEF FileKept
  <2>1. CASE y = o
    <3>1. x \in Object \ store  BY <1>1, <1>4, <2>1
    <3>2. job[w].op = "save"
      <4>1. job[w].op \notin Uploads
        BY <1>3, <3>1 DEF FilesInv, NewIsFresh
      <4>. QED  BY <1>2, <1>3, <1>5, <3>1, <4>1 DEF Operation, Uploads
    <3>3. ~stale /\ file[o] = x  BY <1>1, <1>5, <2>1, <3>1, <3>2 DEF stale
    <3>4. PICK v \in Worker : /\ pc[v] = "write" /\ job[v].owner = o
                              /\ job[v].op \in {"delete", "detach"}
      BY <1>1, <1>2, <2>1, <3>1, <3>3 DEF FilesInv, FileKept
    <3>5. v # w  BY <3>2, <3>4
    <3>. QED  BY <1>6, <3>4, <3>5 DEF HoldsLock
  <2>2. CASE y # o
    <3>1. PICK v \in Worker : /\ pc[v] = "write" /\ job[v].owner = y
                              /\ job[v].op \in {"delete", "detach"}
      BY <1>1, <1>4, <2>2 DEF FilesInv, FileKept
    <3>. QED  BY <1>1, <1>8, <2>2, <3>1
  <2>. QED  BY <2>1, <2>2
<1>20. NoOrphan'
  <2>. SUFFICES ASSUME NEW k \in store', issued'[k] \notin leaked', file'[issued'[k]] # k
       PROVE  \E v \in Worker : \/ new'[v] = k
                                \/ pc'[v] = "sweep" /\ Superseded(v)' = k
    BY DEF NoOrphan
  <2>1. k \in store /\ k \in Object /\ k # None /\ issued[k] \in Owner
    BY <1>1, KeysOfStore DEF FilesInv, TypeInv
  <2>2. issued[k] \notin leaked  BY <1>1
  <2>3. CASE file[issued[k]] = k
    <3>1. issued[k] = o  BY <1>1, <1>4, <2>1, <2>3
    <3>2. file[o] = k /\ x # k  BY <1>1, <1>4, <2>3, <3>1
    <3>3. ~stale  BY <1>1, <3>1
    <3>4. job[w].op # "save"  BY <3>2, <3>3 DEF stale
    <3>5. job[w].op # "create"
      BY <1>1, <1>8, <2>1, <3>2 DEF FilesInv, Creating
    <3>6. job[w].op \notin {"delete", "detach"}
      BY <1>1, <1>8, <2>1, <3>2 DEF FilesInv, ErasedGone
    <3>7. job[w].op \in Supersedes
      BY <1>2, <3>4, <3>5, <3>6 DEF Operation, Supersedes
    <3>8. job[w].file = k
      BY <1>1, <1>8, <2>1, <2>2, <3>1, <3>2, <3>7 DEF FilesInv, ReadsCurrent
    <3>9. sweeps  BY <2>1, <3>7, <3>8 DEF sweeps
    <3>. QED  BY <1>1, <3>8, <3>9 DEF Superseded
  <2>4. CASE file[issued[k]] # k
    <3>1. PICK v \in Worker : new[v] = k \/ (pc[v] = "sweep" /\ Superseded(v) = k)
      BY <2>1, <2>2, <2>4 DEF FilesInv, NoOrphan
    <3>2. v # w
      <4>. SUFFICES ASSUME v = w PROVE FALSE  OBVIOUS
      <4>1. new[w] = k  BY <1>1, <3>1
      <4>2. x = k  BY <1>2, <1>3, <2>1, <4>1
      <4>3. issued[k] = o  BY <1>3, <2>1, <4>2
      <4>. QED  BY <1>1, <1>4, <4>2, <4>3
    <3>. QED  BY <1>1, <3>1, <3>2 DEF Superseded
  <2>. QED  BY <2>3, <2>4
<1>. QED
  BY <1>10, <1>11, <1>12, <1>13, <1>14, <1>15, <1>16, <1>17, <1>18, <1>19, <1>20
  DEF FilesInv

LEMMA SweepKeeps ==
  ASSUME FilesInv, NEW w \in Worker, Sweep(w)
  PROVE  FilesInv'
<1>. DEFINE gone == job[w].file
            o == job[w].owner
<1>1. /\ pc[w] = "sweep" /\ pc'[w] = "idle" /\ job'[w] = None /\ new'[w] = None
      /\ \A v \in Worker \ {w} : pc'[v] = pc[v] /\ job'[v] = job[v] /\ new'[v] = new[v]
      /\ store' = store \ {gone} /\ file' = file /\ issued' = issued
      /\ leaked' = leaked /\ torn' = torn /\ faults' = faults
  BY DEF FilesInv, TypeInv, TypeOK, Sweep, Finish, Superseded, blame
<1>2. o \in Owner /\ gone \in Object /\ issued[gone] = o
  BY <1>1, Running DEF FilesInv, HandlerOK, KeysOwned
<1>3. TypeInv'
  <2>1. TypeOK'
    BY <1>1 DEF FilesInv, TypeInv, TypeOK, Sweep, Finish
  <2>2. HandlerOK(w)'  BY <1>1 DEF HandlerOK
  <2>3. \A v \in Worker \ {w} : HandlerOK(v)'
    BY <1>1 DEF FilesInv, TypeInv, HandlerOK
  <2>. QED  BY <2>1, <2>2, <2>3 DEF TypeInv
<1>4. KeysOwned' /\ NewIsFresh'
  BY <1>1 DEF FilesInv, KeysOwned, NewIsFresh
<1>5. \A v \in Worker, y \in Owner : HoldsLock(v, y)' => v # w /\ HoldsLock(v, y)
  BY <1>1 DEF HoldsLock
<1>6. LockedOnce' /\ HeldRows'
  BY <1>1, <1>5 DEF FilesInv, LockedOnce, HeldRows
<1>7. Creating' /\ OverlapsMarked'
  BY <1>1 DEF FilesInv, Creating, OverlapsMarked
<1>8. ReadsCurrent' /\ SweptUnnamed' /\ ErasedGone'
  BY <1>1 DEF FilesInv, ReadsCurrent, SweptUnnamed, ErasedGone
<1>9. FileKept'
  <2>. SUFFICES ASSUME NEW y \in Owner \ torn', file'[y] \in Object \ store'
       PROVE  \E v \in Worker : /\ pc'[v] = "write" /\ job'[v].owner = y
                                /\ job'[v].op \in {"delete", "detach"}
    BY DEF FileKept
  <2>1. file[y] # gone
    <3>1. file[y] = gone => y = o  BY <1>2 DEF FilesInv, TypeInv, TypeOK
    <3>. QED  BY <1>1, <3>1 DEF FilesInv, SweptUnnamed
  <2>2. PICK v \in Worker : /\ pc[v] = "write" /\ job[v].owner = y
                            /\ job[v].op \in {"delete", "detach"}
    BY <1>1, <2>1 DEF FilesInv, FileKept
  <2>. QED  BY <1>1, <2>2
<1>10. NoOrphan'
  <2>. SUFFICES ASSUME NEW k \in store', issued'[k] \notin leaked', file'[issued'[k]] # k
       PROVE  \E v \in Worker : \/ new'[v] = k
                                \/ pc'[v] = "sweep" /\ Superseded(v)' = k
    BY DEF NoOrphan
  <2>1. k \in store /\ k # gone /\ k # None
    BY <1>1, KeysOfStore DEF FilesInv, TypeInv
  <2>2. PICK v \in Worker : new[v] = k \/ (pc[v] = "sweep" /\ Superseded(v) = k)
    BY <1>1, <2>1 DEF FilesInv, NoOrphan
  <2>3. new[w] = None  BY <1>1 DEF FilesInv, TypeInv, TypeOK
  <2>4. v # w  BY <2>1, <2>2, <2>3 DEF Superseded
  <2>. QED  BY <1>1, <2>2, <2>4 DEF Superseded
<1>. QED
  BY <1>3, <1>4, <1>6, <1>7, <1>8, <1>9, <1>10 DEF FilesInv

LEMMA RemoveKeeps ==
  ASSUME FilesInv, NEW o \in Owner, RemoveRow(o)
  PROVE  FilesInv'
<1>1. /\ file' = [file EXCEPT ![o] = None]
      /\ pc' = pc /\ job' = job /\ new' = new /\ store' = store /\ issued' = issued
      /\ leaked' = leaked \cup {o} /\ torn' = torn /\ faults' = faults
      /\ \A w \in Worker : ~HoldsLock(w, o)
  BY DEF RemoveRow, MarkIf, handlerVars
<1>2. /\ file'[o] = None /\ \A y \in Owner \ {o} : file'[y] = file[y]
      /\ file' \in [Owner -> Object \cup {NoFile, None}]
      /\ None \notin Object
  BY <1>1, NoneAssumption DEF FilesInv, TypeInv, TypeOK, Object, NoFile
<1>3. \A w \in Worker : pc[w] # "idle" => job[w].owner \in Owner /\ HandlerOK(w)
  BY Running DEF FilesInv
<1>4. TypeInv'
  <2>1. TypeOK'
    BY <1>1, <1>2 DEF FilesInv, TypeInv, TypeOK
  <2>2. \A v \in Worker : HandlerOK(v)'
    BY <1>1 DEF FilesInv, TypeInv, HandlerOK
  <2>. QED  BY <2>1, <2>2 DEF TypeInv
<1>5. KeysOwned' /\ NewIsFresh'
  BY <1>1, <1>2 DEF FilesInv, KeysOwned, NewIsFresh
<1>6. \A v \in Worker, y \in Owner : HoldsLock(v, y)' => y # o /\ HoldsLock(v, y)
  BY <1>1 DEF HoldsLock
<1>7. LockedOnce' /\ HeldRows'
  BY <1>1, <1>2, <1>6 DEF FilesInv, LockedOnce, HeldRows
<1>8. Creating' /\ OverlapsMarked'
  BY <1>1, <1>2, <1>3 DEF FilesInv, Creating, OverlapsMarked
<1>9. ReadsCurrent'
  BY <1>1, <1>2, <1>3 DEF FilesInv, ReadsCurrent
<1>10. SweptUnnamed'
  BY <1>1, <1>2, <1>3 DEF FilesInv, SweptUnnamed, HandlerOK
<1>11. ErasedGone'
  BY <1>1, <1>3, <1>6, <1>2 DEF FilesInv, ErasedGone, HoldsLock
<1>12. FileKept'
  BY <1>1, <1>2 DEF FilesInv, FileKept
<1>13. NoOrphan'
  <2>1. \A k \in store : issued[k] \in Owner
    BY KeysOfStore DEF FilesInv, TypeInv
  <2>. QED  BY <1>1, <1>2, <2>1 DEF FilesInv, NoOrphan, Superseded
<1>. QED
  BY <1>4, <1>5, <1>7, <1>8, <1>9, <1>10, <1>11, <1>12, <1>13 DEF FilesInv

-----------------------------------------------------------------------------
(* Theorems.                                                                 *)

LEMMA InvInit == Init => FilesInv
<1>. SUFFICES ASSUME Init PROVE FilesInv  OBVIOUS
<1>1. /\ issued = <<>> /\ store = {} /\ leaked = {} /\ torn = {} /\ faults = 0
      /\ \A w \in Worker : pc[w] = "idle" /\ job[w] = None /\ new[w] = None
      /\ \A o \in Owner : file[o] \in {NoFile, None}
  BY DEF Init
<1>2. NoFile \notin Object /\ None \notin Object
  BY NoneAssumption DEF Object, NoFile
<1>3. TypeOK
  BY <1>1, <1>2, FilesAssumption DEF Init, TypeOK
<1>4. \A w \in Worker : HandlerOK(w)  BY <1>1 DEF HandlerOK
<1>5. KeysOwned /\ NewIsFresh /\ Creating  BY <1>1 DEF KeysOwned, NewIsFresh, Creating
<1>6. LockedOnce /\ HeldRows  BY <1>1 DEF LockedOnce, HeldRows, HoldsLock
<1>7. OverlapsMarked /\ ReadsCurrent /\ SweptUnnamed /\ ErasedGone
  BY <1>1 DEF OverlapsMarked, ReadsCurrent, SweptUnnamed, ErasedGone
<1>8. FileKept /\ NoOrphan  BY <1>1, <1>2 DEF FileKept, NoOrphan
<1>. QED
  BY <1>3, <1>4, <1>5, <1>6, <1>7, <1>8 DEF FilesInv, TypeInv

LEMMA InvStutter ==
  ASSUME FilesInv, UNCHANGED vars
  PROVE  FilesInv'
<1>1. /\ file' = file /\ store' = store /\ issued' = issued
      /\ pc' = pc /\ job' = job /\ new' = new
      /\ leaked' = leaked /\ torn' = torn /\ faults' = faults
  BY DEF vars, handlerVars, blame
<1>2. TypeInv'  BY <1>1 DEF FilesInv, TypeInv, TypeOK, HandlerOK
<1>3. KeysOwned' /\ NewIsFresh' /\ Creating'
  BY <1>1 DEF FilesInv, KeysOwned, NewIsFresh, Creating
<1>4. LockedOnce' /\ HeldRows'
  BY <1>1 DEF FilesInv, LockedOnce, HeldRows, HoldsLock
<1>5. OverlapsMarked' /\ ReadsCurrent' /\ SweptUnnamed' /\ ErasedGone'
  BY <1>1 DEF FilesInv, OverlapsMarked, ReadsCurrent, SweptUnnamed, ErasedGone
<1>6. FileKept' /\ NoOrphan'
  BY <1>1 DEF FilesInv, FileKept, NoOrphan, Superseded
<1>. QED  BY <1>2, <1>3, <1>4, <1>5, <1>6 DEF FilesInv

LEMMA InvNext == FilesInv /\ [Next]_vars => FilesInv'
<1>. SUFFICES ASSUME FilesInv, [Next]_vars PROVE FilesInv'  OBVIOUS
<1>1. ASSUME NEW w \in Worker, Call(w) PROVE FilesInv'
  <2>1. PICK o \in Owner, op \in Operation, f \in Object \cup {NoFile, None},
             step \in {"lock", "upload", "write"} : Begins(w, op, o, f, step)
    BY <1>1, CallBegins DEF FilesInv
  <2>. QED  BY <2>1, BeginKeeps
<1>2. ASSUME NEW w \in Worker, Proceed(w) PROVE FilesInv'
  <2>1. CASE LockRow(w)  BY <2>1, LockRowSteps, EndKeeps, LockKeeps
  <2>2. CASE Upload(w)  BY <2>2, UploadKeeps
  <2>3. CASE Erase(w)  BY <2>3, EraseKeeps
  <2>4. CASE WriteRow(w)  BY <2>4, WriteRowSteps, EndKeeps, WriteKeeps
  <2>5. CASE Sweep(w)  BY <2>5, SweepKeeps
  <2>. QED  BY <1>2, <2>1, <2>2, <2>3, <2>4, <2>5 DEF Proceed
<1>3. ASSUME NEW w \in Worker, StoreFails(w) \/ Crash(w) PROVE FilesInv'
  <2>1. CASE StoreFails(w) /\ FailUpload(w)  BY <2>1, FailUploadKeeps
  <2>2. CASE StoreFails(w) /\ FailErase(w)  BY <2>2, FailEraseKeeps
  <2>3. CASE (StoreFails(w) /\ FailInVain(w)) \/ Crash(w)  BY <2>3, FaultEnds, EndKeeps
  <2>. QED  BY <1>3, <2>1, <2>2, <2>3 DEF StoreFails
<1>4. ASSUME NEW o \in Owner, RemoveRow(o) PROVE FilesInv'
  BY <1>4, RemoveKeeps
<1>5. CASE UNCHANGED vars  BY <1>5, InvStutter
<1>. QED  BY <1>1, <1>2, <1>3, <1>4, <1>5 DEF Next

LEMMA Invariance == Spec => []FilesInv
BY InvInit, InvNext, PTL DEF Spec

(* Types, and the key that a row names was written for that row: two rows    *)
(* never share an object.                                                    *)
THEOREM TypeCorrect == Spec => []TypeOK
<1>1. FilesInv => TypeOK  BY DEF FilesInv, TypeInv
<1>. QED  BY <1>1, Invariance, PTL

(* The file that a row names is in the store, whatever overlaps, for all rows *)
(* but those that are recorded as damaged: by a crash between the object's   *)
(* deletion and the commit, by a call of the store that deleted the object   *)
(* and failed all the same, or by the save of an old row.                    *)
THEOREM FilesStay == Spec => []FilePresent
<1>1. FilesInv => FilePresent  BY DEF FilesInv, FileKept, FilePresent, HoldsLock
<1>. QED  BY <1>1, Invariance, PTL

(* Every object that no row names is one that a running handler will name or *)
(* delete, or its owner's file was superseded twice at once, cut short,      *)
(* overwritten or removed with its row.                                      *)
THEOREM OrphansExplained == Spec => []NoOrphan
<1>1. FilesInv => NoOrphan  BY DEF FilesInv
<1>. QED  BY <1>1, Invariance, PTL
=============================================================================
