---------------------------- MODULE DevicesProofs ----------------------------
(***************************************************************************)
(* Theorems about Devices, for every company, every number of devices,     *)
(* server processes and operators.                                         *)
(***************************************************************************)
EXTENDS Devices, FiniteSetTheorems, SequenceTheorems, TLAPS

(* An assignment names the employee it is for.                               *)
JobOK(w) ==
  (pc[w] # "idle" /\ job[w].op = "assign") => job[w].employee \in Employee

TypeInv == TypeOK /\ \A w \in Worker : JobOK(w)

(* At most one transaction holds a device row ...                            *)
LockedOnce ==
  \A v, w \in Worker :
    (pc[v] = "locked" /\ pc[w] = "locked" /\ job[v].device = job[w].device) => v = w

(* ... and the status it read is the row's status until it commits.          *)
RowsCurrent ==
  \A w \in Worker : pc[w] = "locked" => row[w] = device[job[w].device]

(* A device that was ever assigned has a row.                                *)
RowsRemain == \A d \in Device : history[d] # <<>> => device[d] # None

CustodyInv == StatusMatchesAssignments /\ OneOpenAssignment /\ RowsRemain

DevicesInv == TypeInv /\ LockedOnce /\ RowsCurrent /\ CustodyInv

-----------------------------------------------------------------------------
(* Assignment rows.                                                          *)

(* Closing keeps the rows and their employees, and leaves none open.         *)
LEMMA ClosedRows ==
  ASSUME TypeOK, NEW d \in Device, NEW how \in {"returned", "lost"}
  PROVE  /\ Closed(d, how) \in Seq(Assignment)
         /\ DOMAIN Closed(d, how) = DOMAIN history[d]
         /\ Len(Closed(d, how)) = Len(history[d])
         /\ \A i \in DOMAIN history[d] :
              /\ Closed(d, how)[i].end # "open"
              /\ Closed(d, how)[i].employee = history[d][i].employee
              /\ history[d][i].end # "open" => Closed(d, how)[i] = history[d][i]
<1>1. /\ history[d] \in Seq(Assignment) /\ Len(history[d]) \in Nat
      /\ DOMAIN history[d] = 1..Len(history[d])
      /\ \A i \in DOMAIN history[d] : history[d][i] \in Assignment
  BY LenProperties, ElementOfSeq DEF TypeOK
<1>2. \A i \in DOMAIN history[d] :
        /\ Closed(d, how)[i] \in Assignment
        /\ Closed(d, how)[i].end # "open"
        /\ Closed(d, how)[i].employee = history[d][i].employee
        /\ history[d][i].end # "open" => Closed(d, how)[i] = history[d][i]
  BY <1>1 DEF Closed, Open, Assignment
<1>3. Closed(d, how) \in [1..Len(history[d]) -> Assignment]
  BY <1>1, <1>2 DEF Closed
<1>4. Closed(d, how) \in Seq(Assignment)  BY <1>1, <1>3, SeqDef
<1>5. Len(Closed(d, how)) = Len(history[d])
  BY <1>1, <1>3, <1>4, LenProperties
<1>. QED  BY <1>1, <1>2, <1>3, <1>4, <1>5

(* A new assignment is appended, open, behind the old rows.                  *)
LEMMA AssignmentsRows ==
  ASSUME TypeOK, NEW d \in Device, NEW e \in Employee
  PROVE  /\ Assignments(d, e) \in Seq(Assignment)
         /\ Len(Assignments(d, e)) = Len(history[d]) + 1
         /\ DOMAIN Assignments(d, e) = 1..(Len(history[d]) + 1)
         /\ DOMAIN history[d] = 1..Len(history[d]) /\ Len(history[d]) \in Nat
         /\ Assignments(d, e)[Len(history[d]) + 1] = [employee |-> e, end |-> "open"]
         /\ \A i \in DOMAIN history[d] : Assignments(d, e)[i] = history[d][i]
<1>1. [employee |-> e, end |-> "open"] \in Assignment  BY DEF Assignment
<1>. QED  BY <1>1 DEF Assignments, TypeOK

-----------------------------------------------------------------------------
(* Types.                                                                    *)

(* A handler that ends has changed none of the types.                        *)
LEMMA TypeFinish ==
  ASSUME TypeInv, NEW w \in Worker, Finish(w),
         UNCHANGED <<manager, form>>,
         device' \in [Device -> Status \cup {None}],
         history' \in [Device -> Seq(Assignment)],
         audit' \in [Device -> Seq(AuditEntry)],
         inbox' \subseteq Announcement,
         edited' \subseteq Device, crashes' \in 0..MaxCrashes
  PROVE  TypeInv'
<1>1. TypeOK'  BY DEF TypeInv, TypeOK, Finish
<1>2. \A x \in Worker : JobOK(x)'  BY DEF TypeInv, TypeOK, Finish, JobOK
<1>. QED  BY <1>1, <1>2 DEF TypeInv

LEMMA TypeRefuse ==
  ASSUME TypeInv, NEW w \in Worker, Refuse(w)
  PROVE  TypeInv'
BY TypeFinish DEF Refuse, dbVars, adminVars, TypeInv, TypeOK

LEMMA TypeBegin ==
  ASSUME TypeInv, NEW w \in Worker, NEW j \in Job, Begin(w, j),
         j.op = "assign" => j.employee \in Employee
  PROVE  TypeInv'
<1>1. TypeOK'
  BY NoneAssumption DEF TypeInv, TypeOK, Begin, dbVars, adminVars
<1>2. \A x \in Worker : JobOK(x)'  BY DEF TypeInv, TypeOK, Begin, JobOK
<1>. QED  BY <1>1, <1>2 DEF TypeInv

LEMMA TypeNotify ==
  ASSUME TypeInv, NEW w \in Worker, NEW n \in Announcement, CommitAndNotify(w, n),
         job[w] # None,
         device' \in [Device -> Status \cup {None}],
         history' \in [Device -> Seq(Assignment)],
         audit' \in [Device -> Seq(AuditEntry)]
  PROVE  TypeInv'
<1>1. TypeOK'
  BY NoneAssumption DEF TypeInv, TypeOK, CommitAndNotify, adminVars
<1>2. \A x \in Worker : JobOK(x)'
  BY DEF TypeInv, TypeOK, CommitAndNotify, JobOK
<1>. QED  BY <1>1, <1>2 DEF TypeInv

LEMMA TypeIdle ==
  ASSUME TypeInv, UNCHANGED handlerVars, UNCHANGED <<history, audit, inbox, crashes>>,
         device' \in [Device -> Status \cup {None}],
         manager' \in [Employee -> Employee \cup {None}],
         form' \in [Operator -> [device : Device, status : Status] \cup {None}],
         edited' \subseteq Device
  PROVE  TypeInv'
BY DEF TypeInv, TypeOK, JobOK, handlerVars

(* The audit log grows by an entry.                                          *)
LEMMA TypeRecord ==
  ASSUME TypeOK, NEW d \in Device, NEW n \in Nat,
         NEW action \in {"DEVICE_ASSIGNED", "DEVICE_RETURNED"}, Record(d, action, n)
  PROVE  audit' \in [Device -> Seq(AuditEntry)]
<1>1. [action |-> action, nth |-> n] \in AuditEntry  BY DEF AuditEntry
<1>. QED  BY <1>1 DEF TypeOK, Record


-----------------------------------------------------------------------------
(* Type correctness is inductive.                                            *)

LEMMA TypeInit == Init => TypeInv
<1>. SUFFICES ASSUME Init PROVE TypeInv  OBVIOUS
<1>1. TypeOK  BY DevicesAssumption DEF Init, TypeOK
<1>. QED  BY <1>1 DEF Init, TypeInv, JobOK

LEMMA TypeCall ==
  ASSUME TypeInv, NEW w \in Worker, Call(w)
  PROVE  TypeInv'
<1>1. ASSUME NEW u \in User, NEW d \in Device, NEW e \in Employee,
             AssignDevice(w, u, d, e)
      PROVE  TypeInv'
  <2>1. [NewJob("assign", u, d) EXCEPT !.employee = e] \in Job
    BY DEF NewJob, Job
  <2>2. [NewJob("assign", u, d) EXCEPT !.employee = e].employee = e
    BY DEF NewJob
  <2>. QED  BY <1>1, <2>1, <2>2, TypeBegin DEF AssignDevice
<1>2. ASSUME NEW u \in User, NEW d \in Device, ReturnDevice(w, u, d)
      PROVE  TypeInv'
  <2>1. NewJob("return", u, d) \in Job /\ NewJob("return", u, d).op # "assign"
    BY DEF NewJob, Job
  <2>. QED  BY <1>2, <2>1, TypeBegin DEF ReturnDevice
<1>3. ASSUME NEW u \in User, NEW d \in Device, NEW s \in NewStatus,
             UpdateDevice(w, u, d, s)
      PROVE  TypeInv'
  <2>1. /\ [NewJob("update", u, d) EXCEPT !.status = s] \in Job
        /\ [NewJob("update", u, d) EXCEPT !.status = s].op # "assign"
    BY DevicesAssumption DEF NewJob, Job, Status
  <2>. QED  BY <1>3, <2>1, TypeBegin DEF UpdateDevice
<1>4. ASSUME NEW u \in User, NEW d \in Device, DeleteDevice(w, u, d)
      PROVE  TypeInv'
  <2>1. NewJob("delete", u, d) \in Job /\ NewJob("delete", u, d).op # "assign"
    BY DEF NewJob, Job
  <2>. QED  BY <1>4, <2>1, TypeBegin DEF DeleteDevice
<1>. QED  BY <1>1, <1>2, <1>3, <1>4 DEF Call

LEMMA TypeLock ==
  ASSUME TypeInv, NEW w \in Worker, LockDevice(w)
  PROVE  TypeInv'
<1>1. job[w] \in Job /\ job[w].device \in Device
  BY DEF LockDevice, TypeInv, TypeOK, Job
<1>2. CASE RowExists(job[w].device)
  <2>1. /\ pc' = [pc EXCEPT ![w] = "locked"]
        /\ row' = [row EXCEPT ![w] = device[job[w].device]]
        /\ UNCHANGED <<job, note, dbVars, inbox, manager, adminVars, crashes>>
    BY <1>2 DEF LockDevice
  <2>2. device[job[w].device] \in Status
    BY <1>1, <1>2 DEF RowExists, TypeInv, TypeOK
  <2>3. TypeOK'
    BY <2>1, <2>2, NoneAssumption DEF LockDevice, TypeInv, TypeOK, dbVars, adminVars
  <2>4. \A x \in Worker : JobOK(x)'
    BY <2>1 DEF LockDevice, TypeInv, TypeOK, JobOK
  <2>. QED  BY <2>3, <2>4 DEF TypeInv
<1>3. CASE ~RowExists(job[w].device)
  BY <1>3, TypeFinish DEF LockDevice, dbVars, adminVars, TypeInv, TypeOK
<1>. QED  BY <1>2, <1>3

LEMMA TypeAssign ==
  ASSUME TypeInv, NEW w \in Worker, CommitAssign(w)
  PROVE  TypeInv'
<1>. DEFINE d == job[w].device
            n == Len(history[d]) + 1
            a == [event |-> "DEVICE_ASSIGNED", device |-> d,
                  employee |-> job[w].employee, nth |-> n]
<1>1. job[w] \in Job /\ d \in Device /\ job[w].employee \in Employee
  BY DEF CommitAssign, TypeInv, TypeOK, Job, JobOK
<1>2. n \in Nat  BY <1>1, AssignmentsRows DEF TypeInv
<1>3. CASE CanAssign(w)
  <2>1. /\ history' = [history EXCEPT ![d] = Assignments(d, job[w].employee)]
        /\ device' = [device EXCEPT ![d] = "ASSIGNED"]
        /\ Record(d, "DEVICE_ASSIGNED", n)
        /\ CommitAndNotify(w, a)
    BY <1>3 DEF CommitAssign, Refuse
  <2>2. a \in Announcement  BY <1>1, <1>2 DEF Announcement
  <2>3. audit' \in [Device -> Seq(AuditEntry)]
    BY <1>1, <1>2, <2>1, TypeRecord DEF TypeInv
  <2>4. history' \in [Device -> Seq(Assignment)]
    BY <1>1, <2>1, AssignmentsRows DEF TypeInv, TypeOK
  <2>5. device' \in [Device -> Status \cup {None}]
    BY <1>1, <2>1 DEF TypeInv, TypeOK, Status
  <2>6. job[w] # None  BY <1>1, NoneAssumption
  <2>. HIDE DEF a, d, n
  <2>. QED  BY <2>1, <2>2, <2>3, <2>4, <2>5, <2>6, TypeNotify
<1>4. CASE ~CanAssign(w)
  BY <1>4, TypeRefuse DEF CommitAssign
<1>. QED  BY <1>3, <1>4

LEMMA TypeReturn ==
  ASSUME TypeInv, NEW w \in Worker, CommitReturn(w)
  PROVE  TypeInv'
<1>. DEFINE d == job[w].device
<1>1. job[w] \in Job /\ d \in Device
  BY DEF CommitReturn, TypeInv, TypeOK, Job
<1>2. CASE Open(d) = {}
  BY <1>2, TypeRefuse DEF CommitReturn
<1>3. CASE Open(d) # {}
  <2>1. PICK n \in Open(d) :
          /\ history' = [history EXCEPT ![d] = Closed(d, "returned")]
          /\ device' = [device EXCEPT ![d] = "AVAILABLE"]
          /\ Record(d, "DEVICE_RETURNED", n)
          /\ CommitAndNotify(w, [event |-> "DEVICE_RETURNED", device |-> d,
                                 employee |-> history[d][n].employee, nth |-> n])
    BY <1>3 DEF CommitReturn, Refuse
  <2>. DEFINE a == [event |-> "DEVICE_RETURNED", device |-> d,
                    employee |-> history[d][n].employee, nth |-> n]
  <2>2. n \in Nat /\ history[d][n] \in Assignment
    BY <1>1, LenProperties, ElementOfSeq DEF Open, TypeInv, TypeOK
  <2>3. a \in Announcement  BY <1>1, <2>2 DEF Announcement, Assignment
  <2>4. audit' \in [Device -> Seq(AuditEntry)]
    BY <1>1, <2>1, <2>2, TypeRecord DEF TypeInv
  <2>5. history' \in [Device -> Seq(Assignment)]
    BY <1>1, <2>1, ClosedRows DEF TypeInv, TypeOK
  <2>6. device' \in [Device -> Status \cup {None}]
    BY <1>1, <2>1 DEF TypeInv, TypeOK, Status
  <2>7. job[w] # None  BY <1>1, NoneAssumption
  <2>8. CommitAndNotify(w, a)  BY <2>1
  <2>. HIDE DEF a, d
  <2>. QED  BY <2>3, <2>4, <2>5, <2>6, <2>7, <2>8, TypeNotify
<1>. QED  BY <1>2, <1>3


LEMMA TypeUpdate ==
  ASSUME TypeInv, NEW w \in Worker, CommitUpdate(w)
  PROVE  TypeInv'
<1>. DEFINE d == job[w].device
            s == job[w].status
<1>1. job[w] \in Job /\ d \in Device
  BY DEF CommitUpdate, TypeInv, TypeOK, Job
<1>2. CASE s \in StatusTransitions(row[w])
  <2>1. /\ device' = [device EXCEPT ![d] = s]
        /\ history' = IF row[w] = "ASSIGNED" /\ s = "LOST"
                        THEN [history EXCEPT ![d] = Closed(d, "lost")] ELSE history
        /\ Finish(w)
        /\ UNCHANGED <<audit, inbox, manager, adminVars, crashes>>
    BY <1>2 DEF CommitUpdate, Refuse
  <2>2. s \in Status  BY <1>2 DEF StatusTransitions, Status
  <2>3. device' \in [Device -> Status \cup {None}]
    BY <1>1, <2>1, <2>2 DEF TypeInv, TypeOK
  <2>4. history' \in [Device -> Seq(Assignment)]
    BY <1>1, <2>1, ClosedRows DEF TypeInv, TypeOK
  <2>. QED  BY <2>1, <2>3, <2>4, TypeFinish DEF adminVars, TypeInv, TypeOK
<1>3. CASE s \notin StatusTransitions(row[w])
  BY <1>3, TypeRefuse DEF CommitUpdate
<1>. QED  BY <1>2, <1>3

LEMMA TypeDelete ==
  ASSUME TypeInv, NEW w \in Worker, CommitDelete(w)
  PROVE  TypeInv'
<1>. DEFINE d == job[w].device
<1>1. CASE history[d] = <<>>
  <2>1. /\ device' = [device EXCEPT ![d] = None]
        /\ Finish(w)
        /\ UNCHANGED <<history, audit, inbox, manager, adminVars, crashes>>
    BY <1>1 DEF CommitDelete, Refuse
  <2>2. device' \in [Device -> Status \cup {None}]
    BY <2>1 DEF TypeInv, TypeOK
  <2>. QED  BY <2>1, <2>2, TypeFinish DEF adminVars, TypeInv, TypeOK
<1>2. CASE history[d] # <<>>
  BY <1>2, TypeRefuse DEF CommitDelete
<1>. QED  BY <1>1, <1>2

LEMMA TypeAnnounce ==
  ASSUME TypeInv, NEW w \in Worker, Notify(w)
  PROVE  TypeInv'
<1>1. note[w] \in Announcement  BY DEF Notify, TypeInv, TypeOK
<1>2. inbox' \subseteq Announcement  BY <1>1 DEF Notify, TypeInv, TypeOK
<1>. QED  BY <1>2, TypeFinish DEF Notify, dbVars, adminVars, TypeInv, TypeOK

LEMMA TypeCrash ==
  ASSUME TypeInv, NEW w \in Worker, Crash(w)
  PROVE  TypeInv'
<1>1. crashes' \in 0..MaxCrashes  BY DevicesAssumption DEF Crash, TypeInv, TypeOK
<1>. QED  BY <1>1, TypeFinish DEF Crash, dbVars, adminVars, TypeInv, TypeOK

LEMMA TypeOther ==
  ASSUME TypeInv, Other
  PROVE  TypeInv'
<1>1. ASSUME NEW d \in Device, CreateDevice(d) PROVE TypeInv'
  BY <1>1, TypeIdle DEF CreateDevice, adminVars, TypeInv, TypeOK, Status
<1>2. ASSUME NEW line \in ReportingLine, ChangeManager(line[1], line[2])
      PROVE  TypeInv'
  <2>1. line[1] \in Employee /\ line[2] \in Employee \cup {None}
    BY DevicesAssumption
  <2>. QED
    BY <1>2, <2>1, TypeIdle DEF ChangeManager, dbVars, adminVars, TypeInv, TypeOK
<1>3. ASSUME NEW o \in Operator, NEW d \in Device, NEW s \in NewStatus,
             OperatorLoads(o, d, s)
      PROVE  TypeInv'
  <2>1. s \in Status  BY DevicesAssumption DEF Status
  <2>2. [device |-> d, status |-> IF device[d] = "ASSIGNED" THEN "ASSIGNED" ELSE s]
          \in [device : Device, status : Status]
    BY <2>1 DEF Status
  <2>. QED
    BY <1>3, <2>2, TypeIdle DEF OperatorLoads, dbVars, TypeInv, TypeOK
<1>4. ASSUME NEW o \in Operator, OperatorSaves(o) PROVE TypeInv'
  BY <1>4, TypeIdle DEF OperatorSaves, TypeInv, TypeOK
<1>. QED  BY <1>1, <1>2, <1>3, <1>4 DEF Other

LEMMA TypeStep == TypeInv /\ [Next]_vars => TypeInv'
<1>. SUFFICES ASSUME TypeInv, [Next]_vars PROVE TypeInv'  OBVIOUS
<1>1. CASE UNCHANGED vars
  BY <1>1 DEF vars, dbVars, handlerVars, adminVars, TypeInv, TypeOK, JobOK
<1>2. CASE Other  BY <1>2, TypeOther
<1>3. ASSUME NEW w \in Worker, Call(w) \/ LockDevice(w) \/ Proceed(w) \/ Crash(w)
      PROVE  TypeInv'
  BY <1>3, TypeCall, TypeLock, TypeAssign, TypeReturn, TypeUpdate, TypeDelete,
     TypeAnnounce, TypeCrash DEF Proceed
<1>. QED  BY <1>1, <1>2, <1>3 DEF Next

(* Every variable keeps its type, for any company: in particular a handler   *)
(* holds a device's lock only with the row it read.                          *)
THEOREM TypeCorrect == Spec => [](TypeOK /\ \A w \in Worker : JobOK(w))
<1>1. TypeInv <=> TypeOK /\ \A w \in Worker : JobOK(w)  BY DEF TypeInv
<1>. QED  BY <1>1, TypeInit, TypeStep, PTL DEF Spec



-----------------------------------------------------------------------------
(* Locks.                                                                    *)

LEMMA JobDevice ==
  ASSUME TypeInv, NEW w \in Worker, pc[w] # "idle"
  PROVE  job[w] \in Job /\ job[w].device \in Device
BY DEF TypeInv, TypeOK, Job

(* A worker that gives up its lock, or has none and writes no device.        *)
LEMMA LocksWorker ==
  ASSUME TypeInv, LockedOnce, RowsCurrent, NEW w \in Worker,
         pc'[w] # "locked",
         \A v \in Worker \ {w} : pc'[v] = pc[v] /\ job'[v] = job[v] /\ row'[v] = row[v],
         \A d \in Device :
           device'[d] = device[d] \/ (pc[w] = "locked" /\ job[w].device = d)
  PROVE  LockedOnce' /\ RowsCurrent'
<1>1. LockedOnce'  BY DEF LockedOnce
<1>2. ASSUME NEW v \in Worker, pc'[v] = "locked"
      PROVE  row'[v] = device'[job'[v].device]
  <2>1. v # w  BY <1>2
  <2>2. pc[v] = "locked" /\ job'[v] = job[v] /\ row'[v] = row[v]  BY <1>2, <2>1
  <2>3. job[v].device \in Device  BY <2>2, JobDevice
  <2>4. row[v] = device[job[v].device]  BY <2>2 DEF RowsCurrent
  <2>5. ~(pc[w] = "locked" /\ job[w].device = job[v].device)
    BY <2>1, <2>2 DEF LockedOnce
  <2>. QED  BY <2>2, <2>3, <2>4, <2>5
<1>. QED  BY <1>1, <1>2 DEF RowsCurrent

(* A statement without a transaction writes no device that is locked.        *)
LEMMA LocksOther ==
  ASSUME TypeInv, LockedOnce, RowsCurrent, UNCHANGED <<pc, job, row>>,
         \A d \in Device : device'[d] = device[d] \/ Unlocked(d)
  PROVE  LockedOnce' /\ RowsCurrent'
<1>1. LockedOnce'  BY DEF LockedOnce
<1>2. ASSUME NEW v \in Worker, pc[v] = "locked"
      PROVE  row[v] = device'[job[v].device]
  <2>1. job[v].device \in Device /\ ~Unlocked(job[v].device)
    BY <1>2, JobDevice DEF Unlocked
  <2>. QED  BY <1>2, <2>1 DEF RowsCurrent
<1>. QED  BY <1>1, <1>2 DEF RowsCurrent

LEMMA LocksFinish ==
  ASSUME TypeInv, LockedOnce, RowsCurrent, NEW w \in Worker, Finish(w),
         \A d \in Device :
           device'[d] = device[d] \/ (pc[w] = "locked" /\ job[w].device = d)
  PROVE  LockedOnce' /\ RowsCurrent'
<1>1. pc'[w] # "locked"  BY DEF Finish, TypeInv, TypeOK
<1>2. \A v \in Worker \ {w} : pc'[v] = pc[v] /\ job'[v] = job[v] /\ row'[v] = row[v]
  BY DEF Finish, TypeInv, TypeOK
<1>. QED  BY <1>1, <1>2, LocksWorker

LEMMA LocksNotify ==
  ASSUME TypeInv, LockedOnce, RowsCurrent, NEW w \in Worker, NEW n,
         CommitAndNotify(w, n),
         \A d \in Device :
           device'[d] = device[d] \/ (pc[w] = "locked" /\ job[w].device = d)
  PROVE  LockedOnce' /\ RowsCurrent'
<1>1. pc'[w] # "locked"  BY DEF CommitAndNotify, TypeInv, TypeOK
<1>2. \A v \in Worker \ {w} : pc'[v] = pc[v] /\ job'[v] = job[v] /\ row'[v] = row[v]
  BY DEF CommitAndNotify, TypeInv, TypeOK
<1>. QED  BY <1>1, <1>2, LocksWorker

LEMMA LocksBegin ==
  ASSUME TypeInv, LockedOnce, RowsCurrent, NEW w \in Worker, NEW j, Begin(w, j)
  PROVE  LockedOnce' /\ RowsCurrent'
<1>1. pc'[w] # "locked"  BY DEF Begin, TypeInv, TypeOK
<1>2. \A v \in Worker \ {w} : pc'[v] = pc[v] /\ job'[v] = job[v] /\ row'[v] = row[v]
  BY DEF Begin, TypeInv, TypeOK
<1>3. device' = device  BY DEF Begin, dbVars
<1>. QED  BY <1>1, <1>2, <1>3, LocksWorker

(* Waiting for the lock and reading the row under it.                        *)
LEMMA LocksTaken ==
  ASSUME TypeInv, LockedOnce, RowsCurrent, NEW w \in Worker, LockDevice(w)
  PROVE  LockedOnce' /\ RowsCurrent'
<1>1. device' = device  BY DEF LockDevice, dbVars
<1>2. CASE ~RowExists(job[w].device)
  BY <1>1, <1>2, LocksFinish DEF LockDevice
<1>3. CASE RowExists(job[w].device)
  <2>1. /\ pc' = [pc EXCEPT ![w] = "locked"] /\ job' = job
        /\ row' = [row EXCEPT ![w] = device[job[w].device]]
        /\ Unlocked(job[w].device)
    BY <1>3 DEF LockDevice
  <2>2. ASSUME NEW v \in Worker, pc'[v] = "locked", v # w
        PROVE  pc[v] = "locked" /\ job[v].device # job[w].device
    BY <2>1, <2>2 DEF Unlocked, TypeInv, TypeOK
  <2>3. LockedOnce'  BY <2>1, <2>2 DEF LockedOnce
  <2>4. RowsCurrent'
    BY <1>1, <2>1, <2>2 DEF RowsCurrent, TypeInv, TypeOK
  <2>. QED  BY <2>3, <2>4
<1>. QED  BY <1>2, <1>3

LEMMA LocksStep ==
  ASSUME TypeInv, LockedOnce, RowsCurrent, [Next]_vars
  PROVE  LockedOnce' /\ RowsCurrent'
<1>1. CASE UNCHANGED vars
  BY <1>1 DEF vars, dbVars, handlerVars, LockedOnce, RowsCurrent
<1>2. ASSUME NEW w \in Worker, Call(w) PROVE LockedOnce' /\ RowsCurrent'
  BY <1>2, LocksBegin DEF Call, AssignDevice, ReturnDevice, UpdateDevice, DeleteDevice
<1>3. ASSUME NEW w \in Worker, Proceed(w) PROVE LockedOnce' /\ RowsCurrent'
  <2>1. CASE Refuse(w)  BY <2>1, LocksFinish DEF Refuse, dbVars
  <2>2. CASE CommitAssign(w) /\ ~Refuse(w)
    BY <2>2, LocksNotify DEF CommitAssign, TypeInv, TypeOK
  <2>3. CASE CommitReturn(w) /\ ~Refuse(w)
    BY <2>3, LocksNotify DEF CommitReturn, TypeInv, TypeOK
  <2>4. CASE CommitUpdate(w) /\ ~Refuse(w)
    BY <2>4, LocksFinish DEF CommitUpdate, TypeInv, TypeOK
  <2>5. CASE CommitDelete(w) /\ ~Refuse(w)
    BY <2>5, LocksFinish DEF CommitDelete, TypeInv, TypeOK
  <2>6. CASE Notify(w)  BY <2>6, LocksFinish DEF Notify, dbVars
  <2>. QED  BY <1>3, <2>1, <2>2, <2>3, <2>4, <2>5, <2>6 DEF Proceed
<1>4. ASSUME NEW w \in Worker, Crash(w) PROVE LockedOnce' /\ RowsCurrent'
  BY <1>4, LocksFinish DEF Crash, dbVars
<1>5. ASSUME NEW d \in Device, CreateDevice(d) PROVE LockedOnce' /\ RowsCurrent'
  <2>1. Unlocked(d)  BY <1>5 DEF CreateDevice, Unlocked
  <2>. QED
    BY <1>5, <2>1, LocksOther DEF CreateDevice, handlerVars, TypeInv, TypeOK
<1>6. ASSUME NEW o \in Operator, OperatorSaves(o) PROVE LockedOnce' /\ RowsCurrent'
  BY <1>6, LocksOther DEF OperatorSaves, handlerVars, TypeInv, TypeOK
<1>7. ASSUME UNCHANGED <<dbVars, handlerVars>> PROVE LockedOnce' /\ RowsCurrent'
  BY <1>7, LocksOther DEF dbVars, handlerVars
<1>8. CASE Other
  BY <1>5, <1>6, <1>7, <1>8 DEF Other, ChangeManager, OperatorLoads
<1>. QED  BY <1>1, <1>2, <1>3, <1>4, <1>8, LocksTaken DEF Next


-----------------------------------------------------------------------------
(* What a step can do to one device: nothing, hand it out, take it back, or  *)
(* give it another status while its assignments stay.                        *)

Kept(d) == device'[d] = device[d] /\ history'[d] = history[d]

Taken(d) ==
  /\ Open(d) = {}
  /\ device'[d] = "ASSIGNED"
  /\ \E e \in Employee : history'[d] = Assignments(d, e)

Freed(d) ==
  /\ device'[d] \in Status \ {"ASSIGNED"}
  /\ \E how \in {"returned", "lost"} : history'[d] = Closed(d, how)

Restated(d) ==
  /\ history'[d] = history[d]
  /\ history[d] # <<>> => device'[d] # None
  /\ d \in edited' \/ (device[d] # "ASSIGNED" /\ device'[d] # "ASSIGNED")

CustodyStep ==
  /\ edited \subseteq edited'
  /\ \/ \A d \in Device : Kept(d)
     \/ \E d \in Device : /\ Taken(d) \/ Freed(d) \/ Restated(d)
                          /\ \A x \in Device \ {d} : Kept(x)

LEMMA StepAssign ==
  ASSUME DevicesInv, NEW w \in Worker, CommitAssign(w), ~Refuse(w)
  PROVE  CustodyStep
<1>1. job[w].device \in Device /\ job[w].employee \in Employee
  BY JobDevice DEF CommitAssign, DevicesInv, TypeInv, JobOK
<1>2. Taken(job[w].device)
  BY <1>1 DEF CommitAssign, CanAssign, Taken, DevicesInv, TypeInv, TypeOK
<1>3. \A x \in Device \ {job[w].device} : Kept(x)
  BY <1>1 DEF CommitAssign, Kept, DevicesInv, TypeInv, TypeOK
<1>. QED  BY <1>1, <1>2, <1>3 DEF CustodyStep, CommitAssign, CommitAndNotify, adminVars

LEMMA StepReturn ==
  ASSUME DevicesInv, NEW w \in Worker, CommitReturn(w), ~Refuse(w)
  PROVE  CustodyStep
<1>1. job[w].device \in Device
  BY JobDevice DEF CommitReturn, DevicesInv
<1>2. Freed(job[w].device)
  BY <1>1 DEF CommitReturn, Freed, Status, DevicesInv, TypeInv, TypeOK
<1>3. \A x \in Device \ {job[w].device} : Kept(x)
  BY <1>1 DEF CommitReturn, Kept, DevicesInv, TypeInv, TypeOK
<1>. QED  BY <1>1, <1>2, <1>3 DEF CustodyStep, CommitReturn, CommitAndNotify, adminVars

LEMMA StepUpdate ==
  ASSUME DevicesInv, NEW w \in Worker, CommitUpdate(w), ~Refuse(w)
  PROVE  CustodyStep
<1>. DEFINE d == job[w].device
            s == job[w].status
<1>1. d \in Device /\ row[w] = device[d]
  BY JobDevice DEF CommitUpdate, DevicesInv, RowsCurrent
<1>2. /\ s \in StatusTransitions(row[w])
      /\ device' = [device EXCEPT ![d] = s]
      /\ history' = IF row[w] = "ASSIGNED" /\ s = "LOST"
                      THEN [history EXCEPT ![d] = Closed(d, "lost")] ELSE history
      /\ UNCHANGED <<audit, inbox, manager, adminVars, crashes>>
  BY DEF CommitUpdate
<1>3. /\ s \in Status \ {"ASSIGNED"} /\ s # None
      /\ row[w] = "ASSIGNED" => s = "LOST"
  BY <1>2, NoneAssumption DEF StatusTransitions, Status
<1>4. device'[d] = s  BY <1>1, <1>2 DEF DevicesInv, TypeInv, TypeOK
<1>5. row[w] = "ASSIGNED" => Freed(d)
  <2>1. row[w] = "ASSIGNED" => history'[d] = Closed(d, "lost")
    BY <1>1, <1>2, <1>3 DEF DevicesInv, TypeInv, TypeOK
  <2>. QED  BY <1>3, <1>4, <2>1 DEF Freed
<1>6. row[w] # "ASSIGNED" => Restated(d)
  BY <1>1, <1>2, <1>3, <1>4 DEF Restated
<1>7. \A x \in Device \ {d} : Kept(x)
  BY <1>1, <1>2 DEF Kept, DevicesInv, TypeInv, TypeOK
<1>8. edited' = edited  BY <1>2 DEF adminVars
<1>. QED  BY <1>1, <1>5, <1>6, <1>7, <1>8 DEF CustodyStep

LEMMA StepDelete ==
  ASSUME DevicesInv, NEW w \in Worker, CommitDelete(w), ~Refuse(w)
  PROVE  CustodyStep
<1>. DEFINE d == job[w].device
<1>1. d \in Device  BY JobDevice DEF CommitDelete, DevicesInv
<1>2. /\ history[d] = <<>> /\ history' = history /\ edited' = edited
      /\ device' = [device EXCEPT ![d] = None]
  BY DEF CommitDelete, adminVars
<1>3. device'[d] = None  BY <1>1, <1>2 DEF DevicesInv, TypeInv, TypeOK
<1>4. Open(d) = {}  BY <1>2 DEF Open
<1>5. Restated(d)
  BY <1>1, <1>2, <1>3, <1>4, NoneAssumption
     DEF Restated, DevicesInv, CustodyInv, StatusMatchesAssignments, Status
<1>6. \A x \in Device \ {d} : Kept(x)
  BY <1>1, <1>2 DEF Kept, DevicesInv, TypeInv, TypeOK
<1>. QED  BY <1>1, <1>2, <1>5, <1>6 DEF CustodyStep

LEMMA StepOther ==
  ASSUME DevicesInv, Other
  PROVE  CustodyStep
<1>1. ASSUME NEW d \in Device, CreateDevice(d) PROVE CustodyStep
  <2>1. Restated(d)
    BY <1>1, NoneAssumption
       DEF CreateDevice, Restated, Status, DevicesInv, TypeInv, TypeOK
  <2>2. \A x \in Device \ {d} : Kept(x)
    BY <1>1 DEF CreateDevice, Kept, DevicesInv, TypeInv, TypeOK
  <2>. QED  BY <1>1, <2>1, <2>2 DEF CreateDevice, CustodyStep, adminVars
<1>2. ASSUME NEW o \in Operator, OperatorSaves(o) PROVE CustodyStep
  <2>. DEFINE d == form[o].device
  <2>1. d \in Device /\ form[o].status \in Status
    BY <1>2 DEF OperatorSaves, DevicesInv, TypeInv, TypeOK
  <2>2. Restated(d)
    BY <1>2, <2>1, NoneAssumption
       DEF OperatorSaves, Restated, Status, DevicesInv, TypeInv, TypeOK
  <2>3. \A x \in Device \ {d} : Kept(x)
    BY <1>2, <2>1 DEF OperatorSaves, Kept, DevicesInv, TypeInv, TypeOK
  <2>. QED  BY <1>2, <2>1, <2>2, <2>3 DEF OperatorSaves, CustodyStep
<1>3. ASSUME UNCHANGED <<dbVars, edited>> PROVE CustodyStep
  BY <1>3 DEF dbVars, CustodyStep, Kept
<1>. QED
  BY <1>1, <1>2, <1>3 DEF Other, ChangeManager, OperatorLoads, adminVars, dbVars

LEMMA StepCustody ==
  ASSUME DevicesInv, [Next]_vars
  PROVE  CustodyStep
<1>1. ASSUME UNCHANGED <<dbVars, edited>> PROVE CustodyStep
  BY <1>1 DEF dbVars, CustodyStep, Kept
<1>2. CASE UNCHANGED vars  BY <1>1, <1>2 DEF vars, adminVars
<1>3. ASSUME NEW w \in Worker, Call(w) PROVE CustodyStep
  BY <1>1, <1>3
     DEF Call, AssignDevice, ReturnDevice, UpdateDevice, DeleteDevice, Begin, adminVars
<1>4. ASSUME NEW w \in Worker, LockDevice(w) PROVE CustodyStep
  BY <1>1, <1>4 DEF LockDevice, adminVars
<1>5. ASSUME NEW w \in Worker, Proceed(w) PROVE CustodyStep
  <2>1. CASE Refuse(w)  BY <1>1, <2>1 DEF Refuse, adminVars
  <2>2. CASE Notify(w)  BY <1>1, <2>2 DEF Notify, adminVars
  <2>. QED  BY <1>5, <2>1, <2>2, StepAssign, StepReturn, StepUpdate, StepDelete DEF Proceed
<1>6. ASSUME NEW w \in Worker, Crash(w) PROVE CustodyStep
  BY <1>1, <1>6 DEF Crash, adminVars
<1>. QED  BY <1>2, <1>3, <1>4, <1>5, <1>6, StepOther DEF Next


-----------------------------------------------------------------------------
(* The status column, the assignment rows and the device rows agree.         *)

(* What each kind of step leaves open.                                       *)
LEMMA OpenTaken ==
  ASSUME TypeInv, NEW d \in Device, Taken(d)
  PROVE  /\ Open(d)' = {Len(history[d]) + 1}
         /\ \E e \in Employee : Holders(d)' = {e}
         /\ history'[d] # <<>> /\ device'[d] = "ASSIGNED"
<1>1. PICK e \in Employee : history'[d] = Assignments(d, e)  BY DEF Taken
<1>. DEFINE n == Len(history[d]) + 1
<1>2. /\ DOMAIN history'[d] = 1..n /\ n \in Nat /\ n >= 1
      /\ DOMAIN history[d] = 1..(n - 1)
      /\ history'[d][n] = [employee |-> e, end |-> "open"]
      /\ \A i \in DOMAIN history[d] : history'[d][i] = history[d][i]
  BY <1>1, AssignmentsRows DEF TypeInv
<1>3. \A i \in DOMAIN history[d] : history'[d][i].end # "open"
  BY <1>2 DEF Taken, Open
<1>4. Open(d)' = {n}
  BY <1>2, <1>3 DEF Open
<1>5. Holders(d)' = {e}  BY <1>2, <1>4 DEF Holders
<1>6. history'[d] # <<>>  BY <1>2
<1>. QED  BY <1>4, <1>5, <1>6 DEF Taken

LEMMA OpenFreed ==
  ASSUME TypeInv, NEW d \in Device, Freed(d)
  PROVE  /\ Open(d)' = {} /\ Holders(d)' = {}
         /\ device'[d] # "ASSIGNED" /\ device'[d] # None
<1>1. PICK how \in {"returned", "lost"} : history'[d] = Closed(d, how)
  BY DEF Freed
<1>2. Open(d)' = {}  BY <1>1, ClosedRows DEF Open, TypeInv
<1>. QED  BY <1>2, NoneAssumption DEF Freed, Holders

LEMMA OpenSame ==
  ASSUME NEW d \in Device, history'[d] = history[d]
  PROVE  Open(d)' = Open(d) /\ Holders(d)' = Holders(d)
BY DEF Open, Holders

LEMMA CustodyInvStep ==
  ASSUME DevicesInv, [Next]_vars
  PROVE  CustodyInv'
<1>. USE DEF DevicesInv
<1>1. CustodyStep  BY StepCustody
<1>2. ASSUME NEW d \in Device
      PROVE  /\ d \notin edited' => (device'[d] = "ASSIGNED" <=> Open(d)' # {})
             /\ \A i, j \in Open(d)' : i = j
             /\ history'[d] # <<>> => device'[d] # None
  <2>1. /\ d \notin edited' => (device[d] = "ASSIGNED" <=> Open(d) # {})
        /\ \A i, j \in Open(d) : i = j
        /\ history[d] # <<>> => device[d] # None
    BY <1>1 DEF CustodyStep, CustodyInv, StatusMatchesAssignments,
                OneOpenAssignment, RowsRemain
  <2>2. CASE Kept(d)  BY <2>1, <2>2, OpenSame DEF Kept
  <2>3. CASE Taken(d)  BY <2>3, OpenTaken, NoneAssumption DEF Status
  <2>4. CASE Freed(d)  BY <2>4, OpenFreed
  <2>5. CASE Restated(d)  BY <2>1, <2>5, OpenSame DEF Restated
  <2>. QED  BY <1>1, <2>2, <2>3, <2>4, <2>5 DEF CustodyStep
<1>. QED
  BY <1>2 DEF CustodyInv, StatusMatchesAssignments, OneOpenAssignment, RowsRemain

LEMMA DevicesInit == Init => DevicesInv
<1>. SUFFICES ASSUME Init PROVE DevicesInv  OBVIOUS
<1>1. TypeInv  BY TypeInit
<1>2. LockedOnce /\ RowsCurrent  BY DEF Init, LockedOnce, RowsCurrent
<1>3. \A d \in Device : device[d] = None /\ history[d] = <<>> /\ Open(d) = {}
  BY DEF Init, Open
<1>4. CustodyInv
  BY <1>3, NoneAssumption
     DEF CustodyInv, StatusMatchesAssignments, OneOpenAssignment, RowsRemain, Status
<1>. QED  BY <1>1, <1>2, <1>4 DEF DevicesInv

LEMMA DevicesStep == DevicesInv /\ [Next]_vars => DevicesInv'
BY TypeStep, LocksStep, CustodyInvStep DEF DevicesInv

(* The device row, its lock and its assignments stay consistent, for any     *)
(* number of workers, operators and devices.                                 *)
THEOREM Safe == Spec => []DevicesInv
BY DevicesInit, DevicesStep, PTL DEF Spec

(* The status column says ASSIGNED exactly while an assignment is open, on   *)
(* every device the admin site never saved.                                  *)
THEOREM StatusMatches == Spec => []StatusMatchesAssignments
<1>1. DevicesInv => StatusMatchesAssignments  BY DEF DevicesInv, CustodyInv
<1>. QED  BY <1>1, Safe, PTL

(* A device never has two open assignments, even behind the admin site.      *)
THEOREM OneOpen == Spec => []OneOpenAssignment
<1>1. DevicesInv => OneOpenAssignment  BY DEF DevicesInv, CustodyInv
<1>. QED  BY <1>1, Safe, PTL

(* Rows of the history are only added or closed, never rewritten, and the    *)
(* device of a history is never deleted.                                     *)
THEOREM HistoryIsKept == Spec => HistoryKept
<1>1. ASSUME DevicesInv, [Next]_vars PROVE [\A d \in Device : Extends(d)]_vars
  <2>. USE DEF DevicesInv
  <2>1. CustodyStep  BY <1>1, StepCustody
  <2>2. RowsRemain  BY <1>1 DEF CustodyInv
  <2>3. ASSUME NEW d \in Device PROVE Extends(d)
    <3>. USE DEF TypeInv
    <3>1. history[d] \in Seq(Assignment) /\ Len(history[d]) \in Nat
      BY <1>1, LenProperties DEF TypeOK
    <3>2. CASE history'[d] = history[d] /\ (history[d] # <<>> => device'[d] # None)
      BY <3>1, <3>2 DEF Extends
    <3>3. CASE Taken(d)
      <4>1. PICK e \in Employee : history'[d] = Assignments(d, e)
        BY <3>3 DEF Taken
      <4>2. device'[d] # None  BY <3>3, NoneAssumption DEF Taken, Status
      <4>3. /\ Len(history'[d]) = Len(history[d]) + 1
            /\ \A i \in DOMAIN history[d] : history'[d][i] = history[d][i]
        BY <1>1, <4>1, AssignmentsRows
      <4>. QED  BY <3>1, <4>2, <4>3 DEF Extends
    <3>4. CASE Freed(d)
      <4>1. PICK how \in {"returned", "lost"} : history'[d] = Closed(d, how)
        BY <3>4 DEF Freed
      <4>2. device'[d] # None  BY <1>1, <3>4, OpenFreed
      <4>. QED  BY <1>1, <3>1, <4>1, <4>2, ClosedRows DEF Extends
    <3>. QED  BY <2>1, <2>2, <3>2, <3>3, <3>4
                 DEF CustodyStep, Kept, Restated, RowsRemain
  <2>. QED  BY <2>3
<1>. QED  BY <1>1, Safe, PTL DEF Spec, HistoryKept

-----------------------------------------------------------------------------
(* The audit log.                                                            *)

LoggedAt(d, i, action, n) == audit[d][i] = [action |-> action, nth |-> n]

(* Every entry is about an assignment that was made, and returned if the     *)
(* entry says so; every assignment and every return has an entry; and no two *)
(* entries say the same. Counting follows from these three.                  *)
EntriesTrue(d) ==
  \A i \in DOMAIN audit[d] :
    /\ audit[d][i].nth \in DOMAIN history[d]
    /\ audit[d][i].action = "DEVICE_RETURNED" =>
         history[d][audit[d][i].nth].end = "returned"
AllLogged(d) ==
  \A n \in DOMAIN history[d] :
    /\ \E i \in DOMAIN audit[d] : LoggedAt(d, i, "DEVICE_ASSIGNED", n)
    /\ history[d][n].end = "returned" =>
         \E i \in DOMAIN audit[d] : LoggedAt(d, i, "DEVICE_RETURNED", n)
LoggedOnce(d) ==
  \A i, j \in DOMAIN audit[d] : audit[d][i] = audit[d][j] => i = j

AuditInv == \A d \in Device : EntriesTrue(d) /\ AllLogged(d) /\ LoggedOnce(d)

(* What a step does to the log of a device and to its assignments.           *)
Untouched(d) == UNCHANGED <<history[d], audit[d]>>
LogsAssign(d) ==
  LET n == Len(history[d]) + 1 IN
  /\ \E e \in Employee : history'[d] = Assignments(d, e)
  /\ audit'[d] = Append(audit[d], [action |-> "DEVICE_ASSIGNED", nth |-> n])
LogsReturn(d) ==
  \E n \in Open(d) :
    /\ history'[d] = Closed(d, "returned")
    /\ audit'[d] = Append(audit[d], [action |-> "DEVICE_RETURNED", nth |-> n])
LogsNoLoss(d) == history'[d] = Closed(d, "lost") /\ audit'[d] = audit[d]

LEMMA LogStep ==
  ASSUME DevicesInv, [Next]_vars, NEW d \in Device
  PROVE  Untouched(d) \/ LogsAssign(d) \/ LogsReturn(d) \/ LogsNoLoss(d)
<1>0. history \in [Device -> Seq(Assignment)] /\ audit \in [Device -> Seq(AuditEntry)]
  BY DEF DevicesInv, TypeInv, TypeOK
<1>1. ASSUME UNCHANGED <<history, audit>> PROVE Untouched(d)
  BY <1>1 DEF Untouched
<1>2. ASSUME NEW w \in Worker, CommitAssign(w), ~Refuse(w)
      PROVE  Untouched(d) \/ LogsAssign(d)
  <2>1. job[w].device \in Device /\ job[w].employee \in Employee
    BY <1>2, JobDevice DEF CommitAssign, DevicesInv, TypeInv, JobOK
  <2>. QED  BY <1>0, <1>2, <2>1 DEF CommitAssign, Record, Untouched, LogsAssign
<1>3. ASSUME NEW w \in Worker, CommitReturn(w), ~Refuse(w)
      PROVE  Untouched(d) \/ LogsReturn(d)
  <2>1. job[w].device \in Device  BY <1>3, JobDevice DEF CommitReturn, DevicesInv
  <2>2. PICK n \in Open(job[w].device) :
          /\ history' = [history EXCEPT ![job[w].device] = Closed(job[w].device, "returned")]
          /\ Record(job[w].device, "DEVICE_RETURNED", n)
    BY <1>3 DEF CommitReturn
  <2>3. CASE d = job[w].device  BY <1>0, <2>2, <2>3 DEF Record, LogsReturn
  <2>4. CASE d # job[w].device  BY <1>0, <2>2, <2>4 DEF Record, Untouched
  <2>. QED  BY <2>3, <2>4
<1>4. ASSUME NEW w \in Worker, CommitUpdate(w), ~Refuse(w)
      PROVE  Untouched(d) \/ LogsNoLoss(d)
  <2>1. job[w].device \in Device  BY <1>4, JobDevice DEF CommitUpdate, DevicesInv
  <2>. QED  BY <1>0, <1>4, <2>1 DEF CommitUpdate, Untouched, LogsNoLoss
<1>5. ASSUME NEW w \in Worker, CommitDelete(w) PROVE Untouched(d)
  BY <1>1, <1>5 DEF CommitDelete, Refuse, dbVars
<1>6. ASSUME NEW w \in Worker, Refuse(w) \/ Notify(w) \/ Crash(w) \/ LockDevice(w) \/ Call(w)
      PROVE  Untouched(d)
  BY <1>1, <1>6 DEF Refuse, Notify, Crash, LockDevice, Call, AssignDevice, ReturnDevice,
     UpdateDevice, DeleteDevice, Begin, dbVars
<1>7. ASSUME Other \/ UNCHANGED vars PROVE Untouched(d)
  BY <1>1, <1>7 DEF Other, CreateDevice, ChangeManager, OperatorLoads, OperatorSaves, dbVars, vars
<1>. QED  BY <1>2, <1>3, <1>4, <1>5, <1>6, <1>7 DEF Next, Proceed

LEMMA LogRows ==
  ASSUME TypeOK, NEW d \in Device
  PROVE  /\ audit[d] \in Seq(AuditEntry) /\ Len(audit[d]) \in Nat
         /\ DOMAIN audit[d] = 1..Len(audit[d])
         /\ \A i \in DOMAIN audit[d] : audit[d][i] \in AuditEntry
         /\ \A a \in AuditEntry :
              /\ DOMAIN Append(audit[d], a) = DOMAIN audit[d] \cup {Len(audit[d]) + 1}
              /\ Append(audit[d], a)[Len(audit[d]) + 1] = a
              /\ \A i \in DOMAIN audit[d] : Append(audit[d], a)[i] = audit[d][i]
         /\ DOMAIN history[d] = 1..Len(history[d]) /\ Len(history[d]) \in Nat
<1>1. audit[d] \in Seq(AuditEntry) /\ history[d] \in Seq(Assignment)  BY DEF TypeOK
<1>. QED  BY <1>1, LenProperties, ElementOfSeq, AppendProperties

(* A new entry is true, unlike all before, and what it tells was missing.    *)
LEMMA AuditAssign ==
  ASSUME DevicesInv, AuditInv, NEW d \in Device, LogsAssign(d)
  PROVE  EntriesTrue(d)' /\ AllLogged(d)' /\ LoggedOnce(d)'
<1> DEFINE n == Len(history[d]) + 1
           m == Len(audit[d]) + 1
           a == [action |-> "DEVICE_ASSIGNED", nth |-> n]
<1>1. TypeOK /\ EntriesTrue(d) /\ AllLogged(d) /\ LoggedOnce(d)
  BY DEF DevicesInv, TypeInv, AuditInv
<1>2. PICK e \in Employee : history'[d] = Assignments(d, e)  BY DEF LogsAssign
<1>3. /\ DOMAIN history'[d] = DOMAIN history[d] \cup {n} /\ n \in Nat
      /\ history'[d][n].end = "open" /\ n \notin DOMAIN history[d]
      /\ \A i \in DOMAIN history[d] : history'[d][i] = history[d][i]
  <2>0. TypeOK  BY <1>1
  <2>1. /\ DOMAIN history'[d] = 1..n /\ n \in Nat /\ n >= 1
        /\ DOMAIN history[d] = 1..(n - 1)
        /\ history'[d][n] = [employee |-> e, end |-> "open"]
        /\ \A i \in DOMAIN history[d] : history'[d][i] = history[d][i]
    BY <1>2, <2>0, AssignmentsRows
  <2>2. history'[d][n].end = "open"  BY <2>1
  <2>3. 1..n = 1..(n - 1) \cup {n} /\ n \notin 1..(n - 1)  BY <2>1
  <2>. QED  BY <2>1, <2>2, <2>3
<1>4. a \in AuditEntry  BY <1>3 DEF AuditEntry
<1>5. /\ DOMAIN audit'[d] = DOMAIN audit[d] \cup {m} /\ audit'[d][m] = a
      /\ \A i \in DOMAIN audit[d] : audit'[d][i] = audit[d][i]
      /\ \A i \in DOMAIN audit[d] : audit[d][i] # a
  <2>1. audit'[d] = Append(audit[d], a)  BY DEF LogsAssign
  <2>2. \A i \in DOMAIN audit[d] : audit[d][i].nth # n  BY <1>1, <1>3 DEF EntriesTrue
  <2>3. \A i \in DOMAIN audit[d] : audit[d][i] # a  BY <2>2
  <2>. QED  BY <1>1, <1>4, <2>1, <2>3, LogRows
<1> HIDE DEF n, m
<1>6. EntriesTrue(d)'  BY <1>1, <1>3, <1>5 DEF EntriesTrue
<1>7. AllLogged(d)'  BY <1>1, <1>3, <1>5 DEF AllLogged, LoggedAt
<1>8. LoggedOnce(d)'  BY <1>1, <1>5 DEF LoggedOnce
<1>. QED  BY <1>6, <1>7, <1>8

LEMMA AuditReturn ==
  ASSUME DevicesInv, AuditInv, NEW d \in Device, LogsReturn(d)
  PROVE  EntriesTrue(d)' /\ AllLogged(d)' /\ LoggedOnce(d)'
<1>1. TypeOK /\ EntriesTrue(d) /\ AllLogged(d) /\ LoggedOnce(d)
  BY DEF DevicesInv, TypeInv, AuditInv
<1>2. PICK n \in Open(d) :
        /\ history'[d] = Closed(d, "returned")
        /\ audit'[d] = Append(audit[d], [action |-> "DEVICE_RETURNED", nth |-> n])
  BY DEF LogsReturn
<1> DEFINE m == Len(audit[d]) + 1
           a == [action |-> "DEVICE_RETURNED", nth |-> n]
<1>3. /\ n \in DOMAIN history[d] /\ history[d][n].end = "open" /\ n \in Nat
      /\ \A i \in DOMAIN history[d] : history[d][i].end = "open" => i = n
  BY <1>1, <1>2, LogRows DEF Open, DevicesInv, CustodyInv, OneOpenAssignment
<1>4. /\ DOMAIN history'[d] = DOMAIN history[d] /\ history'[d][n].end = "returned"
      /\ \A i \in DOMAIN history[d] : i # n => history'[d][i] = history[d][i]
  <2>1. history'[d][n].end = "returned"
    BY <1>1, <1>2, <1>3, ElementOfSeq DEF Closed, Assignment, TypeOK
  <2>. QED  BY <1>1, <1>2, <1>3, <2>1, ClosedRows
<1>5. /\ DOMAIN audit'[d] = DOMAIN audit[d] \cup {m} /\ audit'[d][m] = a
      /\ \A i \in DOMAIN audit[d] : audit'[d][i] = audit[d][i]
      /\ \A i \in DOMAIN audit[d] : audit[d][i] # a
  <2>1. a \in AuditEntry  BY <1>3 DEF AuditEntry
  <2>2. a.action = "DEVICE_RETURNED" /\ a.nth = n  OBVIOUS
  <2>3. \A i \in DOMAIN audit[d] : audit[d][i] # a  BY <1>1, <1>3, <2>2 DEF EntriesTrue
  <2>. QED  BY <1>1, <1>2, <2>1, <2>3, LogRows
<1>6. a.action = "DEVICE_RETURNED" /\ a.nth = n  OBVIOUS
<1>7. EntriesTrue(d)'  BY <1>1, <1>3, <1>4, <1>5, <1>6 DEF EntriesTrue
<1>8. AllLogged(d)'  BY <1>1, <1>4, <1>5 DEF AllLogged, LoggedAt
<1>9. LoggedOnce(d)'  BY <1>1, <1>5 DEF LoggedOnce
<1>. QED  BY <1>7, <1>8, <1>9

LEMMA AuditLoss ==
  ASSUME DevicesInv, AuditInv, NEW d \in Device, LogsNoLoss(d)
  PROVE  EntriesTrue(d)' /\ AllLogged(d)' /\ LoggedOnce(d)'
<1>1. TypeOK /\ EntriesTrue(d) /\ AllLogged(d) /\ LoggedOnce(d)
  BY DEF DevicesInv, TypeInv, AuditInv
<1>2. /\ DOMAIN history'[d] = DOMAIN history[d] /\ audit'[d] = audit[d]
      /\ \A i \in DOMAIN history[d] :
           history[d][i].end # "open" => history'[d][i] = history[d][i]
      /\ \A i \in DOMAIN history[d] :
           history[d][i].end = "open" => history'[d][i].end = "lost"
  <2>1. \A i \in DOMAIN history[d] : history[d][i] \in Assignment
    BY <1>1, ElementOfSeq DEF TypeOK
  <2>2. \A i \in DOMAIN history[d] :
          history[d][i].end = "open" => history'[d][i].end = "lost"
    BY <2>1 DEF LogsNoLoss, Closed, Open, Assignment
  <2>. QED  BY <1>1, <2>2, ClosedRows DEF LogsNoLoss
<1>3. EntriesTrue(d)'  BY <1>1, <1>2 DEF EntriesTrue
<1>4. AllLogged(d)'  BY <1>1, <1>2 DEF AllLogged, LoggedAt
<1>5. LoggedOnce(d)'  BY <1>1, <1>2 DEF LoggedOnce
<1>. QED  BY <1>3, <1>4, <1>5

LEMMA AuditStep == DevicesInv /\ AuditInv /\ [Next]_vars => AuditInv'
<1> SUFFICES ASSUME DevicesInv, AuditInv, [Next]_vars, NEW d \in Device
             PROVE  EntriesTrue(d)' /\ AllLogged(d)' /\ LoggedOnce(d)'
  BY DEF AuditInv
<1>1. ASSUME Untouched(d) PROVE EntriesTrue(d)' /\ AllLogged(d)' /\ LoggedOnce(d)'
  BY <1>1 DEF Untouched, AuditInv, EntriesTrue, AllLogged, LoggedOnce, LoggedAt
<1>. QED  BY <1>1, LogStep, AuditAssign, AuditReturn, AuditLoss

LEMMA AuditInit == Init => AuditInv
BY DEF Init, AuditInv, EntriesTrue, AllLogged, LoggedOnce

(* The audit log counts every assignment once and every return once, however *)
(* the handlers, crashes and saves of the admin site interleave.             *)
THEOREM AuditCounts == Spec => []CustodyAudited
<1>1. ASSUME DevicesInv, AuditInv PROVE CustodyAudited
  <2> SUFFICES ASSUME NEW d \in Device, NEW n \in DOMAIN history[d]
               PROVE  /\ Cardinality(Logged(d, "DEVICE_ASSIGNED", n)) = 1
                      /\ Cardinality(Logged(d, "DEVICE_RETURNED", n)) =
                           IF history[d][n].end = "returned" THEN 1 ELSE 0
    BY DEF CustodyAudited
  <2>1. EntriesTrue(d) /\ AllLogged(d) /\ LoggedOnce(d)  BY <1>1 DEF AuditInv
  <2>2. ASSUME NEW action, \E i \in DOMAIN audit[d] : LoggedAt(d, i, action, n)
        PROVE  Cardinality(Logged(d, action, n)) = 1
    <3>1. PICK i \in DOMAIN audit[d] : LoggedAt(d, i, action, n)  BY <2>2
    <3>2. Logged(d, action, n) = {i}  BY <2>1, <3>1 DEF Logged, LoggedAt, LoggedOnce
    <3>. QED  BY <3>2, FS_Singleton
  <2>3. CASE history[d][n].end = "returned"  BY <2>1, <2>2, <2>3 DEF AllLogged
  <2>4. CASE history[d][n].end # "returned"
    <3>1. Cardinality(Logged(d, "DEVICE_ASSIGNED", n)) = 1  BY <2>1, <2>2 DEF AllLogged
    <3>2. Logged(d, "DEVICE_RETURNED", n) = {}  BY <2>1, <2>4 DEF EntriesTrue, Logged
    <3>. QED  BY <2>4, <3>1, <3>2, FS_EmptySet
  <2>. QED  BY <2>3, <2>4
<1>2. Spec => []AuditInv  BY AuditInit, AuditStep, Safe, PTL DEF Spec
<1>. QED  BY <1>1, <1>2, Safe, PTL

-----------------------------------------------------------------------------
(* Custody.                                                                  *)

(* Every history of the handlers, the crashes and the admin site hands a     *)
(* device on only after it was let go, as Custody promises.                  *)
THEOREM ImplementsCustody == Spec => HandedOverOnce
<1>. DEFINE held == [d \in Device |-> Holders(d)]
<1>1. Init => Implements!Init
  BY DEF Init, Implements!Init, Holders, Open
<1>2. ASSUME DevicesInv, [Next]_vars PROVE [Implements!Next]_held
  <2>1. CustodyStep /\ TypeInv  BY <1>2, StepCustody DEF DevicesInv
  <2>2. \A d \in Device : Kept(d) \/ Restated(d) => Holders(d)' = Holders(d)
    BY OpenSame DEF Kept, Restated
  <2>3. ASSUME \A d \in Device : Holders(d)' = Holders(d)
        PROVE  held' = held
    BY <2>3
  <2>4. ASSUME NEW d \in Device, \A x \in Device \ {d} : Holders(x)' = Holders(x),
               Taken(d)
        PROVE  Implements!Next
    <3>1. PICK e \in Employee : Holders(d)' = {e}  BY <2>1, <2>4, OpenTaken
    <3>2. held[d] = {}  BY <2>4 DEF Taken, Holders
    <3>3. held' = [held EXCEPT ![d] = {e}]  BY <2>4, <3>1
    <3>. QED  BY <3>2, <3>3 DEF Implements!Next, Implements!Take
  <2>5. ASSUME NEW d \in Device, \A x \in Device \ {d} : Holders(x)' = Holders(x),
               Freed(d)
        PROVE  Implements!Next \/ held' = held
    <3>1. Holders(d)' = {}  BY <2>1, <2>5, OpenFreed
    <3>2. held' = [held EXCEPT ![d] = {}]  BY <2>5, <3>1
    <3>3. CASE held[d] # {}
      BY <3>2, <3>3 DEF Implements!Next, Implements!LetGo
    <3>4. CASE held[d] = {}  BY <2>3, <2>5, <3>1, <3>4
    <3>. QED  BY <3>3, <3>4
  <2>. QED  BY <2>1, <2>2, <2>3, <2>4, <2>5 DEF CustodyStep
<1>. QED  BY <1>1, <1>2, Safe, PTL DEF Spec, HandedOverOnce, Implements!Spec
=============================================================================
