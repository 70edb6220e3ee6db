------------------------------- MODULE Devices -------------------------------
(***************************************************************************)
(* Company devices and their assignment history (backend/apps/devices).    *)
(*                                                                         *)
(* As in Leave, a Worker serves one HTTP call at a time: it authorises the *)
(* call on a device it read without a lock, waits for the device row's     *)
(* lock, works on the row it reads under the lock and commits, and writes  *)
(* the notification after the commit. The row locks on Company and         *)
(* Employee that the joined statements also take only delay a handler and  *)
(* are left out. An Operator saves a device form in the Django admin,      *)
(* which reads the row without a lock and writes every column back.        *)
(***************************************************************************)
EXTENDS Integers, Sequences, FiniteSets

CONSTANTS
  Employee,       \* employees of the company, each linked to a user account
  Manager,        \* the employees whose user has the MANAGER role
  Admin,          \* users with the COMPANY_ADMIN role and no employee profile
  Device,         \* bound: ids available for devices
  Worker,         \* server processes
  Operator,       \* bound: concurrent requests of platform operators
  FirstManager,   \* Employee.manager at the start
  ReportingLine,  \* bound: the <<employee, manager>> pairs HR saves
  NewStatus,      \* bound: the statuses administrators and operators submit
  MaxAssignments, \* bound: assignments of one device
  MaxCrashes,     \* bound: how many times a worker is killed
  None            \* absent row, empty local variable

ASSUME DevicesAssumption ==
  /\ Manager \subseteq Employee
  /\ Admin \cap Employee = {}
  /\ FirstManager \in [Employee -> Employee \cup {None}]
  /\ ReportingLine \subseteq Employee \X (Employee \cup {None})
  /\ NewStatus \subseteq {"AVAILABLE", "ASSIGNED", "MAINTENANCE", "RETIRED", "LOST"}
  /\ MaxAssignments \in Nat /\ MaxCrashes \in Nat

VARIABLES
  device,   \* Device rows: the status column
  history,  \* DeviceAssignment rows of each device, in order of assigned_at
  audit,    \* AuditLog rows of each device: the action and the assignment
  inbox,    \* Notification rows, unique per (recipient, event_key)
  manager,  \* Employee.manager
  pc, job,  \* per worker: where its handler is; the call being served
  row,      \* per worker: the device it read under the lock
  note,     \* per worker: what it announces after the commit
  form,     \* per operator: the device as the admin site will save it
  edited,   \* history variable: devices the admin site has saved
  crashes   \* how many workers were killed

dbVars      == <<device, history, audit>>
handlerVars == <<pc, job, row, note>>
adminVars   == <<form, edited>>
vars == <<dbVars, inbox, manager, handlerVars, adminVars, crashes>>

-----------------------------------------------------------------------------
(* Rows and their types.                                                   *)

User   == Employee \cup Admin
Status == {"AVAILABLE", "ASSIGNED", "MAINTENANCE", "RETIRED", "LOST"}

(* returned_at is NULL while the assignment is open; the note that          *)
(* _change_status_locked appends tells a lost device from a returned one.   *)
Assignment  == [employee : Employee, end : {"open", "returned", "lost"}]
AuditEntry  == [action : {"DEVICE_ASSIGNED", "DEVICE_RETURNED"}, nth : Nat]
Announcement ==
  [event : {"DEVICE_ASSIGNED", "DEVICE_RETURNED"}, device : Device,
   employee : Employee, nth : Nat]

Job == [op : {"assign", "return", "update", "delete"}, actor : User,
        device : Device, employee : Employee \cup {None},
        status : Status \cup {None}]

ASSUME NoneAssumption ==
  /\ None \notin Employee \cup Admin \cup Status
  /\ None \notin Job \cup Announcement \cup [device : Device, status : Status]

TypeOK ==
  /\ device \in [Device -> Status \cup {None}]
  /\ history \in [Device -> Seq(Assignment)]
  /\ audit \in [Device -> Seq(AuditEntry)]
  /\ inbox \subseteq Announcement
  /\ manager \in [Employee -> Employee \cup {None}]
  /\ pc \in [Worker -> {"idle", "lock", "locked", "notify"}]
  /\ job \in [Worker -> Job \cup {None}]
  /\ row \in [Worker -> Status \cup {None}]
  /\ note \in [Worker -> Announcement \cup {None}]
  /\ form \in [Operator -> [device : Device, status : Status] \cup {None}]
  /\ edited \subseteq Device
  /\ crashes \in 0..MaxCrashes
  /\ \A w \in Worker : /\ pc[w] # "idle" <=> job[w] # None
                       /\ pc[w] = "locked" <=> row[w] # None
                       /\ pc[w] = "notify" <=> note[w] # None

-----------------------------------------------------------------------------
(* Assignment rows.                                                        *)

Open(d) == {i \in DOMAIN history[d] : history[d][i].end = "open"}

Holders(d) == {history[d][i].employee : i \in Open(d)}

Assignments(d, e) == Append(history[d], [employee |-> e, end |-> "open"])

(* Variant with a bug: the closed assignment is never saved.               *)
ClosedUnsaved(d, how) == history[d]

Closed(d, how) ==
  [i \in DOMAIN history[d] |->
     IF i \in Open(d) THEN [history[d][i] EXCEPT !.end = how] ELSE history[d][i]]

Record(d, action, n) ==
  audit' = [audit EXCEPT ![d] = Append(@, [action |-> action, nth |-> n])]

-----------------------------------------------------------------------------
(* How a handler moves.                                                    *)

Begin(w, j) ==
  /\ pc[w] = "idle"
  /\ pc'  = [pc EXCEPT ![w] = "lock"]
  /\ job' = [job EXCEPT ![w] = j]
  /\ UNCHANGED <<dbVars, inbox, manager, row, note, adminVars, crashes>>

(* The response is sent, or an exception rolled the transaction back.      *)
Finish(w) ==
  /\ pc'   = [pc EXCEPT ![w] = "idle"]
  /\ job'  = [job EXCEPT ![w] = None]
  /\ row'  = [row EXCEPT ![w] = None]
  /\ note' = [note EXCEPT ![w] = None]

CommitAndNotify(w, n) ==
  /\ pc'   = [pc EXCEPT ![w] = "notify"]
  /\ row'  = [row EXCEPT ![w] = None]
  /\ note' = [note EXCEPT ![w] = n]
  /\ UNCHANGED <<job, inbox, manager, adminVars, crashes>>

Refuse(w) == Finish(w) /\ UNCHANGED <<dbVars, inbox, manager, adminVars, crashes>>

(* No transaction holds the device row.                                    *)
Unlocked(d) == \A w \in Worker : ~(pc[w] = "locked" /\ job[w].device = d)


-----------------------------------------------------------------------------
(* Reading and authorising, before the transaction.                        *)

IsDirectReport(u, e) == u \in Manager /\ manager[e] = u

CanViewEmployee(u, e) == u \in Admin \/ u = e \/ IsDirectReport(u, e)

(* Only administrators and managers have a permission on devices.          *)
CanViewDevice(u, d) ==
  \/ u \in Admin
  \/ u \in Manager /\ \/ device[d] = "AVAILABLE"
                      \/ \E e \in Holders(d) : CanViewEmployee(u, e)

NewJob(op, u, d) ==
  [op |-> op, actor |-> u, device |-> d, employee |-> None, status |-> None]

(* _assert_assignable_employee                                             *)
Assignable(u, e) == u \in Admin \/ IsDirectReport(u, e)

AssignDevice(w, u, d, e) ==
  /\ device[d] # None /\ Len(history[d]) < MaxAssignments
  /\ CanViewDevice(u, d) /\ Assignable(u, e)
  /\ Begin(w, [NewJob("assign", u, d) EXCEPT !.employee = e])

ReturnDevice(w, u, d) ==
  /\ device[d] # None
  /\ CanViewDevice(u, d)
  /\ Begin(w, NewJob("return", u, d))

UpdateDevice(w, u, d, s) ==
  /\ device[d] # None /\ u \in Admin
  /\ Begin(w, [NewJob("update", u, d) EXCEPT !.status = s])

DeleteDevice(w, u, d) ==
  /\ device[d] # None /\ u \in Admin
  /\ Begin(w, NewJob("delete", u, d))

(* Variant with a bug: the lock is waited for, the row is not re-read.     *)
RowExistsUnchecked(d) == TRUE

RowExists(d) == device[d] # None

(* select_for_update().get(pk): a deleted device raises DoesNotExist.      *)
LockDevice(w) ==
  LET d == job[w].device IN
  /\ pc[w] = "lock" /\ Unlocked(d)
  /\ IF RowExists(d)
       THEN /\ pc'  = [pc EXCEPT ![w] = "locked"]
            /\ row' = [row EXCEPT ![w] = device[d]]
            /\ UNCHANGED <<job, note>>
       ELSE Finish(w)
  /\ UNCHANGED <<dbVars, inbox, manager, adminVars, crashes>>

-----------------------------------------------------------------------------
(* Under the device lock.                                                  *)

(* Variant with a bug: the status alone tells that a device is free.       *)
CanAssignByStatus(w) == row[w] = "AVAILABLE"

CanAssign(w) == row[w] = "AVAILABLE" /\ Open(job[w].device) = {}

CommitAssign(w) ==
  LET d == job[w].device
      n == Len(history[d]) + 1
  IN
  /\ pc[w] = "locked" /\ job[w].op = "assign"
  /\ \/ /\ CanAssign(w)
        /\ history' = [history EXCEPT ![d] = Assignments(d, job[w].employee)]
        /\ device' = [device EXCEPT ![d] = "ASSIGNED"]
        /\ Record(d, "DEVICE_ASSIGNED", n)
        /\ CommitAndNotify(w, [event |-> "DEVICE_ASSIGNED", device |-> d,
                               employee |-> job[w].employee, nth |-> n])
     \/ ~CanAssign(w) /\ Refuse(w)

CommitReturn(w) ==
  LET d == job[w].device IN
  /\ pc[w] = "locked" /\ job[w].op = "return"
  /\ \/ \E n \in Open(d) :
          /\ history' = [history EXCEPT ![d] = Closed(d, "returned")]
          /\ device' = [device EXCEPT ![d] = "AVAILABLE"]
          /\ Record(d, "DEVICE_RETURNED", n)
          /\ CommitAndNotify(w, [event |-> "DEVICE_RETURNED", device |-> d,
                                 employee |-> history[d][n].employee, nth |-> n])
     \/ Open(d) = {} /\ Refuse(w)

(* Variant with a bug: an assigned device can go to maintenance.           *)
StatusTransitionsToRepair(from) ==
  CASE from = "AVAILABLE"   -> {"MAINTENANCE", "RETIRED", "LOST"}
    [] from = "ASSIGNED"    -> {"MAINTENANCE", "LOST"}
    [] from = "MAINTENANCE" -> {"AVAILABLE", "RETIRED"}
    [] OTHER -> {}

StatusTransitions(from) ==
  CASE from = "AVAILABLE"   -> {"MAINTENANCE", "RETIRED", "LOST"}
    [] from = "ASSIGNED"    -> {"LOST"}
    [] from = "MAINTENANCE" -> {"AVAILABLE", "RETIRED"}
    [] OTHER -> {}

(* The other columns of the row are saved too; they are not modelled.      *)
CommitUpdate(w) ==
  LET d == job[w].device
      s == job[w].status
  IN
  /\ pc[w] = "locked" /\ job[w].op = "update"
  /\ \/ /\ s \in StatusTransitions(row[w])
        /\ device' = [device EXCEPT ![d] = s]
        /\ history' = IF row[w] = "ASSIGNED" /\ s = "LOST"
                        THEN [history EXCEPT ![d] = Closed(d, "lost")] ELSE history
        /\ Finish(w)
        /\ UNCHANGED <<audit, inbox, manager, adminVars, crashes>>
     \/ s \notin StatusTransitions(row[w]) /\ Refuse(w)

CommitDelete(w) ==
  LET d == job[w].device IN
  /\ pc[w] = "locked" /\ job[w].op = "delete"
  /\ \/ /\ history[d] = <<>>
        /\ device' = [device EXCEPT ![d] = None]
        /\ Finish(w)
        /\ UNCHANGED <<history, audit, inbox, manager, adminVars, crashes>>
     \/ history[d] # <<>> /\ Refuse(w)

-----------------------------------------------------------------------------
(* After the commit: notifications/integration.py.                         *)

(* Variant with a bug: the actor is told, not the employee.                *)
RecipientsActor(w) == {job[w].actor} \cap Employee

Recipients(w) == {note[w].employee} \ {job[w].actor}

(* event_key names the event, the device and the employee.                 *)
SameEventKey(n, m) ==
  n.event = m.event /\ n.device = m.device /\ n.employee = m.employee

Notify(w) ==
  /\ pc[w] = "notify"
  /\ inbox' = inbox \cup
       {n \in {note[w]} : n.employee \in Recipients(w)
                          /\ \A m \in inbox : ~SameEventKey(n, m)}
  /\ Finish(w)
  /\ UNCHANGED <<dbVars, manager, adminVars, crashes>>

Crash(w) ==
  /\ pc[w] # "idle" /\ crashes < MaxCrashes
  /\ crashes' = crashes + 1
  /\ Finish(w)
  /\ UNCHANGED <<dbVars, inbox, manager, adminVars>>


-----------------------------------------------------------------------------
(* Single statements: create_device, HR's change of a manager, and the two *)
(* halves of a save in the admin site.                                     *)

CreateDevice(d) ==
  /\ device[d] = None
  /\ \A w \in Worker : pc[w] # "idle" => job[w].device # d
  /\ \A o \in Operator : form[o] # None => form[o].device # d
  /\ device' = [device EXCEPT ![d] = "AVAILABLE"]
  /\ UNCHANGED <<history, audit, inbox, manager, handlerVars, adminVars, crashes>>

ChangeManager(e, m) ==
  /\ m # e /\ (m # None => manager[m] # e)
  /\ manager' = [manager EXCEPT ![e] = m]
  /\ UNCHANGED <<dbVars, inbox, handlerVars, adminVars, crashes>>

(* The status of an assigned device is read-only in the form; otherwise    *)
(* every status but ASSIGNED can be chosen.                                *)
OperatorLoads(o, d, s) ==
  /\ form[o] = None /\ device[d] # None
  /\ device[d] = "ASSIGNED" \/ s # "ASSIGNED"
  /\ form' = [form EXCEPT ![o] =
       [device |-> d, status |-> IF device[d] = "ASSIGNED" THEN "ASSIGNED" ELSE s]]
  /\ UNCHANGED <<dbVars, inbox, manager, handlerVars, edited, crashes>>

(* Model.save() updates every column, and inserts the row if it is gone.   *)
OperatorSaves(o) ==
  /\ form[o] # None /\ Unlocked(form[o].device)
  /\ device' = [device EXCEPT ![form[o].device] = form[o].status]
  /\ edited' = edited \cup {form[o].device}
  /\ form' = [form EXCEPT ![o] = None]
  /\ UNCHANGED <<history, audit, inbox, manager, handlerVars, crashes>>

-----------------------------------------------------------------------------
Init ==
  /\ device = [d \in Device |-> None]
  /\ history = [d \in Device |-> <<>>]
  /\ audit = [d \in Device |-> <<>>]
  /\ inbox = {}
  /\ manager = FirstManager
  /\ pc = [w \in Worker |-> "idle"]
  /\ job = [w \in Worker |-> None]
  /\ row = [w \in Worker |-> None]
  /\ note = [w \in Worker |-> None]
  /\ form = [o \in Operator |-> None]
  /\ edited = {}
  /\ crashes = 0

(* A client's call reaches an idle worker.                                 *)
Call(w) ==
  \E u \in User, d \in Device :
    \/ \E e \in Employee : AssignDevice(w, u, d, e)
    \/ ReturnDevice(w, u, d)
    \/ \E s \in NewStatus : UpdateDevice(w, u, d, s)
    \/ DeleteDevice(w, u, d)

(* The worker's next statement.                                            *)
Proceed(w) ==
  \/ CommitAssign(w) \/ CommitReturn(w) \/ CommitUpdate(w) \/ CommitDelete(w)
  \/ Notify(w)

Other ==
  \/ \E d \in Device : CreateDevice(d)
  \/ \E line \in ReportingLine : ChangeManager(line[1], line[2])
  \/ \E o \in Operator, d \in Device, s \in NewStatus : OperatorLoads(o, d, s)
  \/ \E o \in Operator : OperatorSaves(o)

Next ==
  \/ \E w \in Worker : Call(w) \/ LockDevice(w) \/ Proceed(w) \/ Crash(w)
  \/ Other

Spec == Init /\ [][Next]_vars

(* A worker keeps running its handler, and lock queues are first come,     *)
(* first served. Calls, operators and crashes are never owed.              *)
Fairness ==
  \A w \in Worker : SF_vars(LockDevice(w)) /\ WF_vars(Proceed(w))

FairSpec == Spec /\ Fairness

-----------------------------------------------------------------------------
(* Properties.                                                             *)

(* A device that the admin site has not saved is ASSIGNED exactly while one *)
(* of its assignments is open: no path leaves the two tables disagreeing.   *)
StatusMatchesAssignments ==
  \A d \in Device \ edited : device[d] = "ASSIGNED" <=> Open(d) # {}

(* A device never has two open assignments, whatever interleaves and even   *)
(* after an operator wrote AVAILABLE over an assigned device.               *)
OneOpenAssignment == \A d \in Device : \A i, j \in Open(d) : i = j

Logged(d, action, n) ==
  {i \in DOMAIN audit[d] : audit[d][i] = [action |-> action, nth |-> n]}

(* The audit log accounts for custody: every assignment is logged once when *)
(* made and once when returned; an assignment closed by loss has no return. *)
CustodyAudited ==
  \A d \in Device : \A n \in DOMAIN history[d] :
    /\ Cardinality(Logged(d, "DEVICE_ASSIGNED", n)) = 1
    /\ Cardinality(Logged(d, "DEVICE_RETURNED", n)) =
         IF history[d][n].end = "returned" THEN 1 ELSE 0

Extends(d) ==
  /\ Len(history'[d]) >= Len(history[d])
  /\ \A i \in DOMAIN history[d] :
       /\ history'[d][i].employee = history[d][i].employee
       /\ history[d][i].end # "open" => history'[d][i] = history[d][i]
  /\ history[d] # <<>> => device'[d] # None

(* Assignment history is never rewritten, a closed assignment is never      *)
(* reopened, and a device with a history is never deleted.                  *)
HistoryKept == [][\A d \in Device : Extends(d)]_vars

Implements == INSTANCE Custody WITH holders <- [d \in Device |-> Holders(d)]

(* A device passes from one employee to the next only after it came back.   *)
HandedOverOnce == Implements!Spec

(* Unless a worker is killed, an employee who is given a device by someone  *)
(* else has an assignment notification for that device.                     *)
AssigneeInformed ==
  \A d \in Device, e \in Employee :
    (\E i \in DOMAIN history[d] : history[d][i].employee = e) ~>
      \/ \E n \in inbox : n.event = "DEVICE_ASSIGNED" /\ n.device = d /\ n.employee = e
      \/ crashes > 0
=============================================================================
