-------------------------------- MODULE Leave --------------------------------
(***************************************************************************)
(* Leave requests and balances of one company (backend/apps/leave).        *)
(*                                                                         *)
(* A Worker is a server process that runs one HTTP handler at a time. A    *)
(* handler reads and authorises outside any transaction, then opens one    *)
(* transaction: row locks are taken one by one (want, held), rows are read *)
(* under their locks (row, bal), and all writes appear at the commit. The  *)
(* in-app notifications are written after the commit, so a worker killed   *)
(* in between has committed without notifying.                             *)
(***************************************************************************)
EXTENDS Integers, Sequences, FiniteSets, FiniteSetsExt

CONSTANTS
  Employee,       \* employees of the company, each linked to a user account
  Manager,        \* the employees whose user has the MANAGER role
  Admin,          \* users with the COMPANY_ADMIN role and no employee profile
  LeaveType,      \* leave types
  Request,        \* bound: ids available for leave requests
  Worker,         \* server processes
  Day,            \* company-local calendar dates, as integers
  YearOf,         \* calendar year of a date
  WorkingDay,     \* dates that count: a working weekday and no active holiday
  Submitter,      \* bound: the employees who ask for leave
  Span,           \* bound: the <<start_date, end_date>> pairs they submit
  Allocation,     \* bound: the allocated_days administrators enter
  OpenedBalance,  \* the <<employee, type, year>> that have a balance at the start
  BatchYear,      \* bound: the years initialize_leave_balances is run for
  TypeEdit,       \* bound: the LeaveType rows administrators save
  FirstManager,   \* Employee.manager at the start
  ReportingLine,  \* bound: the <<employee, manager>> pairs HR saves
  Leaver,         \* bound: the employees HR deletes
  MaxCrashes,     \* bound: how many times a worker is killed
  None            \* absent row, empty local variable

ASSUME LeaveAssumption ==
  /\ Manager \subseteq Employee
  /\ Admin \cap Employee = {}
  /\ Day \subseteq Int /\ WorkingDay \subseteq Day /\ IsFiniteSet(Day)
  /\ Span \subseteq Day \X Day
  /\ DOMAIN YearOf = Day
  /\ Submitter \subseteq Employee /\ Allocation \subseteq Nat
  /\ OpenedBalance \subseteq Employee \X LeaveType \X {YearOf[d] : d \in Day}
  /\ BatchYear \subseteq {YearOf[d] : d \in Day}
  /\ TypeEdit \subseteq [status : {"ACTIVE", "INACTIVE"}, allowed : Nat]
  /\ FirstManager \in [Employee -> Employee \cup {None}]
  /\ ReportingLine \subseteq Employee \X (Employee \cup {None})
  /\ Leaver \subseteq Employee
  /\ MaxCrashes \in Nat

VARIABLES
  request,    \* LeaveRequest rows
  balance,    \* LeaveBalance rows, unique per (employee, leave_type, year)
  audit,      \* AuditLog rows of each request, in order; nothing removes them
  inbox,      \* Notification rows, unique per (recipient, event_key)
  leaveType,  \* LeaveType rows
  staff,      \* the Employee rows that exist
  manager,    \* Employee.manager
  today,      \* company-local date
  batch,      \* balances an initialize_leave_balances run still has to visit
  pc, job,    \* per worker: next statement; the request being served
  row, bal,   \* per worker: the LeaveRequest and LeaveBalance objects in memory
  want, held, \* per worker: row locks the current statement waits for, and has
  crashes     \* how many workers were killed

dbVars      == <<request, balance, audit>>
orgVars     == <<leaveType, staff, manager, today, batch>>
handlerVars == <<pc, job, row, bal, want, held>>
vars == <<dbVars, inbox, orgVars, handlerVars, crashes>>

-----------------------------------------------------------------------------
(* Rows and their types.                                                   *)

User   == Employee \cup Admin
Years  == {YearOf[d] : d \in Day}
Status == {"PENDING", "APPROVED", "REJECTED", "CANCELLED"}
ActiveStatus == {"PENDING", "APPROVED"}

RequestRow ==
  [status : Status, employee : Employee, type : LeaveType,
   start : Day, end : Day, days : Nat, approvedBy : User \cup {None}]
BalanceKey == Employee \X LeaveType \X Years
BalanceRow == [allocated : Nat, used : Nat, remaining : Int]
TypeRow    == [status : {"ACTIVE", "INACTIVE"}, allowed : Nat]

AuditAction == {"SUBMITTED", "APPROVED", "REJECTED", "CANCELLED"}
Notification ==
  [event : AuditAction, request : Request, to : User]

Table == {"request", "balance", "company", "employee", "type"}
RowId == ({"request"} \X Request) \cup ({"balance"} \X BalanceKey)
           \cup ({"company"} \X {None}) \cup ({"employee"} \X Employee)
           \cup ({"type"} \X LeaveType)
Lock  == [row : RowId, mode : {"update", "share"}]

Operation == {"create", "approve", "reject", "cancel", "allocate"}
Job == [op : Operation, actor : User, request : Request \cup {None},
        key : BalanceKey \cup {None}, allocated : Nat,
        manager : Employee \cup {None}]
Step == {"idle", "overlap", "insert", "request", "balance", "commit", "notify"}

ASSUME NoneAssumption ==
  /\ None \notin Request \cup Employee \cup Admin
  /\ None \notin RequestRow \cup BalanceRow \cup Job

TypeOK ==
  /\ request \in [Request -> RequestRow \cup {None}]
  /\ balance \in [BalanceKey -> BalanceRow \cup {None}]
  /\ audit \in [Request -> Seq(AuditAction)]
  /\ inbox \subseteq Notification
  /\ leaveType \in [LeaveType -> TypeRow]
  /\ staff \subseteq Employee
  /\ manager \in [Employee -> Employee \cup {None}]
  /\ today \in Day
  /\ batch \subseteq BalanceKey \X Nat
  /\ pc \in [Worker -> Step]
  /\ job \in [Worker -> Job \cup {None}]
  /\ row \in [Worker -> RequestRow \cup {None}]
  /\ bal \in [Worker -> BalanceRow \cup {None}]
  /\ want \in [Worker -> SUBSET Lock]
  /\ held \in [Worker -> SUBSET Lock]
  /\ crashes \in 0..MaxCrashes

-----------------------------------------------------------------------------
(* Row locks: SELECT ... FOR UPDATE and the FOR KEY SHARE that a foreign   *)
(* key check takes. A statement locks its joined rows in table order.      *)

Update(table, id) == [row |-> <<table, id>>, mode |-> "update"]
Share(table, id)  == [row |-> <<table, id>>, mode |-> "share"]

Rank == [request |-> 1, balance |-> 1, company |-> 2, employee |-> 3, type |-> 4]

Conflict(l, m) == l.row = m.row /\ (l.mode = "update" \/ m.mode = "update")

(* select_for_update().select_related("company", "employee", "leave_type") *)
JoinedLocks(e, t) ==
  {Update("company", None), Update("employee", e), Update("type", t)}

(* Variant with a bug: the request is read without select_for_update.      *)
RequestLocksDropped(r) == {}

RequestLocks(r) ==
  {Update("request", r)} \cup JoinedLocks(request[r].employee, request[r].type)

BalanceLocks(k) == {Update("balance", k)} \cup JoinedLocks(k[1], k[2])
ForeignKeyLocks(e, t) ==
  {Share("company", None), Share("employee", e), Share("type", t)}

(* No transaction holds the row for update, so another may write it.       *)
Writable(table, id) ==
  \A w \in Worker : Update(table, id) \notin held[w]

(* No other transaction holds the row at all, so it may be deleted.        *)
Removable(table, id) ==
  \A w \in Worker : {Update(table, id), Share(table, id)} \cap held[w] = {}

(* The lock the statement of w asks for next.                              *)
NextLock(w, l) ==
  l \in want[w] /\ \A m \in want[w] : Rank[l.row[1]] <= Rank[m.row[1]]

WaitsFor(w, v) ==
  /\ v # w
  /\ \E l \in want[w], m \in held[v] : NextLock(w, l) /\ Conflict(l, m)

Deadlocked(w) ==
  \E S \in SUBSET Worker :
    /\ w \in S
    /\ \A v \in S : /\ \E x \in S : WaitsFor(v, x)
                    /\ \E x \in S : WaitsFor(x, v)

-----------------------------------------------------------------------------
(* How a handler moves.                                                    *)

Begin(w, j, step, locks) ==
  /\ pc[w] = "idle"
  /\ pc'   = [pc EXCEPT ![w] = step]
  /\ job'  = [job EXCEPT ![w] = j]
  /\ want' = [want EXCEPT ![w] = locks]
  /\ UNCHANGED <<bal, held>>

Goto(w, step, locks) ==
  /\ pc'   = [pc EXCEPT ![w] = step]
  /\ want' = [want EXCEPT ![w] = locks]
  /\ UNCHANGED held

(* The statement of step has all its locks.                                *)
At(w, step) == pc[w] = step /\ want[w] = {}

(* Variant with a bug: the transaction stays open after the response.      *)
ReleaseLeftOpen(w) ==
  /\ want' = [want EXCEPT ![w] = {}]
  /\ UNCHANGED held

(* Leaving transaction.atomic() releases every lock.                       *)
Release(w) ==
  /\ want' = [want EXCEPT ![w] = {}]
  /\ held' = [held EXCEPT ![w] = {}]

(* The response is sent, or an exception rolled the transaction back.      *)
Finish(w) ==
  /\ pc'  = [pc EXCEPT ![w] = "idle"]
  /\ job' = [job EXCEPT ![w] = None]
  /\ row' = [row EXCEPT ![w] = None]
  /\ bal' = [bal EXCEPT ![w] = None]
  /\ Release(w)

Commit(w, r, action) ==
  /\ audit' = [audit EXCEPT ![r] = Append(@, action)]
  /\ pc' = [pc EXCEPT ![w] = "notify"]
  /\ Release(w)
  /\ UNCHANGED <<job, bal, inbox, orgVars, crashes>>

Acquire(w) ==
  \E l \in want[w] :
    /\ NextLock(w, l)
    /\ \A v \in Worker \ {w} : \A m \in held[v] : ~Conflict(l, m)
    /\ want' = [want EXCEPT ![w] = @ \ {l}]
    /\ held' = [held EXCEPT ![w] = @ \cup {l}]
    /\ UNCHANGED <<dbVars, inbox, orgVars, pc, job, row, bal, crashes>>

-----------------------------------------------------------------------------
(* Reading and authorising, before the transaction.                        *)

NewJob(op, u, r) ==
  [op |-> op, actor |-> u, request |-> r, key |-> None, allocated |-> 0,
   manager |-> None]

WorkingDaysBetween(s, d) == Cardinality({x \in WorkingDay : s <= x /\ x <= d})

ValidTypeAndDates(t, s, d) ==
  /\ leaveType[t].status = "ACTIVE"
  /\ s <= d
  /\ YearOf[s] = YearOf[d]
  /\ s >= today

IsDirectReport(u, e) == u \in Manager /\ manager[e] = u

CanDecide(u, e) == u = e \/ u \in Admin \/ IsDirectReport(u, e)

(* A new id has no row and no history.                                     *)
CreateRequest(w, e, t, s, d, r) ==
  /\ e \in staff
  /\ request[r] = None /\ audit[r] = <<>>
  /\ \A v \in Worker : pc[v] # "idle" => job[v].request # r
  /\ ValidTypeAndDates(t, s, d)
  /\ WorkingDaysBetween(s, d) > 0
  /\ Begin(w, [NewJob("create", e, r) EXCEPT !.manager = manager[e]],
           "overlap", {Update("employee", e)})
  /\ row' = [row EXCEPT ![w] =
               [status |-> "PENDING", employee |-> e, type |-> t,
                start |-> s, end |-> d, days |-> WorkingDaysBetween(s, d),
                approvedBy |-> None]]
  /\ UNCHANGED <<dbVars, inbox, orgVars, crashes>>

Approve(w, u, r) ==
  /\ request[r] # None
  /\ CanDecide(u, request[r].employee)
  /\ u # request[r].employee
  /\ Begin(w, NewJob("approve", u, r), "request", RequestLocks(r))
  /\ UNCHANGED <<dbVars, inbox, orgVars, row, crashes>>

Reject(w, u, r) ==
  /\ request[r] # None
  /\ CanDecide(u, request[r].employee)
  /\ u # request[r].employee
  /\ Begin(w, NewJob("reject", u, r), "request", RequestLocks(r))
  /\ UNCHANGED <<dbVars, inbox, orgVars, row, crashes>>

Cancel(w, u, r) ==
  /\ request[r] # None
  /\ CanDecide(u, request[r].employee)
  /\ Begin(w, NewJob("cancel", u, r), "request", RequestLocks(r))
  /\ UNCHANGED <<dbVars, inbox, orgVars, row, crashes>>

CanChangeBalance(u, e) ==
  u \in Admin \/ (u \in Manager /\ (u = e \/ IsDirectReport(u, e)))

AllocateBalance(w, u, k, n) ==
  /\ balance[k] # None
  /\ CanChangeBalance(u, k[1])
  /\ Begin(w, [NewJob("allocate", u, None) EXCEPT !.key = k, !.allocated = n],
           "balance", BalanceLocks(k))
  /\ UNCHANGED <<dbVars, inbox, orgVars, row, crashes>>

-----------------------------------------------------------------------------
(* Inside the transaction.                                                 *)

(* Variant with a bug: pending requests do not block.                      *)
OverlappingRequestsApprovedOnly(new) ==
  {r \in Request :
     /\ request[r] # None
     /\ request[r].employee = new.employee
     /\ request[r].status = "APPROVED"
     /\ request[r].start <= new.end
     /\ request[r].end >= new.start}

OverlappingRequests(new) ==
  {r \in Request :
     /\ request[r] # None
     /\ request[r].employee = new.employee
     /\ request[r].status \in ActiveStatus
     /\ request[r].start <= new.end
     /\ request[r].end >= new.start}

CheckOverlap(w) ==
  /\ At(w, "overlap")
  /\ IF row[w].employee \in staff /\ OverlappingRequests(row[w]) = {}
       THEN /\ Goto(w, "insert", ForeignKeyLocks(row[w].employee, row[w].type))
            /\ UNCHANGED <<job, row, bal>>
       ELSE Finish(w)
  /\ UNCHANGED <<dbVars, inbox, orgVars, crashes>>

InsertRequest(w) ==
  /\ At(w, "insert")
  /\ request' = [request EXCEPT ![job[w].request] = row[w]]
  /\ Commit(w, job[w].request, "SUBMITTED")
  /\ UNCHANGED <<balance, row>>

KeyOf(req) == <<req.employee, req.type, YearOf[req.start]>>

(* Variant with a bug: any active request can be decided again.            *)
StatusAllowsActive(op, status) == status \in ActiveStatus

(* The status check that follows the locked read of the request.           *)
StatusAllows(op, status) ==
  IF op = "cancel" THEN status \in ActiveStatus ELSE status = "PENDING"

(* Variant with a bug: cancelling never restores the balance.              *)
NeedsBalanceApproveOnly(op, req) == op = "approve"

NeedsBalance(op, req) ==
  op = "approve" \/ (op = "cancel" /\ req.status = "APPROVED")

ReadRequest(w) ==
  LET op  == job[w].op
      req == request[job[w].request]
      k   == KeyOf(req)
  IN
  /\ At(w, "request")
  /\ \/ /\ req # None /\ StatusAllows(op, req.status)
        /\ ~(op = "approve" /\ balance[k] = None)
        /\ row' = [row EXCEPT ![w] = req]
        /\ job' = [job EXCEPT ![w].manager = manager[req.employee]]
        /\ IF NeedsBalance(op, req) /\ balance[k] # None
             THEN Goto(w, "balance", BalanceLocks(k))
             ELSE Goto(w, "commit", {})
        /\ UNCHANGED bal
     \/ /\ \/ req = None
           \/ req # None /\ ~StatusAllows(op, req.status)
           \/ req # None /\ op = "approve" /\ balance[k] = None
        /\ Finish(w)
  /\ UNCHANGED <<dbVars, inbox, orgVars, crashes>>

(* Variant with a bug: the approval does not compare with remaining_days.  *)
BalanceAllowsOverdraft(j, req, b) == j.op = "allocate" => j.allocated >= b.used

BalanceAllows(j, req, b) ==
  CASE j.op = "approve"  -> b.remaining >= req.days
    [] j.op = "allocate" -> j.allocated >= b.used
    [] OTHER -> TRUE

JobKey(w) == IF job[w].op = "allocate" THEN job[w].key ELSE KeyOf(row[w])

ReadBalance(w) ==
  LET b == balance[JobKey(w)] IN
  /\ At(w, "balance")
  /\ IF b # None /\ BalanceAllows(job[w], row[w], b)
       THEN /\ bal' = [bal EXCEPT ![w] = b]
            /\ Goto(w, "commit", {})
            /\ UNCHANGED <<job, row>>
       ELSE Finish(w)
  /\ UNCHANGED <<dbVars, inbox, orgVars, crashes>>

(* LeaveBalance.save(): remaining is recast from the other two columns.    *)
SavedBalance(allocated, used) ==
  [allocated |-> allocated, used |-> used, remaining |-> allocated - used]

(* LeaveBalance.clean() and the CHECK constraints; otherwise save() raises. *)
ValidBalance(b) == b.used <= b.allocated

RaiseFromSave(w) == Finish(w) /\ UNCHANGED <<dbVars, inbox, orgVars, crashes>>

ApproveCommit(w) ==
  LET saved == SavedBalance(bal[w].allocated, bal[w].used + row[w].days) IN
  /\ At(w, "commit") /\ job[w].op = "approve"
  /\ IF ValidBalance(saved)
       THEN /\ balance' = [balance EXCEPT ![KeyOf(row[w])] = saved]
            /\ row' = [row EXCEPT ![w].status = "APPROVED",
                                  ![w].approvedBy = job[w].actor]
            /\ request' = [request EXCEPT ![job[w].request] = row'[w]]
            /\ Commit(w, job[w].request, "APPROVED")
       ELSE RaiseFromSave(w)

RejectCommit(w) ==
  /\ At(w, "commit") /\ job[w].op = "reject"
  /\ row' = [row EXCEPT ![w].status = "REJECTED", ![w].approvedBy = job[w].actor]
  /\ request' = [request EXCEPT ![job[w].request] = row'[w]]
  /\ Commit(w, job[w].request, "REJECTED")
  /\ UNCHANGED balance

RestoreBalance(w) ==
  LET restore == IF row[w].days <= bal[w].used THEN row[w].days ELSE bal[w].used
  IN [balance EXCEPT ![KeyOf(row[w])] =
        SavedBalance(bal[w].allocated, bal[w].used - restore)]

CancelCommit(w) ==
  /\ At(w, "commit") /\ job[w].op = "cancel"
  /\ balance' = IF bal[w] = None THEN balance ELSE RestoreBalance(w)
  /\ row' = [row EXCEPT ![w].status = "CANCELLED"]
  /\ request' = [request EXCEPT ![job[w].request] = row'[w]]
  /\ Commit(w, job[w].request, "CANCELLED")

AllocateCommit(w) ==
  LET saved == SavedBalance(job[w].allocated, bal[w].used) IN
  /\ At(w, "commit") /\ job[w].op = "allocate"
  /\ balance' = IF ValidBalance(saved)
                  THEN [balance EXCEPT ![job[w].key] = saved] ELSE balance
  /\ Finish(w)
  /\ UNCHANGED <<request, audit, inbox, orgVars, crashes>>

-----------------------------------------------------------------------------
(* After the commit: notifications/integration.py.                         *)

LeaveApprovers(w) ==
  LET m == job[w].manager IN
  IF m # None /\ m # job[w].actor THEN {m} ELSE Admin \ {job[w].actor}

(* Variant with a bug: a decision is sent to the approvers.                *)
RecipientsApprovers(w) == LeaveApprovers(w)

Recipients(w) ==
  LET e == row[w].employee
      u == job[w].actor
  IN CASE row[w].status = "PENDING" -> LeaveApprovers(w)
       [] row[w].status \in {"APPROVED", "REJECTED"} -> {e} \ {u}
       [] row[w].status = "CANCELLED" -> IF u # e THEN {e} ELSE LeaveApprovers(w)

(* Variant with a bug: the event is named after the status.                *)
EventOfStatus(status) == status

EventOf(status) == IF status = "PENDING" THEN "SUBMITTED" ELSE status

(* employee.manager is fetched now: if its row is gone, the lookup raises. *)
ManagerGone(w) ==
  /\ job[w].manager # None /\ job[w].manager \notin staff
  /\ \/ row[w].status = "PENDING"
     \/ row[w].status = "CANCELLED" /\ job[w].actor = row[w].employee

Notify(w) ==
  /\ At(w, "notify")
  /\ inbox' = IF ManagerGone(w) THEN inbox
              ELSE inbox \cup
                     {[event |-> EventOf(row[w].status), request |-> job[w].request,
                       to |-> u] : u \in Recipients(w)}
  /\ Finish(w)
  /\ UNCHANGED <<dbVars, orgVars, crashes>>

-----------------------------------------------------------------------------
(* PostgreSQL aborts a transaction of a deadlock; a process may be killed. *)

DeadlockAbort(w) ==
  /\ Deadlocked(w)
  /\ Finish(w)
  /\ UNCHANGED <<dbVars, inbox, orgVars, crashes>>

Crash(w) ==
  /\ pc[w] # "idle" /\ crashes < MaxCrashes
  /\ crashes' = crashes + 1
  /\ Finish(w)
  /\ UNCHANGED <<dbVars, inbox, orgVars>>

-----------------------------------------------------------------------------
(* The rest of the company: leave types, employees, the calendar and the   *)
(* management command that creates the year's balances.                    *)

UpdateLeaveType(t, edit) ==
  /\ Writable("type", t)
  /\ leaveType' = [leaveType EXCEPT ![t] = edit]
  /\ UNCHANGED <<dbVars, inbox, staff, manager, today, batch, handlerVars, crashes>>

ChangeManager(e, m) ==
  /\ Writable("employee", e)
  /\ e \in staff /\ m \in staff \cup {None}
  /\ m # e /\ (m # None => manager[m] # e)
  /\ manager' = [manager EXCEPT ![e] = m]
  /\ UNCHANGED <<dbVars, inbox, leaveType, staff, today, batch, handlerVars, crashes>>

(* DELETE /employees/{id}/: one transaction that empties the manager of    *)
(* others and cascades to requests and balances. It waits for the rows     *)
(* that a transaction holds.                                               *)
Of(e, r) == request[r] # None /\ request[r].employee = e

DeleteEmployee(e) ==
  /\ e \in staff
  /\ \A x \in Employee : x = e \/ manager[x] = e => Removable("employee", x)
  /\ \A r \in Request : Of(e, r) => Removable("request", r)
  /\ \A k \in BalanceKey : k[1] = e => Removable("balance", k)
  /\ staff' = staff \ {e}
  /\ manager' = [x \in Employee |-> IF e \in {x, manager[x]} THEN None ELSE manager[x]]
  /\ request' = [r \in Request |-> IF Of(e, r) THEN None ELSE request[r]]
  /\ balance' = [k \in BalanceKey |-> IF k[1] = e THEN None ELSE balance[k]]
  /\ UNCHANGED <<audit, inbox, leaveType, today, batch, handlerVars, crashes>>

NextDay ==
  /\ today + 1 \in Day
  /\ today' = today + 1
  /\ UNCHANGED <<dbVars, inbox, leaveType, staff, manager, batch, handlerVars, crashes>>

EnsureBalancesForYear(y) ==
  /\ batch = {}
  /\ batch' = {<<k, leaveType[k[2]].allowed>> :
                 k \in {b \in BalanceKey : /\ b[1] \in staff /\ b[3] = y
                                           /\ leaveType[b[2]].status = "ACTIVE"}}
  /\ UNCHANGED <<dbVars, inbox, leaveType, staff, manager, today, handlerVars, crashes>>

(* Variant with a bug: update_or_create instead of get_or_create.          *)
UpdateOrCreateBalance(k, allowed) ==
  /\ k[1] \in staff
  /\ Writable("company", None) /\ Writable("employee", k[1])
  /\ Writable("type", k[2])
  /\ balance' = [balance EXCEPT ![k] = SavedBalance(allowed, 0)]
  /\ batch' = batch \ {<<k, allowed>>}
  /\ UNCHANGED <<request, audit, inbox, leaveType, staff, manager, today,
                 handlerVars, crashes>>

(* full_clean() refuses an employee that is gone, and the command ends.    *)
GetOrCreateBalance(k, allowed) ==
  /\ \/ balance[k] # None /\ UNCHANGED balance
     \/ /\ balance[k] = None /\ k[1] \in staff
        /\ Writable("company", None) /\ Writable("employee", k[1])
        /\ Writable("type", k[2])
        /\ balance' = [balance EXCEPT ![k] = SavedBalance(allowed, 0)]
     \/ balance[k] = None /\ k[1] \notin staff /\ UNCHANGED balance
  /\ batch' = IF balance'[k] = None THEN {} ELSE batch \ {<<k, allowed>>}
  /\ UNCHANGED <<request, audit, inbox, leaveType, staff, manager, today,
                 handlerVars, crashes>>

-----------------------------------------------------------------------------
Init ==
  /\ leaveType \in [LeaveType -> TypeEdit]
  /\ request = [r \in Request |-> None]
  /\ balance = [k \in BalanceKey |->
                  IF k \in OpenedBalance
                    THEN SavedBalance(leaveType[k[2]].allowed, 0) ELSE None]
  /\ audit = [r \in Request |-> <<>>]
  /\ inbox = {}
  /\ staff = Employee /\ manager = FirstManager
  /\ today \in Day /\ \A d \in Day : today <= d
  /\ batch = {}
  /\ pc = [w \in Worker |-> "idle"]
  /\ job = [w \in Worker |-> None]
  /\ row = [w \in Worker |-> None]
  /\ bal = [w \in Worker |-> None]
  /\ want = [w \in Worker |-> {}]
  /\ held = [w \in Worker |-> {}]
  /\ crashes = 0

(* A client's call reaches an idle worker.                                 *)
Call(w) ==
  \/ \E e \in Submitter, t \in LeaveType, s \in Span, r \in Request :
       CreateRequest(w, e, t, s[1], s[2], r)
  \/ \E u \in User, r \in Request :
       Approve(w, u, r) \/ Reject(w, u, r) \/ Cancel(w, u, r)
  \/ \E u \in User, k \in BalanceKey, n \in Allocation :
       AllocateBalance(w, u, k, n)

(* The worker's next statement.                                            *)
Proceed(w) ==
  \/ CheckOverlap(w) \/ InsertRequest(w)
  \/ ReadRequest(w) \/ ReadBalance(w)
  \/ ApproveCommit(w) \/ RejectCommit(w) \/ CancelCommit(w)
  \/ AllocateCommit(w)
  \/ Notify(w)

Organisation ==
  \/ \E t \in LeaveType, edit \in TypeEdit : UpdateLeaveType(t, edit)
  \/ \E line \in ReportingLine : ChangeManager(line[1], line[2])
  \/ NextDay
  \/ \E y \in BatchYear : EnsureBalancesForYear(y)
  \/ \E entry \in batch : GetOrCreateBalance(entry[1], entry[2])

Next ==
  \/ \E w \in Worker :
       Call(w) \/ Acquire(w) \/ Proceed(w) \/ DeadlockAbort(w) \/ Crash(w)
  \/ Organisation
  \/ \E e \in Leaver : DeleteEmployee(e)

Spec == Init /\ [][Next]_vars

(* A worker keeps running its handler; lock queues are first come, first   *)
(* served; PostgreSQL resolves every deadlock. Calls are never owed.       *)
Fairness ==
  \A w \in Worker :
    WF_vars(Proceed(w)) /\ SF_vars(Acquire(w)) /\ WF_vars(DeadlockAbort(w))

FairSpec == Spec /\ Fairness

-----------------------------------------------------------------------------
(* Properties.                                                             *)

Exists(r) == request[r] # None
Active(r) == Exists(r) /\ request[r].status \in ActiveStatus

(* An employee never has two pending or approved requests on one date, even *)
(* when two submissions are processed at the same time.                     *)
NoOverlap ==
  \A r, q \in Request :
    (r # q /\ Active(r) /\ Active(q) /\ request[r].employee = request[q].employee)
      => request[r].end < request[q].start \/ request[q].end < request[r].start

Charged(k) ==
  {r \in Request : Exists(r) /\ request[r].status = "APPROVED"
                                /\ KeyOf(request[r]) = k}

(* used_days is exactly the days of the employee's approved requests of that *)
(* type and year: no approval is charged twice, no cancellation is restored  *)
(* twice or forgotten.                                                       *)
UsedMatchesApproved ==
  \A k \in BalanceKey : balance[k] # None =>
    balance[k].used = MapThenSumSet(LAMBDA r : request[r].days, Charged(k))

(* No approval and no allocation reaches LeaveBalance.save() with values that *)
(* its constraints refuse: a short balance is answered by the handler's own   *)
(* check, never by an IntegrityError.                                         *)
SavesAreAccepted ==
  \A w \in Worker : pc[w] = "commit" =>
    /\ job[w].op = "approve" => bal[w].used + row[w].days <= bal[w].allocated
    /\ job[w].op = "allocate" => bal[w].used <= job[w].allocated

(* A cancellation of approved leave finds the balance it was charged to and   *)
(* gives every day back: min(total_days, used_days) never truncates.          *)
RestoresInFull ==
  \A w \in Worker :
    (pc[w] = "commit" /\ job[w].op = "cancel" /\ row[w].status = "APPROVED")
      => bal[w] # None /\ row[w].days <= bal[w].used

(* When a handler writes, the rows it read under its locks are still what    *)
(* the tables hold: no decision and no deduction works from a stale row.     *)
LockedReadsStayCurrent ==
  \A w \in Worker : pc[w] = "commit" =>
    /\ job[w].op # "allocate" => row[w] = request[job[w].request]
    /\ bal[w] # None => bal[w] = balance[JobKey(w)]

Histories(status) ==
  CASE status = "PENDING"  -> {<<"SUBMITTED">>}
    [] status = "APPROVED" -> {<<"SUBMITTED", "APPROVED">>}
    [] status = "REJECTED" -> {<<"SUBMITTED", "REJECTED">>}
    [] status = "CANCELLED" ->
         {<<"SUBMITTED", "CANCELLED">>, <<"SUBMITTED", "APPROVED", "CANCELLED">>}

(* The audit log of a request is a legal history that ends in its status: a  *)
(* repeated or raced decision leaves no second entry. A history without a    *)
(* request is that of an employee who was deleted, and no id comes back.     *)
AuditTellsHistory ==
  \A r \in Request :
    IF Exists(r) THEN request[r].employee \in staff /\ audit[r] \in Histories(request[r].status)
    ELSE audit[r] # <<>> =>
           staff # Employee /\ \E status \in Status : audit[r] \in Histories(status)

DecidedOnce(r) ==
  \/ ~Exists(r)' /\ request[r].employee \notin staff'
  \/ /\ Exists(r)'
     /\ \/ request'[r].status = request[r].status
        \/ request[r].status = "PENDING"
        \/ request[r].status = "APPROVED" /\ request'[r].status = "CANCELLED"
     /\ [request'[r] EXCEPT !.status = "PENDING", !.approvedBy = None]
          = [request[r] EXCEPT !.status = "PENDING", !.approvedBy = None]

(* A decided request is never reopened: rejected and cancelled are final and *)
(* an approved request can only be cancelled; its dates and charge never     *)
(* change, and it goes only with its employee.                               *)
DecisionFinal == [][\A r \in Request : Exists(r) => DecidedOnce(r)]_vars

(* initialize_leave_balances creates what is missing and overwrites nothing, *)
(* whatever was allocated or charged since it listed the employees.          *)
CommandKeepsBalances ==
  [][batch' # batch =>
       \A k \in BalanceKey : balance[k] # None => balance'[k] = balance[k]]_vars

(* The ledger that the tables stand for.                                     *)
EntryOf(req) ==
  [employee |-> req.employee, account |-> KeyOf(req), start |-> req.start,
   end |-> req.end, days |-> req.days, status |-> req.status]
AccountOf(b) == [allocated |-> b.allocated, used |-> b.used]
Entries  == [r \in {q \in Request : Exists(q)} |-> EntryOf(request[r])]
Accounts == [k \in {l \in BalanceKey : balance[l] # None} |-> AccountOf(balance[k])]

Ledger ==
  INSTANCE LeaveLedger WITH
    Id <- Request, Date <- Day, Account <- BalanceKey,
    Owner <- [k \in BalanceKey |-> k[1]], entry <- Entries, account <- Accounts

(* However the handlers, with their locks, reads and commits, interleave and *)
(* fail, the tables change as if each operation were one step, decided on    *)
(* what the tables hold at that step.                                        *)
DecidedAtOnce == Ledger!Spec

(* Every handler returns: no lock order between create, approve, cancel and  *)
(* allocate leaves a request waiting for ever.                               *)
HandlersFinish == \A w \in Worker : pc[w] # "idle" ~> pc[w] = "idle"

(* The employee learns of an approval, unless a worker is killed.            *)
OutcomeNotified ==
  \A r \in Request, e \in Employee :
    (Exists(r) /\ request[r].status = "APPROVED" /\ request[r].employee = e) ~>
      \/ [event |-> "APPROVED", request |-> r, to |-> e] \in inbox
      \/ crashes > 0
=============================================================================
