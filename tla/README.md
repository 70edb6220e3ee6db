# Employee management: TLA+ models and proofs

This directory specifies the parts of the employee-management system where
concurrency, failure and the order of calls matter: TLA+ modules translated from
the source, TLC configurations that check them on small instances, and theorems
that TLAPS proves for every value of the constants. Paths below are relative to
`src/`; `apps/` stands for `backend/apps/`.

## 1. The system

A Django/DRF backend (`backend/`) on PostgreSQL serves a Flutter application
(`mobile/`). gunicorn runs several worker processes; each serves one HTTP call at a
time. `ATOMIC_REQUESTS` is off (`backend/config/settings/base.py:90`), so a handler
authorises and validates outside any transaction and opens `transaction.atomic()` for
its writes only. Celery is configured without any product task: notifications are
written by the handler itself, after its commit. PostgreSQL runs at READ COMMITTED.

| Component | State | Operations | Interacts with | Hard behaviour | What makes it correct |
| --- | --- | --- | --- | --- | --- |
| Leave (`apps/leave`) | requests, balances, types | create, approve, reject, cancel, allocate, yearly initialisation, attachments | employees (locks, reporting line), audit, notifications, object store | overlapping submissions, racing decisions, lock order, stale authority, crash after commit | no overlap, balance = approved days, decisions final and audited once, every handler returns |
| Devices (`apps/devices`) | devices, assignment history | create, update/status, delete, assign, return, admin site | employees, audit, notifications | racing assignments, two tables kept in step, unlocked admin saves | one holder at a time, status = open assignment, history kept |
| Documents and object store (`apps/documents`, `apps/common/storage.py`; also leave attachments and profile images) | rows, stored objects | create, replace, status, delete, download | object store, audit | no transaction spans both stores, three orders of writing, unlocked full-row saves | every row's file exists, no orphans without a cause |
| Attendance (`apps/attendance`) | one row per employee and date, holidays | check-in, check-out, holidays, summaries, admin site | leave, company settings, dashboard | uniqueness race, midnight, facts that change after a status was decided | one row per date, minutes and status tell the truth, three screens count alike for the employees they count |
| Notifications (`apps/notifications`) | inbox, device tokens | announce, mark read, register/update/deactivate token, push | every component above | deduplication by `event_key`, failure after commit, phones that change hands | each event reaches its recipient once |
| Audit (`apps/audit_logs`) | append-only log | log | written inside the business transactions | entries computed from unlocked reads | the log tells what the rows became |
| Accounts (`apps/accounts`) | users, tokens, blacklist | login, refresh with rotation, logout, reset | mobile session | lost answers, rotation in three statements | one usable pair per login, and one more per overlap of two refreshes |
| Company settings (`apps/companies`) | settings row, logo | PATCH, admin site | attendance, object store, audit | two writers of one row, one without a lock; a store outside the transaction, whose calls fail after their effect | the row stays saveable, the log true |
| Memberships (`apps/companies`) | memberships | assign, deactivate | tenancy of every request | concurrent assignment | one active membership per user |
| Employees (`apps/employees`) | employees, departments, positions, profile image | CRUD, set/clear image | authority of managers, object store | rows saved from old reads, references checked at different times | references exist and stay in the company, keys are unique |
| Authorization (`apps/common/authorization.py`, `permissions.py`, `tenancy.py`) | none | can_view, can_change, querysets, permission codes | every component | each rule is written twice | list and detail agree |
| Dashboard, reports | none | read-only queries | attendance, authorization | – | same counts, same scope |
| Mobile session (`mobile/lib/core`, `features/auth`) | secure storage, auth state, requests under way | login, restore, refresh, logout, invalidation | accounts | asynchronous callbacks in any order, restarts | storage and state agree, restore ends |
| Mobile screens | last answers | REST calls | backend | – | – |
| Deployment | – | – | – | – | – |

`PROJECT.json` lists every component with its status and every hazard with its line.

## 2. Modules

| Module | Content |
| --- | --- |
| `Leave` | leave requests and balances, handlers at the granularity of lock acquisitions and commits |
| `LeaveLedger` | abstract specification of leave: entries and accounts, each operation at one instant |
| `LeaveProofs` | type correctness of `Leave`, its inductive invariant, the safety theorems, the sums of charged days, and that it implements `LeaveLedger` |
| `Custody` | abstract specification of device assignment: one holder at a time |
| `Devices` | devices, assignments, the admin site, notifications |
| `DevicesProofs` | invariants of `Devices`, and that it implements `Custody` |
| `StoredFiles` | the rows of documents, leave requests and employees against the objects in the store |
| `StoredFilesProofs` | the inductive invariant of `StoredFiles` and its theorems |
| `Attendance` | check-in, check-out, holidays, settings and the counts of summary and dashboard |
| `AttendanceProofs` | the inductive invariant of `Attendance` and its theorems |
| `Notifications` | announcements statement by statement, the inbox, push tokens |
| `NotificationsProofs` | the inductive invariant of `Notifications` and its theorems |
| `Sessions` | one phone's tokens, session and asynchronous flows against the server's refresh tokens |
| `SessionsProofs` | the inductive invariant of `Sessions` and its theorems |
| `Access` | tenancy, permission codes and both translations of every object rule |
| `Directory` | employees, departments, positions and memberships; extends `Access` |
| `DirectoryProofs` | the inductive invariant of `Directory` and its theorems, the agreement of the rules of `Access` |
| `Settings` | the settings row of a company, its logo, the PATCH and the admin site |
| `SettingsProofs` | the inductive invariant of `Settings` and its theorems |
| `MC...` | the instance of each module that TLC checks |

The models share no variables: where one needs what another component does, it has
a small action for it. `Attendance` has `LeaveDecided` for the approvals of `Leave`
and `SaveSettings` for `Settings`; `Notifications` has `MoveMember` for the
memberships of `Directory`; `Leave` and `Devices` have `ChangeManager` for its
updates, and write their own inbox rows. `Directory` and `Access` are one
specification in two modules.

### Leave

State: `request`, `balance`, `audit`, `inbox`, `leaveType`, `manager` are tables (a row
that does not exist is `None`), `staff` the employees that exist; `today` is the
company-local date; `batch` is what a running `initialize_leave_balances` still has to
visit. Per worker, `pc` is the next statement, `job` the call with its parameters, `row`
and `bal` the model instances in memory, `want` and `held` the row locks.

A call is a chain of actions. `Approve`, for example, authorises on the committed
state (`leave/services.py:125`), then waits for the locks of
`select_for_update().select_related("company", "employee", "leave_type")`:
without `of=`, PostgreSQL locks the row and the three joined rows, one by one
(`Acquire`). `ReadRequest` is the locked read and its status check, `ReadBalance`
the locked read of the balance and the comparison with `remaining_days`,
`ApproveCommit` the two saves, the audit row and the commit, `Notify` the inbox
rows after it. An insert takes `FOR KEY SHARE` on the rows its foreign keys name.
A failed check, a deadlock abort and a crash all roll back: `Finish` drops the
locks and local variables and no table has changed. All writes of a transaction
become visible at its commit, so they are one action.

`LeaveLedger` says what a caller may rely on without knowing of locks: `entry` are the
requests and `account` the days allocated and used; leave is asked for on free dates,
an approval charges an account that has the days, a cancellation gives back all of
them, and all of this is decided on the state in which it happens; when an employee
leaves, the employee's entries and accounts go together. `DecidedAtOnce` is
the claim that `Leave` implements it, with `Entries` and `Accounts` read off the two
tables (`remaining_days` follows from them, and who decided is not part of the ledger).

Abstractions: one company (the tenancy guards compare company ids that are equal
here); every employee has a linked active user; a super administrator acts like a
company administrator; `emit(...)` events, which only write a log, and request
texts are left out; attachments are in `StoredFiles`; the inserts of
`get_or_create` are single statements in autocommit and therefore one action each.
Employees are created before the start, and leave types, whose foreign keys are
PROTECT, are never deleted.

`DeleteEmployee` is `DELETE /employees/{id}/` (`apps/common/mixins.py:38`): Django
deletes the row, its requests and balances and empties `manager` in one transaction, so
it is one action, which waits for the locks of others on these rows. A row that is
inserted behind the collection of the cascade makes a foreign key fail at the commit and
the deletion does not happen. A deletion refused because of device assignments (PROTECT)
does not happen either. The user, the audit log and the notifications stay. A handler
that comes later finds no row and ends; if the deleted employee was the manager whom a
submission should tell, the lookup after the commit raises and nobody is told
(`ManagerGone`).

### Devices

State: `device` is the status column, `history` the assignment rows of a device in
order, `audit` and `inbox` the rows written by its handlers; per worker `pc`,
`job`, the locked `row` and the announcement `note`; per operator the `form` that
the Django admin has loaded and will write back; `edited` is a history variable,
the devices the admin site has saved.

Each handler authorises on an unlocked read (`AssignDevice`, `ReturnDevice`, ...),
waits for the device row (`LockDevice`), and works under the lock to its commit
(`CommitAssign`, ...). Every writer of assignment rows holds the device's lock, so
the statements between lock and commit are one action; the further locks on
company, assignment and employee rows only delay it and are left out.
`update_device` and `change_device_status` share `_change_status_locked`, which is
`CommitUpdate`. Of a device only the status is modelled. `nth` in an announcement
stands for the time the row was created. Edits of assignment rows in the admin
site are not modelled.

### Stored files

State: `file` is the object key in an owner's row (a document, a leave request or an
employee; `NoFile` for an empty column, `None` for no row), `store` the objects in
the store, `issued` the owner of every object ever written, in order. Keys are
numbered because `document_upload_path` and its siblings put a new uuid in each key:
no two uploads share one. Per worker `pc`, `job` (with the file of the row as it was
read without a lock) and `new`, the object this handler has written.

The three kinds of record change row and object in different orders:

- replacing a document: read the row, lock it, write the object, save the row and
  commit, delete the object that the first read named;
- deleting a document or an attachment: lock the row, delete the object, delete or
  clear the row, commit;
- setting or clearing a profile image: write the object, update the row with no lock,
  delete the object that was read at first.

`SaveRow` is any save of all columns of a row that was read without a lock: the
employee endpoint and the admin site. It writes the old file name back. `RemoveRow`
is the deletion of a row in the admin site or through the cascade of a deleted
employee, which leaves the object alone. A call of the store can fail (`StoreFails`)
and a process can die (`Crash`); both roll the transaction back but not the store. A
call can fail after its effect: `StorageService.delete` asks whether the object exists
once more after it has deleted it (`apps/common/storage.py:143`), and an error there
rolls the row back although the object is gone (`FailErase`); `save` may have written
the object (`FailUpload`). A failing deletion after the commit has no effect
(`FailInVain`) or that of `Sweep`.

`torn` and `leaked` are history variables: the owners for which something outside
the protocol has happened that may lose the file (a deletion that ends between the
object and the commit, by a crash or by a store call that fails after its effect; a save
of an old name) or leave an object behind (a crash, a failed upload or deletion, a
removed row, two overlapping replacements, a save of an old name). The
properties say that nothing else does. Document status, metadata, validation and
downloads are not modelled.

### Attendance

State: `clock` counts minutes of the server's clock; `settings`, `holiday` and `leave`
are the facts a status depends on; `workforce` are the employees the dashboard counts
(ACTIVE and ON_LEAVE); `row` are the Attendance rows; `job` is the call a
worker serves and `form` what the admin site has loaded. `steady`, `upToDate` and
`edited` are history variables: calls that have seen no fact change, rows written by
such calls, rows the admin site saved.

`Call` reads the settings and the clock (`attendance/services.py`, the context of a
call), `DecideStatus` computes the status of a check-in from them, `FindRow` looks the
row of the local date up under its lock and updates it, or goes on to `InsertRow`, which
the unique constraint may refuse; `CloseRow` is a check-out. `Calculate`,
`WorkingMinutes`, `OvertimeMinutes` and the counts are the pure functions of the
services, and `SummaryConsistent` compares three translations of one question: the
summary's counting from the calendar, the dashboard's fresh statuses and the stored
ones; the summary counts every employee, the dashboard the workforce. A zone is the
function `Offset[zone]` from instants to what its clocks are ahead by, any function at
all, so that a date can have 23 or 25 hours (`ZoneInfo`). Lateness, overtime and local
dates read the clock (`Wall`), as Python compares and subtracts two times of one zone;
minutes worked are elapsed time. Where the clocks change during a shift the two differ,
and the bounds of `WithinOneDay` and `SummaryConsistent` say by how much. An operator's
save is three actions because the form shows one reading of the row and the save writes
another one back.

Left out: locations, addresses, filters; the deletion of an employee, which takes rows
and leave away (`Leave`, `StoredFiles` and `Directory` have it), and in the admin site
the deletion of a row and the change of its employee or date.

### Notifications

State: `member`, `inbox` and `token` are tables, `job` the call a worker serves. An
announcement (`create_notifications_for_users`) is, for each recipient, `LookUp` (the
membership and the row of the event key), `Clean` (`full_clean`), `Save`, and after
the loop's row `ReadTokens`, `Push` and `DropToken`: every one is a statement in
autocommit. `Register` and its steps are `DeviceTokenService.register` with the lock
that finds nothing to lock; `ChangeToken` fetches the row, `UpdateToken` and
`Deactivate` check its owner again. `announced` makes a leave event happen once, as
`Leave` proves; device events may come again. A killed worker is not modelled here:
`Leave` and `Devices` have the crash between commit and notification.

### Sessions

State: the server's token pairs (`issued`, `recorded`, `blacklisted`, `expired`) and the
calls it is serving (`serving`), the phone's secure storage, `auth` and `epoch` of
`AuthController`, and what is under way: requests of the screens and of the flows
(`call`), the one refresh the coordinator shares (`refresh`), clears nobody awaits
(`clears`), and `restore`, `login`, `logout`. The phone has one thread; an action is what
runs between two awaits, so each write of one cell of the storage is an action of its
own. A 401 makes a request wait for the refresh, `SaveAccess` and `SaveRefresh` store its
answer, and the request is sent once more; a retry that fails invalidates the session.

On the server a refresh is three statements in autocommit
(`accounts/services/authentication.py:48`), and an action for each: `CheckRefresh` reads
the blacklist, `BlacklistRefresh` writes to it and accepts that the token is there
already, `IssueRefresh` hands out the pair. A call the phone gives up (`LoseRequest`,
`LoseRefresh`, `LoginLost`, `Restart`) was not seen by the server, died with its worker,
or goes on in a `Slot`, where a refresh continues with its next statement and a login or
logout is served later (`ServeLate`). So the refresh of a phone that was restarted can
meet the one it had sent before: if both pass the check, both issue a pair, which
`doubled` counts.

`used` and `overlap` are history variables. `used` are the tokens that a refresh or a
logout has used up. `overlap` records the overlaps in which the storage and the state are
known to part: a clear that begins during a refresh, a login while work of the session
before is left, a restart that cuts off a refresh, a login, a logout, or the clear that a
failed request asked for (the storage keeps the cells the clear had not come to, next to
an empty access token).

Left out: the identifier of the push registration, the side effects of a logout before
its call, passwords, mails, rate limits; `loadCurrentUser`, which nothing calls. A
password reset is one action; a refresh that has passed its check survives it, as in the
code.

### Access and Directory

`Access` has no actions. Over `member` and `row` it translates the tenant of a user
(`Context`), the codes of each role and view set (`Permissions`, `Codes`, `Allowed`),
the check of one object (`CanView`, `CanChange`) and the filter of a queryset
(`Listed`), and the scope of reports (`Reported`).

`Directory` adds the requests. A PATCH is `Load` (permission, `get_object`, validation;
the request now holds a whole row) and `Save` (every column is written, after the checks
of `Model.save`); a POST is `New` and `Save`; `Delete` cascades with SET_NULL and is
refused by PROTECT; an assignment of a membership, active or not, is `Assign` and
`SaveMembership`. `Clean` compares with related objects as they were loaded, `Unique`,
`Refers` and `LinkedMember` query afresh: this difference is what the properties are
about. `used` keeps a UUID from being given twice; `told` and `toldRole` replay the
audit entries; `stale` records the rows that were saved over a change not loaded.

Left out: personal data columns, `User.role`, inactive companies, the admin site. The
serializers' validation and the load are one action, since nothing in the validation is
used later; positions write no audit entry in the code either.

### Settings

State: the `row` (name of the company, hours, logo), the `store` with the logos, `told`
(what the audit log tells), per worker `pc`, the request, the row it changes and the row
as locked; the operator's `form`. A PATCH reads the company and validates the request,
waits for the row (`LockRow`), saves, which writes a new logo to the store (`SaveRow`),
deletes the previous logo with the transaction still open (`EraseLogo`), and commits
with its audit entry (`Commit`). A call of the store fails without or after its effect
(`StoreFails`). The admin site reads the row without a lock and writes a new logo to the
store (`SubmitForm`; an upload that fails there is a form that is not submitted); only
its UPDATE waits for the lock (`SaveForm`). `torn` is a history variable: the logo of
the row was deleted by a PATCH that was killed before its commit or rolled back. Columns
that are checked one by one (time zone, minutes, working days) are left out here;
`Attendance` gives them their meaning.

## 3. Runs

| Run | Question | Instance |
| --- | --- | --- |
| `leave_decisions` | do racing submissions and decisions keep rows, balance and audit consistent, and dates apart, as if each happened at once? | employee + manager, 2 requests, every range over 2 days, 2 workers, a balance of 2 days, HR takes the manager away or deletes the employee |
| `leave_command` | does the yearly command interfere with anything, does every handler return, is an approval heard of? | 1 employee, administrator, 1 request, reallocation, type edits, deletion of the employee, 2 workers, 1 crash, fair |
| `devices_custody` | do status, assignments and audit stay in step, is there one holder? | employee + manager + administrator, 1 device, 2 assignments, 3 statuses, 2 workers, 1 operator |
| `devices_informed` | is a new holder notified? | the same with a change of manager and a crash, no operator, fair |
| `files_store` | does every row's file exist, and has every orphaned object a known cause? | 1 document, 1 request, 1 employee, 3 objects, 2 workers, 1 fault |
| `attendance_days` | is there one row per date, do its minutes and status tell the truth, do three screens count alike? | 1 employee, 2 rows, days of 3 minutes with midnight in between, 3 settings, 2 workers, 1 operator, 1 change of a fact or of the workforce, 2 zones whose clocks go back and forward |
| `attendance_overtime` | (finding) is the overtime of a summary 0? | the same |
| `notifications` | does every recipient get one row, whatever fails or races? | 3 users, 2 companies, 2 requests, 1 device, 2 tokens, 2 workers, 3 calls, 1 change of a membership, a push backend that reports invalid tokens |
| `sessions` | do phone and server agree, does the restore end, how many pairs of a login are live? | 2 users, one without a company, 2 screens that send requests, 1 call that is served after the phone gave it up; 3 events, up to 2 each of requests, logins, faults, and expiries or resets; fair |
| `directory` | do references, keys, memberships, audit and access rules hold together? | 4 users, 2 companies, 3 employee, 3 department and 2 position ids, 2 requests, 3 writes |
| `directory_managers` | (finding) are one-level cycles of managers refused? | the same with 2 writes |
| `settings` | can the stored row be saved, is the audit log true? | 2 names, 3 hours, 2 logos, 2 workers, 1 form, 1 fault, with or without effect |

Why the bounds are enough to be interesting: two workers give every pairwise race, and a
third would only queue behind the same locks or repeat the second one's race. Two
requests over two days give equal, adjacent and nested ranges, and a balance of two days
is reached exactly and exceeded. Two assignments give a re-assignment after a return;
three objects let two replacements of one file overlap. Days of three minutes put an
instant before, at and after midnight within five minutes, one of which the clocks show
twice, and the three settings change the zone, the working days and the half-day limit.
Three calls let an announcement run against a registration and a second announcement; a
membership that moves once can end between two recipients. Three writes of two requests
give a save over a change that was not loaded, a row that comes back after its deletion,
and a role assigned twice. In `sessions` three events in any order give a fault after a
fault, a request or a login between an expiry and a fault, and two requests that wait
for one refresh; the six pairs are never used up. One fault and one call served late are
enough for two refreshes of one token that both pass the check. One crash placed
anywhere shows what a crash can leave behind.

Symmetry is used on workers, requests and ids which the specifications do not tell
apart, and only in runs without liveness. `CHECK_DEADLOCK FALSE` stands in every run
other than those of leave and devices: once the calls, keys or writes of the instance are
used up nothing is left to do, which is the end of the instance and not of the program.

Fairness, in three runs, which use no symmetry:

- `leave_command`, `devices_informed`: weak fairness on a worker's own next statement
  (the operating system schedules a process that can run), strong fairness on lock
  acquisition (PostgreSQL serves lock queues first come, first served, so a lock that is
  free again and again is obtained), and weak fairness on resolving a deadlock
  (`deadlock_timeout`);
- `sessions`: one weak fairness condition on the steps of the phone and the network
  together (the event loop resumes what can go on, and a call is answered or its time runs
  out; which of them goes first is open).

Calls, HR, operators, logins, faults and crashes are never fair. What a crash loses is
excluded in the property.

Two runs show a disagreement between the code and a sentence of `docs/`, quoted in
`PROJECT.json`:

- `attendance_overtime`: the summary adds overtime up, which the documentation says is
  always 0.
- `directory_managers`: two overlapping updates make two employees each other's managers,
  since each compares with the other's row as it was loaded.

Further behaviours of the models which no run asks about, so that a reader does not
mistake a property for more than it says:

- authority is checked before a row lock and not again, in leave decisions and in
  returns of a device;
- the second assignment of a device to the same employee has the `event_key` of the
  first and creates no notification;
- the admin form of a device writes back a status it read without a lock, ASSIGNED
  included;
- of two overlapping replacements of a document both delete the same object; the first
  one's own object stays in the store;
- a push backend's report about a token would switch off the row after it has taken
  another token (no backend that reports is wired anywhere in the repository: the default
  one sends nothing, and `Backend = "fcm"` stands for one that a deployment adds);
- two refreshes of one token that overlap both issue a pair, and both pairs are live; a
  password reset blacklists the tokens that are recorded as outstanding, those of logins,
  so a rotated one survives it (`docs/authentication.md:96` speaks of all outstanding
  tokens);
- a refresh in flight stores its tokens after the storage was cleared, if the clear began
  before they were written (`overlap`);
- the name of a company in a PATCH is compared with the one read before the lock
  (`companies/services.py:131`), so a rename that overlaps another one can be lost;
- a save of settings in the admin site can name a logo that a PATCH has deleted;
- unlinking a user is refused while another employee has no user
  (`employees/serializers.py`, the lookup does not leave the empty link out);
- of two overlapping assignments of a role one change can go untold;
- the manager's "team" of today's attendance includes the manager.

## 4. Proofs

TLAPS proves, for arbitrary sets of employees, requests, documents, dates, rows,
workers, devices, operators, users and companies, any settings, and from the named
assumptions on the constants alone. `LeaveAssumption`, `DevicesAssumption`,
`FilesAssumption`, `AttendanceAssumption`, `NotificationsAssumption`,
`SessionsAssumption`, `SettingsAssumption`, `AccessAssumption` and
`DirectoryAssumption` type the bounds and inputs. Two of them ask for finite sets where
the code adds over rows: the dates of `Leave` and the dates and employees of
`Attendance`. `NoneAssumption` and `NullAssumption` keep None apart from values;
`RequestAssumption` says that the serializers read columns with their types and that the
company is none of them; `StartAssumption` that the tables start as their constraints
allow. TLC evaluates each of them in every run of its module.

Every invariant and action property that a passing run checks is also a theorem. The
arguments:

- `LeaveProofs`. `TypeCorrect` needs `HandlerOK`: what a worker's local variables hold
  at each step (an approval at its commit has a balance in memory). `Safe` adds
  `Exclusion` (conflicting locks are never held together) and `WorkerInv` (which locks a
  worker holds at each step, and that what it read under them is what the tables still
  hold). Without the locks the statement about reads is not inductive: another worker's
  commit would break it. `OverlapsExcluded` uses that the employee's lock is held from
  the overlap query to the insert; `ReadsStayCurrent`, `SavesAccepted`, `DecisionsFinal`
  and `CommandHarmless` follow from the same invariant. `AuditTruthful` needs
  `EmployeesExist`: the employee whose row an insert has locked cannot be deleted, so no
  request outlives its employee; a log without a request is then that of an employee who
  was deleted (`Outlived`). `UsedIsCharged` needs one more, `ChargesInv`: the used days
  of a balance are the sum over the finite set of its approved requests, where there is
  no balance nothing is charged, and a cancellation holds a balance exactly when it
  found the leave approved. Each decision adds one request to the sum or takes one out
  (`ChargedAfter`, `DaysWithout`); `NothingTruncated` follows, since one summand is at
  most the sum. `ImplementsLedger` is the refinement of `LeaveLedger`, one lemma for
  each action that commits (`LedgerSubmits` to `LedgerAllocates`) and `LedgerLeaves` for
  a deletion. A commit works from rows in memory; it is a step of the ledger because
  these rows are still the rows of the tables, and it is in the ledger's guards because
  what was checked on them still holds. Every other step stutters. `ReadsStayCurrent`,
  `DecisionsFinal` and `NothingTruncated` state what no run checks by itself, since its
  effect on a commit is part of `DecidedAtOnce`.
- `DevicesProofs`. `DevicesInv` is the type invariant with `LockedOnce` (one
  transaction holds a device row), `RowsCurrent` (the row it read is still the row)
  and `CustodyInv`: `StatusMatchesAssignments`, `OneOpenAssignment` and that a device
  with assignments keeps its row. A commit decides on the row it read under the
  lock, so without the first two the third is not inductive. `CustodyStep` classifies
  every step for one device as kept, taken, freed or restated; from it follow
  `HistoryIsKept` and `ImplementsCustody`, the refinement of `Custody`. For
  `AuditCounts`, `AuditInv` replaces counting by three statements: every entry is about
  an assignment, every assignment and return has an entry, no two entries say the same.
- `StoredFilesProofs`. `FilesInv` adds to the two properties what each handler relies
  on between its statements: the object it has written is known to nobody else
  (`NewIsFresh`), the file it read belongs to its row (`KeysOwned`) and is still the
  row's unless an overlap was recorded (`ReadsCurrent`, `OverlapsMarked`), an object
  to be deleted after a commit is no longer named (`SweptUnnamed`), and a deletion
  has erased the object by its commit (`ErasedGone`). `CallBegins`, `LockRowSteps`,
  `WriteRowSteps` and `FaultEnds` reduce the actions to eight kinds of step, and one
  lemma for each kind (`BeginKeeps` to `RemoveKeeps`) shows that it keeps `FilesInv`;
  `FailUploadKeeps` and `FailEraseKeeps` are the calls that fail after their effect.
- `AttendanceProofs`. `AttendanceInv` is the type invariant with `OneRowPerDate`,
  `MinutesMatch`, `StatusFollowsFacts`, `RowsDated` and `JobsCurrent`: a call that is
  still steady knows the present settings, and the status it has decided is the one they
  give. `RowsDated` says that both instants of a row fall on its date in one zone of the
  company; `ShiftsTrue`, that a shift stays below a day and what the clocks went back,
  follows from it by the division of what the clocks show into days. One lemma,
  `Writes`, says what each step does to a row (left alone, inserted, updated by a call,
  saved by an operator), and each conjunct is shown from it once. `ScreensAgree` needs
  `RowsAttended` (a row that only calls wrote has a check-in and is not an absence); the
  three counts are then compared by maps between the sets they count: employees and
  dates without a row, rows, and statuses computed afresh, one each for the workforce
  and the rest, and the two totals of minutes entry by entry.
- `NotificationsProofs`. `NotificationsInv` adds to `RowsUnique` what an announcement has
  achieved: those it is done with have their row (`DoneWithRow`), and those it has not
  come to have none, because an announcement of a leave event is the only one of it while
  a device event concerns one employee (`OneAnnouncement`). So the announcement that
  loses a race, and stops there, has nobody left to tell (`EveryoneIsTold`).
  `ReadRowsStay` and `OwnersSwitchOff` follow from how single statements write.
- `SessionsProofs`. One lemma `...Effect` says field by field what each action does, so
  that no later step expands it. `TypeInv` adds to the types that tokens at hand were
  issued, that a clear begins with its first cell and that a refresh has somebody
  waiting for it; `ServingInv` does the same for the calls at the server.
  `PairsReplaced` follows from `PairInv`, which counts the accepted pairs together with
  the refreshes that will issue one: a refresh that has passed its check takes the place
  of its token, so each pair more than the logins recorded is one overlap in `doubled`.
  `Sound` is the part only a recorded overlap can break: which flows exclude one another
  (`FlowsInv`), what a restore, a login, a refresh and a clear have read and written
  cell by cell (`RestoreInv` to `RefreshInv`), and what the storage then holds
  (`SignedOutInv`, `StoreInv`, `SignedInInv`). There is a lemma `Sound...` for each
  action of the phone, `SoundServer` for the steps of the server and `SoundFailed` for
  the calls given up, and `SoundWhenQuiet` reads `SessionSound` off when nothing is
  under way. The attempt to prove it showed an exception that bounded runs had not
  reached: a restart in the middle of the clear that an invalidation asks for, which is
  now one of the overlaps.
- `DirectoryProofs`. `DirectoryInv` is the type invariant with `ReferencesHold`,
  `NoneTwice`, `AuditTellsRow` and `RequestsOK`: the row that a request is about to save
  has the types of its columns, and its company is that of the row, and of every other
  request that holds the same identifier. It is needed for a row that was deleted
  meanwhile and comes back: rows that refer to it must find it in their company.
  `SaveAccepted`, `DeleteKeeps` and `SaveMembershipKeeps` are the cases with work in
  them. `ListsMatchDetails` compares both translations of every access rule, one kind of
  object at a time; it needs of the state only that rows have their types.
- `SettingsProofs`. `SettingsInv` adds to `Saveable` and `SettingsAudited` that a worker
  between lock and commit has read the row as it still is (`ReadsCurrent`), that the row
  it or the operator is about to save has its hours in order (`HoursInOrder`), and that
  its logo is in the store or about to be written (`LogoReady`).

Sums over sets (the charged days, the minutes of a summary) need an induction, and the
library's induction theorems take an operator as a parameter, which the provers cannot
instantiate. `LeastNat` does instead: a set of counterexamples would have one of least
size. It is applied to the table of sums by which `MapThenSumSet` is defined
(`TableExists`), so the theorems are about the very operator that the runs evaluate.

Only model-checked: liveness, which is `HandlersFinish` and `OutcomeNotified` in
`leave_command`, `AssigneeInformed` in `devices_informed` and `RestoreEnds` in `sessions`
(TLAPS does not reason about ENABLED), and that is all. `OvertimeIsZero` and
`NoMutualManagers`, the properties of the two findings, are false.

## 5. Plan

Done: `Leave` with `LeaveLedger`, `Devices` with `Custody`, `StoredFiles`, `Attendance`,
`Notifications`, `Sessions`, `Access` with `Directory`, `Settings`, and proofs of all of
them.

Left, in this order:

1. document status and metadata;
2. the list controllers of the mobile screens.

## 6. Not modelled, and why

- The other queries of dashboard and reports, serializers' formats, filters,
  pagination and exports read without changing state.
- The commands that seed the RBAC catalogue, which write what `Access` has as constants,
  and demonstration data.
- The mobile screens present answers of the backend; the legacy template code is not
  part of the product.
- Deployment fixes assumptions (several workers, autocommit, READ COMMITTED) but has no
  behaviour of its own.
- Edits in the Django admin of tables other than devices, settings, attendance rows and
  the files of `StoredFiles`: they have no code of their own beyond the model's `save`.
- Cycles of managers longer than two: neither code nor documentation excludes them.
- Text, addresses and other columns that no property tells apart.
