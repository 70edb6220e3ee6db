------------------------------- MODULE Access -------------------------------
(***************************************************************************)
(* Who may see and change what: the tenant of a user                       *)
(* (backend/apps/common/tenancy.py), the role's permissions                *)
(* (accounts/rbac_catalog.py) and ObjectAuthorization                      *)
(* (common/authorization.py), over the memberships and the employee rows.  *)
(*                                                                         *)
(* Every access rule exists twice in the code: as a check of one object    *)
(* (CanView) and as a filter of a queryset (Listed). Both are translated.  *)
(***************************************************************************)
EXTENDS Integers, FiniteSets

CONSTANTS
  Company,
  User,
  PlatformAdmin, \* User.is_platform_admin
  Employee, Department, Position,  \* identifiers of rows
  None           \* no row, no reference, no value

VARIABLES
  member,        \* CompanyMembership by user and company, or None
  row            \* the row of each identifier, or None

Role == {"COMPANY_ADMIN", "MANAGER", "EMPLOYEE"}
Membership == [role : Role, active : BOOLEAN]

ASSUME AccessAssumption == PlatformAdmin \subseteq User /\ None # "AVAILABLE"

-----------------------------------------------------------------------------
(* Companies where u has an active membership                              *)
ActiveAt(u) == {c \in Company : member[u][c] # None /\ member[u][c].active}

(* The permission codes, and the default bindings of codes to roles          *)
PermissionCodes ==
  {"employees.view", "employees.create", "employees.update", "employees.delete",
   "attendance.view", "attendance.manage", "attendance.check_in", "attendance.check_out",
   "leave.view", "leave.create", "leave.approve", "leave.reject", "leave.manage",
   "devices.view", "devices.create", "devices.update", "devices.assign",
   "devices.return", "devices.delete",
   "documents.view", "documents.create", "documents.update", "documents.delete",
   "documents.download", "notifications.view", "notifications.mark_read",
   "notifications.manage", "dashboard.admin.view", "dashboard.manager.view",
   "dashboard.employee.view", "reports.view", "reports.export", "settings.manage",
   "audit_logs.view"}

ManagerPermissions ==
  {"employees.view", "employees.update", "attendance.view", "attendance.manage",
   "leave.view", "leave.approve", "leave.reject", "leave.manage",
   "devices.view", "devices.assign", "devices.return",
   "documents.view", "documents.create", "documents.update", "documents.download",
   "notifications.view", "notifications.mark_read",
   "dashboard.manager.view", "dashboard.employee.view", "reports.view"}

EmployeePermissions ==
  {"employees.view", "attendance.view", "attendance.check_in", "attendance.check_out",
   "leave.view", "leave.create", "devices.view",
   "documents.view", "documents.create", "documents.download",
   "notifications.view", "notifications.mark_read", "dashboard.employee.view"}

Permissions(role) ==
  CASE role = "COMPANY_ADMIN" -> PermissionCodes
    [] role = "MANAGER"       -> ManagerPermissions
    [] role = "EMPLOYEE"      -> EmployeePermissions

(* TenantContext.resolve                                                   *)
Context(u) ==
  IF u \in PlatformAdmin \/ ActiveAt(u) = {}
  THEN [user |-> u, company |-> None, role |-> None, super |-> u \in PlatformAdmin]
  ELSE LET c == CHOOSE d \in ActiveAt(u) : TRUE
       IN  [user |-> u, company |-> c, role |-> member[u][c].role, super |-> FALSE]

HasPermission(ctx, code) ==
  ctx.super \/ (ctx.company # None /\ code \in Permissions(ctx.role))

HasAnyPermission(ctx, codes) == \E code \in codes : HasPermission(ctx, code)

(* assert_same_tenant, assert_company_owned: whom and what a request names  *)
SameTenant(ctx, u) ==
  u # None /\ ~ctx.super => ctx.company # None /\ ctx.company \in ActiveAt(u)
CompanyOwned(ctx, company) ==
  ctx.super \/ (ctx.company # None /\ company = ctx.company)

-----------------------------------------------------------------------------
(* Objects: a kind, the company, the employee the object is or belongs to  *)
(* (for a device and an assignment the holder now), the employee named by  *)
(* an assignment, a user (owner, recipient) and what the rules ask of it.  *)

Inbox     == {"notification", "deviceToken"}
OfPerson  == {"attendance", "leaveBalance", "leaveRequest", "document"}

Object(kind, company, employee, owner, flag) ==
  [kind |-> kind, company |-> company, employee |-> employee,
   named |-> employee, owner |-> owner, flag |-> flag]

UserOf(e) == IF e = None THEN None ELSE row[e].user

(* _actor_employee_id                                                      *)
ActorEmployee(ctx) ==
  {e \in Employee : row[e] # None /\ row[e].company = ctx.company /\ row[e].user = ctx.user}

DirectReport(ctx, e) == e # None /\ row[e].manager \in ActorEmployee(ctx)

(* TeamScope.is_in_team                                                    *)
InTeam(ctx, owner) ==
  \E e \in Employee : /\ row[e] # None /\ row[e].company = ctx.company
                      /\ row[e].user = owner
                      /\ DirectReport(ctx, e)

(* Variant with a bug: managers do not see their own row.                  *)
CanViewEmployeeNotSelf(ctx, e) ==
  \/ ctx.role = "COMPANY_ADMIN"
  \/ ctx.role = "EMPLOYEE" /\ UserOf(e) = ctx.user
  \/ ctx.role = "MANAGER" /\ DirectReport(ctx, e)

CanViewEmployee(ctx, e) ==
  \/ ctx.role = "COMPANY_ADMIN"
  \/ UserOf(e) = ctx.user
  \/ ctx.role = "MANAGER" /\ DirectReport(ctx, e)

(* The holder of an assigned device; a manager also sees available ones.   *)
CanViewDevice(ctx, o) ==
  \/ ctx.role = "COMPANY_ADMIN"
  \/ ctx.role = "MANAGER" /\ (o.flag = "AVAILABLE" \/ (o.employee # None /\ CanViewEmployee(ctx, o.employee)))
  \/ ctx.role = "EMPLOYEE" /\ o.employee # None /\ UserOf(o.employee) = ctx.user

CanViewPrivate(ctx, owner) ==
  \/ ctx.role = "COMPANY_ADMIN"
  \/ owner = ctx.user
  \/ ctx.role = "MANAGER" /\ InTeam(ctx, owner)

OwnInbox(ctx, o) ==
  ctx.company # None /\ o.company = ctx.company /\ o.owner = ctx.user

CanView(ctx, o) ==
  IF o.kind \in Inbox THEN OwnInbox(ctx, o)
  ELSE ctx.super \/
    /\ ctx.company # None /\ o.company = ctx.company
    /\ o.kind \in {"employee"} \cup OfPerson => CanViewEmployee(ctx, o.employee)
    /\ o.kind \in {"device", "assignment"} => CanViewDevice(ctx, o)
    /\ o.kind = "record" /\ o.flag = "PRIVATE" => CanViewPrivate(ctx, o.owner)

(* What a role other than a company's administrator may change             *)
CanChangeAs(ctx, o) ==
  LET manager == ctx.role = "MANAGER"
  IN  CASE o.kind = "employee" ->
             manager /\ (UserOf(o.employee) = ctx.user \/ DirectReport(ctx, o.employee))
        [] o.kind = "attendance" -> FALSE
        [] o.kind \in {"leaveType", "device", "assignment"} -> manager
        [] o.kind \in {"leaveBalance", "document"} -> manager /\ CanViewEmployee(ctx, o.employee)
        [] o.kind = "leaveRequest" ->
             \/ UserOf(o.employee) = ctx.user
             \/ manager /\ DirectReport(ctx, o.employee)
        [] OTHER ->
             o.owner = ctx.user \/ (manager /\ o.owner # None /\ InTeam(ctx, o.owner))

CanChange(ctx, o) ==
  /\ CanView(ctx, o)
  /\ \/ o.kind \in Inbox \/ ctx.super \/ ctx.role = "COMPANY_ADMIN"
     \/ CanChangeAs(ctx, o)

-----------------------------------------------------------------------------
(* ObjectAuthorization.filter_queryset, per model                          *)

OwnOrReports(ctx, e) ==
  UserOf(e) = ctx.user \/ (ctx.role = "MANAGER" /\ DirectReport(ctx, e))

ListedAs(ctx, o) ==
  CASE o.kind \in {"employee"} \cup OfPerson -> OwnOrReports(ctx, o.employee)
    [] o.kind = "device" ->
         \/ ctx.role = "MANAGER" /\ o.flag = "AVAILABLE"
         \/ o.employee # None /\ OwnOrReports(ctx, o.employee)
    [] o.kind = "assignment" -> OwnOrReports(ctx, o.named)
    [] o.kind = "record" -> o.flag = "COMPANY" \/ o.owner = ctx.user
    [] OTHER -> TRUE

Listed(ctx, o) ==
  IF o.kind \in Inbox THEN OwnInbox(ctx, o)
  ELSE ctx.super \/
    /\ ctx.company # None /\ o.company = ctx.company
    /\ ctx.role = "COMPANY_ADMIN" \/ ListedAs(ctx, o)

(* scoped_report_queryset: reports exist for a company's own users only.    *)
ReportKinds == {"employee", "attendance", "leaveRequest", "device"}
Reported(ctx, o) ==
  o.kind \in ReportKinds /\ ctx.company # None /\ o.company = ctx.company /\ Listed(ctx, o)

(* get_object followed by check_object_permissions                         *)
Reached(ctx, o)  == Listed(ctx, o) /\ CanView(ctx, o)
Writable(ctx, o) == Reached(ctx, o) /\ CanChange(ctx, o)

-----------------------------------------------------------------------------
(* The codes that a view set asks for, by action; one of them is enough.   *)
(* "read" stands for every action its table does not name.                 *)

EmployeeCodes ==
  [read |-> {"employees.view"}, create |-> {"employees.create"},
   update |-> {"employees.update"}, delete |-> {"employees.delete"}]

OrganizationCodes ==
  [read |-> {"employees.view"}, create |-> {"settings.manage"},
   update |-> {"settings.manage"}, delete |-> {"settings.manage"}]

RecordCodes ==
  [read |-> {"employees.view"}, create |-> {"employees.create"},
   update |-> {"employees.update"}, delete |-> {"employees.delete"}]

(* check_in and check_out find the caller's own row, no request names one.  *)
AttendanceCodes ==
  [read |-> {"attendance.view"}, checkIn |-> {"attendance.check_in"},
   checkOut |-> {"attendance.check_out"}]

HolidayCodes ==
  [read |-> {"attendance.view"}, create |-> {"settings.manage"},
   update |-> {"settings.manage"}, delete |-> {"settings.manage"}]

LeaveTypeCodes ==
  [read |-> {"leave.view"}, create |-> {"leave.manage"}, update |-> {"leave.manage"}]

LeaveBalanceCodes == [read |-> {"leave.view"}, update |-> {"leave.manage"}]

LeaveRequestCodes ==
  [read |-> {"leave.view"}, create |-> {"leave.create"},
   approve |-> {"leave.approve"}, reject |-> {"leave.reject"},
   cancel |-> {"leave.create", "leave.manage", "leave.approve"},
   detach |-> {"leave.view"}]

DeviceCodes ==
  [read |-> {"devices.view"}, create |-> {"devices.create"},
   update |-> {"devices.update"}, delete |-> {"devices.delete"},
   assign |-> {"devices.assign"}, return |-> {"devices.return"}]

DocumentCodes ==
  [read |-> {"documents.view"}, create |-> {"documents.create"},
   update |-> {"documents.update"}, delete |-> {"documents.delete"},
   download |-> {"documents.download"}]

NotificationCodes ==
  [read |-> {"notifications.view"}, update |-> {"notifications.mark_read"}]

DeviceTokenCodes ==
  [read |-> {"notifications.view"}, create |-> {"notifications.view"},
   update |-> {"notifications.view"}, delete |-> {"notifications.view"}]

(* get_permissions of the view set of a kind; an assignment is read with    *)
(* its device.                                                             *)
Codes(kind) ==
  CASE kind = "employee" -> EmployeeCodes
    [] kind \in {"department", "position"} -> OrganizationCodes
    [] kind = "record" -> RecordCodes
    [] kind = "attendance" -> AttendanceCodes
    [] kind = "holiday" -> HolidayCodes
    [] kind = "leaveType" -> LeaveTypeCodes
    [] kind = "leaveBalance" -> LeaveBalanceCodes
    [] kind = "leaveRequest" -> LeaveRequestCodes
    [] kind \in {"device", "assignment"} -> DeviceCodes
    [] kind = "document" -> DocumentCodes
    [] kind = "notification" -> NotificationCodes
    [] kind = "deviceToken" -> DeviceTokenCodes

Allowed(ctx, kind, action) == HasAnyPermission(ctx, Codes(kind)[action])

(* What a request that names an object needs                               *)
MayWrite(ctx, action, o) == Allowed(ctx, o.kind, action) /\ Writable(ctx, o)
=============================================================================
