----------------------------- MODULE Directory -----------------------------
(***************************************************************************)
(* Employees, departments, positions (backend/apps/employees) and company  *)
(* memberships (backend/apps/companies).                                   *)
(*                                                                         *)
(* An update loads the row and the rows it refers to, validates, and later *)
(* saves every column of what it loaded; requests and commands of several  *)
(* worker processes interleave between the two. What save checks with a    *)
(* query (uniqueness, existence, membership) is fresh, what it checks on   *)
(* the related objects it loaded is as old as the load.                    *)
(***************************************************************************)
EXTENDS Access

CONSTANTS
  Label,       \* employee codes, department names, position titles
  Request,     \* bound: requests under way at once
  MaxWrites,   \* bound: writes
  Patches,     \* bodies of PATCH, by kind: a column and its new value
  Drafts,      \* bodies of POST, by kind: a row without its company
  Joins,       \* memberships that MembershipService may be asked for:
               \* user, company, role, is_active
  Holding,     \* employees with device assignments
  FirstRow, FirstMember  \* the state at the start

VARIABLES
  req,         \* the requests under way
  used,        \* identifiers given so far: a UUID is not given twice
  told,        \* history: employees and departments as their audit entries
               \* tell them (positions have none)
  toldRole,    \* history: the role of each membership as the entries tell it
  stale,       \* history: rows saved over a change they had not loaded, and
               \* memberships assigned a role over one not looked up
  writes       \* how much of the bound is used

vars == <<member, row, req, used, told, toldRole, stale, writes>>

-----------------------------------------------------------------------------
Id == Employee \cup Department \cup Position
KindOf(i) == IF i \in Employee THEN "employee"
             ELSE IF i \in Department THEN "department" ELSE "position"
IdsOf(kind) == CASE kind = "employee" -> Employee
                 [] kind = "department" -> Department
                 [] kind = "position" -> Position

Optional(S) == S \cup {None}
EmployeeRow ==
  [company : Company, label : Label, user : Optional(User), department : Optional(Department),
   position : Optional(Position), manager : Optional(Employee), status : {"ACTIVE", "INACTIVE"}]
DepartmentRow == [company : Company, label : Label, manager : Optional(Employee)]
PositionRow   == [company : Company, label : Label, department : Department]

RowOf(kind) == CASE kind = "employee" -> EmployeeRow
                 [] kind = "department" -> DepartmentRow
                 [] kind = "position" -> PositionRow

(* Columns that refer to another row                                       *)
RefsOf(kind) == CASE kind = "employee" -> {"department", "position", "manager"}
                  [] kind = "department" -> {"manager"}
                  [] kind = "position" -> {"department"}

Rows == {i \in Id : row[i] # None}
NoRequest == [pc |-> "idle"]

(* The row with the column of a PATCH; a POST's row in a company           *)
Patched(old, patch) == [old EXCEPT ![patch[1]] = patch[2]]
Drafted(draft, company) ==
  [f \in DOMAIN draft \cup {"company"} |-> IF f = "company" THEN company ELSE draft[f]]

ASSUME DirectoryAssumption ==
  /\ MaxWrites \in Nat
  /\ Employee \cap Department = {}
  /\ (Employee \cup Department) \cap Position = {}
  /\ None \notin Id \cup User \cup Company \cup Label
  /\ None \notin EmployeeRow \cup DepartmentRow \cup PositionRow \cup Membership
  /\ Joins \subseteq User \X Company \X Role \X BOOLEAN
  /\ Holding \subseteq Employee

(* The serializers read a request's columns with their types; the company  *)
(* is not one of them.                                                     *)
ASSUME RequestAssumption ==
  /\ DOMAIN Drafts = {"employee", "department", "position"}
  /\ \A kind \in DOMAIN Drafts :
       /\ \A patch \in Patches[kind], old \in RowOf(kind) :
            patch[1] # "company" /\ Patched(old, patch) \in RowOf(kind)
       /\ \A draft \in Drafts[kind], company \in Company : Drafted(draft, company) \in RowOf(kind)

TypeOK ==
  /\ DOMAIN row = Id /\ \A i \in Rows : row[i] \in RowOf(KindOf(i))
  /\ member \in [User -> [Company -> Optional(Membership)]]
  /\ Rows \subseteq used /\ used \subseteq Id
  /\ stale \subseteq used \cup (User \X Company)
  /\ toldRole \in [User -> [Company -> Optional(Role)]]
  /\ \A r \in Request : req[r].pc \in {"idle", "save", "assign"}
  /\ \A r \in Request : req[r].pc = "save" => req[r].new \in RowOf(KindOf(req[r].id))
  /\ \A i \in Rows \ Position : told[i] \in RowOf(KindOf(i))
  /\ writes \in 0..MaxWrites

-----------------------------------------------------------------------------
(* The object of a row, for ObjectAuthorization                            *)
RowObject(i) ==
  Object(KindOf(i), row[i].company, IF i \in Employee THEN i ELSE None, None, None)

Writing == writes < MaxWrites /\ writes' = writes + 1

Get(i, column) == IF i = None \/ row[i] = None THEN None ELSE row[i][column]

(* What a row's checks look up in the related objects it has loaded        *)
Related(kind, new) ==
  IF kind # "employee" THEN [above |-> None, home |-> None]
  ELSE [above |-> Get(new.manager, "manager"), home |-> Get(new.position, "department")]

(* One-level cycle; a position outside the department                      *)
Clean(i, new, related) ==
  KindOf(i) = "employee" =>
    /\ new.manager # i
    /\ related.above # i
    /\ new.department # None /\ related.home # None => related.home = new.department

-----------------------------------------------------------------------------
(* Fresh checks.                                                           *)

Key(i, new) ==
  IF KindOf(i) = "position" THEN <<new.company, new.department, new.label>>
  ELSE <<new.company, new.label>>

(* Variant with a bug: two rows may have the same key.                     *)
UniqueUnchecked(i, new) == TRUE

(* The unique constraints                                                  *)
Unique(i, new) ==
  \A j \in (Rows \cap IdsOf(KindOf(i))) \ {i} :
    /\ Key(j, row[j]) # Key(i, new)
    /\ KindOf(i) = "employee" /\ new.user # None => row[j].user # new.user

(* Variant with a bug: a reference into any company will do.               *)
RefersAnywhere(i, new) ==
  \A f \in RefsOf(KindOf(i)) : new[f] \in Optional(Rows)

(* References exist and stay inside the company.                           *)
Refers(i, new) ==
  \A f \in RefsOf(KindOf(i)) : new[f] \in Optional({j \in Rows : row[j].company = new.company})

(* A linked user is an active member of the company.                       *)
LinkedMember(i, new) ==
  KindOf(i) = "employee" /\ new.user # None =>
    new.company \in ActiveAt(new.user)

Accepted(i, new, related) ==
  /\ Clean(i, new, related) /\ Unique(i, new) /\ Refers(i, new) /\ LinkedMember(i, new)

-----------------------------------------------------------------------------
(* The serializers' validation of a PATCH of one column. A platform        *)
(* administrator may name any row, and has no company to look a code, name *)
(* or title up in.                                                         *)
MayName(ctx, j) ==
  j \in Optional(Rows) /\ (j # None => CompanyOwned(ctx, row[j].company))

(* Unlinking a user is refused while another employee has none: the lookup *)
(* does not leave the empty link out.                                      *)
ValidEmployee(ctx, i, new, column) ==
  /\ Clean(i, new, Related("employee", new))
  /\ column = "label" => ctx.company # None /\ Unique(i, new)
  /\ column = "user" => /\ SameTenant(ctx, new.user)
                        /\ \A e \in (Rows \cap Employee) \ {i} : row[e].user # new.user
  /\ column \in RefsOf("employee") => MayName(ctx, new[column])

ValidDepartment(ctx, i, new, column) ==
  /\ column = "label" => ctx.company # None /\ Unique(i, new)
  /\ column = "manager" => MayName(ctx, new.manager)

ValidPosition(ctx, i, new, column) ==
  /\ column = "department" => MayName(ctx, new.department)
  /\ ctx.company # None => Unique(i, new)

Valid(ctx, i, new, column) ==
  CASE i \in Employee   -> ValidEmployee(ctx, i, new, column)
    [] i \in Department -> ValidDepartment(ctx, i, new, column)
    [] i \in Position   -> ValidPosition(ctx, i, new, column)

Begin(r, i, new, patch, old, create) ==
  req' = [req EXCEPT ![r] =
    [pc |-> "save", id |-> i, new |-> new, patch |-> patch, old |-> old,
     related |-> Related(KindOf(i), new), create |-> create]]

(* PATCH: permission, get_object, validation                               *)
Load(r, u, i, patch) ==
  LET ctx == Context(u)
      new == Patched(row[i], patch)
  IN  /\ req[r].pc = "idle" /\ row[i] # None
      /\ Writing
      /\ MayWrite(ctx, "update", RowObject(i))
      /\ Valid(ctx, i, new, patch[1])
      /\ Begin(r, i, new, {patch[1]}, row[i], FALSE)
      /\ UNCHANGED <<member, row, used, told, toldRole, stale>>

(* POST: perform_create takes the company from the tenant.                 *)
New(r, u, kind, draft) ==
  LET ctx == Context(u)
      i   == CHOOSE j \in IdsOf(kind) : j \notin used
      new == Drafted(draft, ctx.company)
  IN  /\ req[r].pc = "idle" /\ ~ IdsOf(kind) \subseteq used
      /\ Writing
      /\ ctx.company # None /\ Allowed(ctx, kind, "create")
      /\ Accepted(i, new, Related(kind, new))
      /\ used' = used \cup {i}
      /\ Begin(r, i, new, {}, new, TRUE)
      /\ UNCHANGED <<member, row, told, toldRole, stale>>

(* Variant with a bug: the snapshot leaves the manager out.                *)
AuditedWithoutManager(before, q) ==
  [before EXCEPT ![CHOOSE f \in q.patch : TRUE] =
     IF "manager" \in q.patch THEN @ ELSE q.new[CHOOSE f \in q.patch : TRUE]]

(* record_employee_updated, record_department_updated: the columns that    *)
(* differ between the row as it was loaded and as it was saved             *)
Audited(before, q) ==
  [f \in DOMAIN before |-> IF q.new[f] # q.old[f] THEN q.new[f] ELSE before[f]]

(* serializer.save: every column is written, also of a row that has been   *)
(* deleted meanwhile, which is inserted again.                             *)
Save(r) ==
  LET q == req[r]
  IN  /\ q.pc = "save"
      /\ IF Accepted(q.id, q.new, q.related)
         THEN /\ row' = [row EXCEPT ![q.id] = q.new]
              /\ told' = IF q.id \in Position THEN told
                         ELSE [told EXCEPT ![q.id] = IF q.create THEN q.new ELSE Audited(@, q)]
              /\ stale' = IF q.create \/ row[q.id] = q.old THEN stale ELSE stale \cup {q.id}
         ELSE UNCHANGED <<row, told, stale>>
      /\ req' = [req EXCEPT ![r] = NoRequest]
      /\ UNCHANGED <<member, used, toldRole, writes>>

(* Variant with a bug: nothing protects a department from deletion.        *)
ProtectedNot(i) == FALSE

(* PROTECT: positions of a department, device assignments of an employee   *)
Protected(i) ==
  \/ i \in Holding
  \/ i \in Department /\ \E p \in Position : row[p] # None /\ row[p].department = i

(* SET_NULL of a row's references to the deleted one                       *)
Cleared(j, i) ==
  [f \in DOMAIN row[j] |->
     IF f \in RefsOf(KindOf(j)) /\ row[j][f] = i THEN None ELSE row[j][f]]

Delete(u, i) ==
  /\ row[i] # None
  /\ MayWrite(Context(u), "delete", RowObject(i))
  /\ ~ Protected(i)
  /\ Writing
  /\ row' = [j \in Id |-> IF j = i \/ row[j] = None THEN None ELSE Cleared(j, i)]
  /\ UNCHANGED <<member, req, used, told, toldRole, stale>>

-----------------------------------------------------------------------------
RoleAt(u, c) == IF member[u][c] = None THEN None ELSE member[u][c].role

(* uniq_one_active_membership_per_user                                     *)
OnlyActive(u, c) == ActiveAt(u) \subseteq {c}

(* MembershipService.assign: the check locks the active memberships it     *)
(* finds elsewhere, and nothing when there are none or when the new one is *)
(* not active; the role so far is looked up without a lock.                *)
Assign(r, u, c, role, active) ==
  /\ req[r].pc = "idle" /\ u \notin PlatformAdmin
  /\ active => OnlyActive(u, c)
  /\ Writing
  /\ req' = [req EXCEPT ![r] = [pc |-> "assign", user |-> u, company |-> c, role |-> role,
                               active |-> active, old |-> RoleAt(u, c)]]
  /\ UNCHANGED <<member, row, used, told, toldRole, stale>>

(* ROLE_CHANGED is written when the role differs from the one looked up.   *)
ToldRole(q) ==
  IF q.old # q.role THEN [toldRole EXCEPT ![q.user][q.company] = q.role] ELSE toldRole

SaveMembership(r) ==
  LET q == req[r]
  IN  /\ q.pc = "assign"
      /\ IF q.active => OnlyActive(q.user, q.company)
         THEN /\ member' = [member EXCEPT ![q.user][q.company] =
                           [role |-> q.role, active |-> q.active]]
              /\ toldRole' = ToldRole(q)
              /\ stale' = IF q.old = RoleAt(q.user, q.company) THEN stale
                          ELSE stale \cup {<<q.user, q.company>>}
         ELSE UNCHANGED <<member, toldRole, stale>>
      /\ req' = [req EXCEPT ![r] = NoRequest]
      /\ UNCHANGED <<row, used, told, writes>>

Deactivate(u, c) ==
  /\ c \in ActiveAt(u)
  /\ Writing
  /\ member' = [member EXCEPT ![u][c].active = FALSE]
  /\ UNCHANGED <<row, req, used, told, toldRole, stale>>

-----------------------------------------------------------------------------
(* What the constraints of the tables keep: of rows t, of memberships m.   *)

(* A reference names another row that exists, in the same company.         *)
RefersWithin(t) ==
  \A i \in Id : t[i] # None => \A f \in RefsOf(KindOf(i)) :
    /\ t[i][f] # i
    /\ t[i][f] # None => t[t[i][f]] # None /\ t[t[i][f]].company = t[i].company

(* Keys differ, and a user is linked to one employee.                      *)
KeysDiffer(t) ==
  \A i, j \in Id : t[i] # None /\ t[j] # None /\ i # j /\ KindOf(i) = KindOf(j) =>
    /\ Key(i, t[i]) # Key(j, t[j])
    /\ i \in Employee /\ t[i].user # None => t[i].user # t[j].user

OneActive(m) ==
  \A u \in User : \A c, d \in Company :
    (m[u][c] # None /\ m[u][c].active) /\ (m[u][d] # None /\ m[u][d].active) => c = d

ASSUME StartAssumption ==
  /\ DOMAIN FirstRow = Id /\ \A i \in Id : FirstRow[i] \in Optional(RowOf(KindOf(i)))
  /\ FirstMember \in [User -> [Company -> Optional(Membership)]]
  /\ RefersWithin(FirstRow) /\ KeysDiffer(FirstRow) /\ OneActive(FirstMember)

Init ==
  /\ row = FirstRow /\ member = FirstMember
  /\ req = [r \in Request |-> NoRequest]
  /\ used = {i \in Id : FirstRow[i] # None}
  /\ told = FirstRow
  /\ toldRole = [u \in User |-> [c \in Company |-> RoleAt(u, c)]]
  /\ stale = {} /\ writes = 0

Next ==
  \/ \E r \in Request, u \in User :
       \/ \E i \in Id : \E patch \in Patches[KindOf(i)] : Load(r, u, i, patch)
       \/ \E kind \in DOMAIN Drafts : \E draft \in Drafts[kind] : New(r, u, kind, draft)
  \/ \E r \in Request : Save(r) \/ SaveMembership(r)
  \/ \E u \in User, i \in Id : Delete(u, i)
  \/ \E r \in Request, join \in Joins : Assign(r, join[1], join[2], join[3], join[4])
  \/ \E join \in Joins : Deactivate(join[1], join[2])

Spec == Init /\ [][Next]_vars

-----------------------------------------------------------------------------
(* Properties.                                                             *)

(* Whatever edits and deletions overlap, and whatever a platform           *)
(* administrator asks for: a reference names a row that exists, in the     *)
(* same company, and nobody is his own manager. The validation runs on     *)
(* what was loaded; save has to look again.                                *)
ReferencesHold == RefersWithin(row)

(* Codes, names and titles stay unique where they must be, and a user is   *)
(* linked to one employee, also when two requests have validated before    *)
(* either saves (uniq_employee_company_code, uniq_employee_user ...).      *)
LinksUnique == KeysDiffer(row)

(* Two assignments that both found no other active membership leave one:   *)
(* the tenant of a user is never ambiguous (MembershipService.assign).     *)
OneActiveMembership == OneActive(member)

(* What unique constraints and the checks before them keep.                *)
NoneTwice == LinksUnique /\ OneActiveMembership

(* The audit entries of an employee or a department add up to the row:     *)
(* each column has the value last told, or was cleared by the deletion of  *)
(* the row it referred to; and the last ROLE_CHANGED of a membership names *)
(* its role. Only a save over a change it had not loaded breaks this: it   *)
(* writes old values back without an entry (employees/serializers.py,      *)
(* update), and an assignment compares with the role it looked up before   *)
(* another one changed it (companies/services.py, assign).                 *)
AuditTellsRow ==
  /\ \A i \in Rows \ (stale \cup Position) : \A f \in DOMAIN row[i] :
       row[i][f] = told[i][f] \/ (f \in RefsOf(KindOf(i)) /\ row[i][f] = None)
  /\ \A u \in User, c \in Company : <<u, c>> \notin stale => toldRole[u][c] = RoleAt(u, c)

(* Objects of every kind that the rows can own                             *)
Objects ==
  LET live == {e \in Employee : row[e] # None}
      of(e, kind) == Object(kind, row[e].company, e, None, None)
  IN  {RowObject(i) : i \in Rows}
      \cup {of(e, kind) : e \in live, kind \in OfPerson \cup {"device", "assignment"}}
      \cup {Object(kind, c, None, None, "AVAILABLE") :
               kind \in {"device", "leaveType", "holiday"}, c \in Company}
      \cup {Object("record", c, None, u, "COMPANY") : c \in Company, u \in User}
      \cup {Object(kind, c, None, u, None) : kind \in Inbox, c \in Company, u \in User}

(* The rules that decide who reaches what agree. The two translations of   *)
(* an access rule: whoever finds an object in a list may open it, and an   *)
(* object that may be opened is in the list. A report and its export list  *)
(* no more and no less, within the reader's company. The codes of a role   *)
(* and those that the view sets ask for: nobody may create or change what  *)
(* he may not read. (Two kinds are out: a PRIVATE record of a report may   *)
(* be opened and is not listed; an old assignment is judged by the present *)
(* holder of its device.)                                                  *)
ListMatchesDetail ==
  LET objects == Objects
      kinds   == {o.kind : o \in objects}
  IN  \A u \in User : LET ctx == Context(u) IN
        /\ \A o \in objects : LET seen == CanView(ctx, o) IN
             /\ Listed(ctx, o) <=> seen
             /\ o.kind \in ReportKinds => (Reported(ctx, o) <=> ctx.company # None /\ seen)
        /\ \A kind \in kinds : \A action \in DOMAIN Codes(kind) :
             Allowed(ctx, kind, action) => Allowed(ctx, kind, "read")

(* docs/employee-management.md:166 says "Self-manager and one-level cycles *)
(* are rejected."                                                          *)
NoMutualManagers ==
  \A e, f \in Employee : row[e] # None /\ row[f] # None => ~(row[e].manager = f /\ row[f].manager = e)
=============================================================================
