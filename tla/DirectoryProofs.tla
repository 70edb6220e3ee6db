-------------------------- MODULE DirectoryProofs --------------------------
(***************************************************************************)
(* What holds of the rows and the memberships for every company, user and  *)
(* number of requests. A request that has validated holds a row to save;   *)
(* the invariant says what is known of it, whatever the others did since:  *)
(* its columns have their types and its company is the row's, so that also *)
(* a row deleted meanwhile comes back in the company it belonged to. What  *)
(* the tables must keep then follows from the checks that save makes       *)
(* afresh.                                                                 *)
(***************************************************************************)
EXTENDS Directory, TLAPS

(* Identifiers of one kind are not of another.                             *)
LEMMA Kinds ==
  ASSUME NEW i \in Id
  PROVE  /\ i \in Employee => KindOf(i) = "employee" /\ RowOf(KindOf(i)) = EmployeeRow
                              /\ i \notin Department /\ i \notin Position
         /\ i \in Department => KindOf(i) = "department" /\ RowOf(KindOf(i)) = DepartmentRow
                              /\ i \notin Employee /\ i \notin Position
         /\ i \in Position => KindOf(i) = "position" /\ RowOf(KindOf(i)) = PositionRow
                              /\ i \notin Employee /\ i \notin Department
         /\ i \in Employee \/ i \in Department \/ i \in Position
         /\ i # None
BY DirectoryAssumption DEF KindOf, RowOf, Id

(* A row is not None, and its references are identifiers.                  *)
LEMMA Columns ==
  ASSUME NEW i \in Id, NEW x \in RowOf(KindOf(i))
  PROVE  /\ x.company \in Company /\ x.label \in Label /\ x # None
         /\ \A f \in RefsOf(KindOf(i)) :
              /\ f \in DOMAIN x /\ f # "company"
              /\ x[f] = i => i \in Employee /\ f = "manager"
              /\ x[f] # None => x[f] \in Id
         /\ "company" \in DOMAIN x /\ x.company = x["company"]
<1>1. CASE i \in Employee
  <2>1. x \in EmployeeRow /\ RefsOf(KindOf(i)) = {"department", "position", "manager"}
    BY <1>1, Kinds DEF RefsOf
  <2>2. /\ x["department"] \in Optional(Department) /\ x["position"] \in Optional(Position)
        /\ x["manager"] \in Optional(Employee)
        /\ {"department", "position", "manager", "company"} \subseteq DOMAIN x
        /\ x.company \in Company /\ x.label \in Label /\ x["company"] = x.company
    BY <2>1 DEF EmployeeRow
  <2>3. x # None
    BY <2>1, DirectoryAssumption
  <2>4. \A f \in RefsOf(KindOf(i)) : f = "department" \/ f = "position" \/ f = "manager"
    BY <2>1
  <2>. QED BY <2>1, <2>2, <2>3, <2>4, <1>1, Kinds, DirectoryAssumption DEF Optional, Id
<1>2. CASE i \in Department
  <2>1. x \in DepartmentRow /\ RefsOf(KindOf(i)) = {"manager"}
    BY <1>2, Kinds DEF RefsOf
  <2>. QED BY <2>1, <1>2, Kinds, DirectoryAssumption DEF DepartmentRow, Optional, Id
<1>3. CASE i \in Position
  <2>1. x \in PositionRow /\ RefsOf(KindOf(i)) = {"department"}
    BY <1>3, Kinds DEF RefsOf
  <2>. QED BY <2>1, <1>3, Kinds, DirectoryAssumption DEF PositionRow, Optional, Id
<1>. QED BY <1>1, <1>2, <1>3 DEF Id

(* A row put together from the columns of rows of its kind is one.         *)
LEMMA RowFromColumns ==
  ASSUME NEW i \in Id, NEW x \in RowOf(KindOf(i)), NEW y \in RowOf(KindOf(i)),
         NEW z, z = [f \in DOMAIN x |-> z[f]],
         \A f \in DOMAIN x : \/ z[f] = x[f] \/ z[f] = y[f]
                             \/ f \in RefsOf(KindOf(i)) /\ i \notin Position /\ z[f] = None
  PROVE  z \in RowOf(KindOf(i))
<1>1. CASE i \in Employee
  <2>1. /\ x \in EmployeeRow /\ y \in EmployeeRow
        /\ RefsOf(KindOf(i)) = {"department", "position", "manager"}
    BY <1>1, Kinds DEF RefsOf
  <2>2. DOMAIN x = {"company", "label", "user", "department", "position", "manager", "status"}
    BY <2>1 DEF EmployeeRow
  <2>3. z = [company |-> z["company"], label |-> z["label"], user |-> z["user"],
             department |-> z["department"], position |-> z["position"],
             manager |-> z["manager"], status |-> z["status"]]
    BY <2>2
  <2>4. /\ z["company"] \in Company /\ z["label"] \in Label /\ z["user"] \in Optional(User)
        /\ z["status"] \in {"ACTIVE", "INACTIVE"}
    BY <2>1, <2>2 DEF EmployeeRow
  <2>5. /\ z["department"] \in Optional(Department) /\ z["position"] \in Optional(Position)
        /\ z["manager"] \in Optional(Employee)
    BY <2>1, <2>2 DEF EmployeeRow, Optional
  <2>6. z \in EmployeeRow
    BY <2>3, <2>4, <2>5 DEF EmployeeRow
  <2>. QED  BY <2>6, <1>1, Kinds
<1>2. CASE i \in Department
  <2>1. /\ x \in DepartmentRow /\ y \in DepartmentRow /\ RefsOf(KindOf(i)) = {"manager"}
    BY <1>2, Kinds DEF RefsOf
  <2>2. DOMAIN x = {"company", "label", "manager"}
    BY <2>1 DEF DepartmentRow
  <2>3. z = [company |-> z["company"], label |-> z["label"], manager |-> z["manager"]]
    BY <2>2
  <2>4. z["company"] \in Company /\ z["label"] \in Label /\ z["manager"] \in Optional(Employee)
    BY <2>1, <2>2 DEF DepartmentRow, Optional
  <2>. QED  BY <2>3, <2>4, <1>2, Kinds DEF DepartmentRow
<1>3. CASE i \in Position
  <2>1. x \in PositionRow /\ y \in PositionRow
    BY <1>3, Kinds
  <2>2. DOMAIN x = {"company", "label", "department"}
    BY <2>1 DEF PositionRow
  <2>3. z = [company |-> z["company"], label |-> z["label"], department |-> z["department"]]
    BY <2>2
  <2>4. z["company"] \in Company /\ z["label"] \in Label /\ z["department"] \in Department
    BY <2>1, <2>2, <1>3 DEF PositionRow
  <2>. QED  BY <2>3, <2>4, <1>3, Kinds DEF PositionRow
<1>. QED  BY <1>1, <1>2, <1>3 DEF Id

-----------------------------------------------------------------------------
(* The inductive invariant.                                                *)

(* What a request under way holds: the company of its row is the row's, if *)
(* there is one, and that of every other request for the same identifier,  *)
(* so that a row which comes back belongs to the company it had.           *)
SaveOK(r) ==
  LET q == req[r] IN
    /\ q.id \in used /\ q.new \in RowOf(KindOf(q.id)) /\ q.old \in RowOf(KindOf(q.id))
    /\ q.create \in BOOLEAN
    /\ ~q.create /\ q.id \notin Position => told[q.id] \in RowOf(KindOf(q.id))
    /\ row[q.id] # None => row[q.id].company = q.new.company
    /\ \A s \in Request :
         req[s].pc = "save" /\ req[s].id = q.id => req[s].new.company = q.new.company

AssignOK(r) ==
  /\ req[r].user \in User /\ req[r].company \in Company
  /\ req[r].role \in Role /\ req[r].old \in Optional(Role) /\ req[r].active \in BOOLEAN

RequestsOK ==
  /\ DOMAIN req = Request /\ DOMAIN told = Id
  /\ \A r \in Request : /\ req[r].pc = "save" => SaveOK(r)
                        /\ req[r].pc = "assign" => AssignOK(r)

DirectoryInv ==
  TypeOK /\ RequestsOK /\ ReferencesHold /\ NoneTwice /\ AuditTellsRow

-----------------------------------------------------------------------------
(* The initial state.                                                      *)
LEMMA RolesTyped ==
  ASSUME TypeOK, NEW u \in User, NEW c \in Company
  PROVE  RoleAt(u, c) \in Optional(Role)
BY DEF TypeOK, RoleAt, Optional, Membership

(* At the start nothing is under way and every entry tells its row.        *)
LEMMA InitHolds == Init => DirectoryInv
<1>. SUFFICES ASSUME Init PROVE DirectoryInv
  OBVIOUS
<1>1. /\ row = FirstRow /\ told = FirstRow /\ member = FirstMember
      /\ \A r \in Request : req[r].pc = "idle"
      /\ stale = {} /\ used = Rows /\ writes = 0 /\ DOMAIN req = Request
  BY DEF Init, NoRequest, Rows
<1>2. toldRole = [u \in User |-> [c \in Company |-> RoleAt(u, c)]]
  BY DEF Init
<1>3. \A u \in User, c \in Company : RoleAt(u, c) \in Optional(Role)
  BY <1>1, StartAssumption DEF RoleAt, Optional, Membership
<1>4. \A i \in Rows : row[i] \in RowOf(KindOf(i)) /\ told[i] \in RowOf(KindOf(i))
  BY <1>1, StartAssumption DEF Rows, Optional
<1>5. TypeOK
  BY <1>1, <1>2, <1>3, <1>4, StartAssumption, DirectoryAssumption DEF TypeOK, Rows
<1>6. RequestsOK
  BY <1>1, StartAssumption DEF RequestsOK
<1>7. ReferencesHold /\ NoneTwice
  BY <1>1, StartAssumption DEF ReferencesHold, NoneTwice, LinksUnique, OneActiveMembership
<1>8. AuditTellsRow
  BY <1>1, <1>2 DEF AuditTellsRow
<1>. QED  BY <1>5, <1>6, <1>7, <1>8 DEF DirectoryInv

-----------------------------------------------------------------------------
(* Requests that begin.                                                    *)

(* What the tables keep does not depend on the requests under way.         *)
LEMMA TablesStay ==
  ASSUME DirectoryInv, UNCHANGED <<member, row, told, toldRole, stale>>
  PROVE  ReferencesHold' /\ NoneTwice' /\ AuditTellsRow'
BY DEF DirectoryInv, ReferencesHold, NoneTwice, LinksUnique, OneActiveMembership,
       AuditTellsRow, Rows, RoleAt

(* Types, when only the requests under way change.                         *)
LEMMA RequestsTyped ==
  ASSUME TypeOK, UNCHANGED <<member, row, told, toldRole, stale>>,
         used \subseteq used', used' \subseteq Id, writes' \in 0..MaxWrites,
         \A s \in Request : /\ req'[s].pc \in {"idle", "save", "assign"}
                            /\ req'[s].pc = "save" => req'[s].new \in RowOf(KindOf(req'[s].id))
  PROVE  TypeOK'
<1>1. Rows' = Rows
  BY DEF Rows
<1>2. Rows \subseteq used' /\ stale \subseteq used' \cup (User \X Company)
  BY DEF TypeOK
<1>3. /\ DOMAIN row = Id /\ \A i \in Rows : row[i] \in RowOf(KindOf(i))
      /\ member \in [User -> [Company -> Optional(Membership)]]
      /\ toldRole \in [User -> [Company -> Optional(Role)]]
      /\ \A i \in Rows \ Position : told[i] \in RowOf(KindOf(i))
  BY DEF TypeOK
<1>4. /\ DOMAIN row' = Id /\ \A i \in Rows' : row'[i] \in RowOf(KindOf(i))
      /\ \A i \in Rows' \ Position : told'[i] \in RowOf(KindOf(i))
  BY <1>1, <1>3
<1>5. /\ member' \in [User -> [Company -> Optional(Membership)]]
      /\ toldRole' \in [User -> [Company -> Optional(Role)]]
  BY <1>3
<1>6. Rows' \subseteq used' /\ stale' \subseteq used' \cup (User \X Company)
  BY <1>1, <1>2
<1>. QED  BY <1>4, <1>5, <1>6 DEF TypeOK

(* A request that has validated: its row has the company of every other    *)
(* that holds the identifier.                                              *)
LEMMA BeginKeeps ==
  ASSUME DirectoryInv, NEW r \in Request, NEW q, req' = [req EXCEPT ![r] = q], q.pc = "save",
         UNCHANGED <<member, row, told, toldRole, stale>>,
         used \subseteq used', used' \subseteq Id, writes' \in 0..MaxWrites,
         q.id \in used', q.new \in RowOf(KindOf(q.id)), q.old \in RowOf(KindOf(q.id)),
         q.create \in BOOLEAN,
         ~q.create /\ q.id \notin Position => told[q.id] \in RowOf(KindOf(q.id)),
         row[q.id] # None => row[q.id].company = q.new.company,
         \A s \in Request :
           req[s].pc = "save" /\ req[s].id = q.id => req[s].new.company = q.new.company
  PROVE  DirectoryInv'
<1>1. /\ DOMAIN req' = Request /\ req'[r] = q
      /\ \A s \in Request \ {r} : req'[s] = req[s]
  BY DEF DirectoryInv, RequestsOK
<1>3. TypeOK'
  <2>1. TypeOK
    BY DEF DirectoryInv
  <2>2. \A s \in Request : /\ req'[s].pc \in {"idle", "save", "assign"}
                           /\ req'[s].pc = "save" => req'[s].new \in RowOf(KindOf(req'[s].id))
    BY <1>1, <2>1 DEF TypeOK
  <2>. QED  BY <2>1, <2>2, RequestsTyped
<1>4. RequestsOK'
  <2>1. RequestsOK
    BY DEF DirectoryInv
  <2>2. \A s \in Request : req'[s].pc = "save" => SaveOK(s)'
    BY <1>1, <2>1 DEF RequestsOK, SaveOK
  <2>3. \A s \in Request : req'[s].pc = "assign" => AssignOK(s)'
    BY <1>1, <2>1 DEF RequestsOK, AssignOK
  <2>. QED  BY <1>1, <2>1, <2>2, <2>3 DEF RequestsOK
<1>. QED  BY <1>3, <1>4, TablesStay DEF DirectoryInv

(* A PATCH keeps the company of the row it loaded.                         *)
LEMMA LoadKeeps ==
  ASSUME DirectoryInv, NEW r \in Request, NEW u \in User, NEW i \in Id,
         NEW patch \in Patches[KindOf(i)], Load(r, u, i, patch)
  PROVE  DirectoryInv'
<1>. DEFINE new == Patched(row[i], patch)
            q == [pc |-> "save", id |-> i, new |-> new, patch |-> {patch[1]}, old |-> row[i],
                  related |-> Related(KindOf(i), new), create |-> FALSE]
<1>1. /\ row[i] # None /\ req' = [req EXCEPT ![r] = q]
      /\ UNCHANGED <<member, row, used, told, toldRole, stale>>
      /\ writes < MaxWrites /\ writes' = writes + 1
  BY DEF Load, Writing, Begin
<1>2. i \in Rows /\ i \in used /\ row[i] \in RowOf(KindOf(i)) /\ used \subseteq Id
  BY <1>1 DEF DirectoryInv, TypeOK, Rows
<1>3. new \in RowOf(KindOf(i)) /\ patch[1] # "company"
  <2>1. KindOf(i) \in {"employee", "department", "position"}
    BY DEF KindOf
  <2>. QED  BY <1>2, <2>1, RequestAssumption
<1>4. row[i].company = new.company
  BY <1>2, <1>3, Columns DEF Patched
<1>5. writes' \in 0..MaxWrites
  BY <1>1, DirectoryAssumption DEF DirectoryInv, TypeOK
<1>6. \A s \in Request : req[s].pc = "save" /\ req[s].id = i => req[s].new.company = new.company
  BY <1>1, <1>4 DEF DirectoryInv, RequestsOK, SaveOK
<1>7. i \notin Position => told[i] \in RowOf(KindOf(i))
  BY <1>2 DEF DirectoryInv, TypeOK
<1>8. q.pc = "save" /\ q.id = i /\ q.new = new /\ q.old = row[i] /\ q.create = FALSE
  OBVIOUS
<1>. HIDE DEF new, q
<1>. QED  BY <1>1, <1>2, <1>3, <1>4, <1>5, <1>6, <1>7, <1>8, BeginKeeps

(* A POST takes an identifier that no request and no row has had.          *)
LEMMA NewKeeps ==
  ASSUME DirectoryInv, NEW r \in Request, NEW u \in User,
         NEW kind \in DOMAIN Drafts, NEW draft \in Drafts[kind],
         New(r, u, kind, draft)
  PROVE  DirectoryInv'
<1>. DEFINE company == Context(u).company
            new == Drafted(draft, company)
            i == CHOOSE j \in IdsOf(kind) : j \notin used
            q == [pc |-> "save", id |-> i, new |-> new, patch |-> {}, old |-> new,
                  related |-> Related(KindOf(i), new), create |-> TRUE]
<1>1. /\ ~ IdsOf(kind) \subseteq used /\ company # None
      /\ used' = used \cup {i} /\ req' = [req EXCEPT ![r] = q]
      /\ UNCHANGED <<member, row, told, toldRole, stale>>
      /\ writes < MaxWrites /\ writes' = writes + 1
  BY DEF New, Writing, Begin
<1>2. company \in Company
  <2>1. ~(u \in PlatformAdmin \/ ActiveAt(u) = {}) =>
          company = CHOOSE d \in ActiveAt(u) : TRUE
    BY DEF Context
  <2>2. u \in PlatformAdmin \/ ActiveAt(u) = {} => company = None
    BY DEF Context
  <2>. QED  BY <1>1, <2>1, <2>2 DEF ActiveAt
<1>3. i \in IdsOf(kind) /\ i \notin used
  BY <1>1
<1>. HIDE DEF i
<1>4. i \in Id /\ KindOf(i) = kind
  <2>1. kind = "employee" \/ kind = "department" \/ kind = "position"
    BY RequestAssumption
  <2>2. i \in Id
    BY <1>3, <2>1 DEF IdsOf, Id
  <2>. QED  BY <1>3, <2>1, <2>2, Kinds DEF IdsOf
<1>5. new \in RowOf(KindOf(i))
  BY <1>2, <1>4, RequestAssumption
<1>6. row[i] = None
  BY <1>3, <1>4 DEF DirectoryInv, TypeOK, Rows
<1>7. \A s \in Request : req[s].pc = "save" => req[s].id # i
  BY <1>3 DEF DirectoryInv, RequestsOK, SaveOK
<1>8. used' \subseteq Id /\ i \in used' /\ used \subseteq used'
  BY <1>1, <1>4 DEF DirectoryInv, TypeOK
<1>9. writes' \in 0..MaxWrites
  BY <1>1, DirectoryAssumption DEF DirectoryInv, TypeOK
<1>10. q.pc = "save" /\ q.id = i /\ q.new = new /\ q.old = new /\ q.create = TRUE
  OBVIOUS
<1>. HIDE DEF new, q
<1>. QED  BY <1>1, <1>5, <1>6, <1>7, <1>8, <1>9, <1>10, BeginKeeps

(* An assignment that begins, and a request that ends without a change.    *)
LEMMA AssignKeeps ==
  ASSUME DirectoryInv, NEW r \in Request, NEW join \in Joins,
         Assign(r, join[1], join[2], join[3], join[4])
  PROVE  DirectoryInv'
<1>1. join[1] \in User /\ join[2] \in Company /\ join[3] \in Role /\ join[4] \in BOOLEAN
  BY DirectoryAssumption
<1>2. RoleAt(join[1], join[2]) \in Optional(Role)
  BY <1>1, RolesTyped DEF DirectoryInv
<1>3. /\ DOMAIN req' = Request /\ \A s \in Request \ {r} : req'[s] = req[s]
      /\ req'[r] = [pc |-> "assign", user |-> join[1], company |-> join[2], role |-> join[3],
                    active |-> join[4], old |-> RoleAt(join[1], join[2])]
  BY DEF Assign, DirectoryInv, RequestsOK
<1>4. req'[r].pc = "assign" /\ AssignOK(r)'
  BY <1>1, <1>2, <1>3 DEF AssignOK
<1>5. UNCHANGED <<member, row, used, told, toldRole, stale>> /\ writes' = writes + 1
      /\ writes < MaxWrites
  BY DEF Assign, Writing
<1>6. TypeOK'
  <2>1. TypeOK
    BY DEF DirectoryInv
  <2>2. \A s \in Request : /\ req'[s].pc \in {"idle", "save", "assign"}
                           /\ req'[s].pc = "save" => req'[s].new \in RowOf(KindOf(req'[s].id))
    BY <1>3, <1>4, <2>1 DEF TypeOK
  <2>3. used \subseteq used' /\ used' \subseteq Id /\ writes' \in 0..MaxWrites
    BY <1>5, <2>1, DirectoryAssumption DEF TypeOK
  <2>. QED  BY <1>5, <2>1, <2>2, <2>3, RequestsTyped
<1>7. RequestsOK'
  <2>1. RequestsOK
    BY DEF DirectoryInv
  <2>2. \A s \in Request : req'[s].pc = "save" => SaveOK(s)'
    BY <1>3, <1>4, <1>5, <2>1 DEF RequestsOK, SaveOK
  <2>3. \A s \in Request : req'[s].pc = "assign" => AssignOK(s)'
    BY <1>3, <1>4, <1>5, <2>1 DEF RequestsOK, AssignOK
  <2>. QED  BY <1>3, <1>5, <2>1, <2>2, <2>3 DEF RequestsOK
<1>. QED  BY <1>5, <1>6, <1>7, TablesStay DEF DirectoryInv

-----------------------------------------------------------------------------
(* Rows that change.                                                       *)

LEMMA ColumnNames ==
  ASSUME NEW i \in Id, NEW x \in RowOf(KindOf(i))
  PROVE  /\ i \in Employee => DOMAIN x = {"company", "label", "user", "department",
                                          "position", "manager", "status"}
         /\ i \in Department => DOMAIN x = {"company", "label", "manager"}
         /\ i \in Position => DOMAIN x = {"company", "label", "department"}
<1>1. /\ i \in Employee => x \in EmployeeRow
      /\ i \in Department => x \in DepartmentRow
      /\ i \in Position => x \in PositionRow
  BY Kinds
<1>. QED  BY <1>1 DEF EmployeeRow, DepartmentRow, PositionRow

LEMMA SameColumns ==
  ASSUME NEW i \in Id, NEW x \in RowOf(KindOf(i)), NEW y \in RowOf(KindOf(i))
  PROVE  DOMAIN x = DOMAIN y
BY ColumnNames DEF Id

(* What an audit entry makes of a row is a row of its kind.                *)
LEMMA AuditedRow ==
  ASSUME NEW i \in Id, NEW before \in RowOf(KindOf(i)), NEW q, q.new \in RowOf(KindOf(i))
  PROVE  /\ Audited(before, q) \in RowOf(KindOf(i))
         /\ \A f \in DOMAIN before :
              Audited(before, q)[f] = IF q.new[f] # q.old[f] THEN q.new[f] ELSE before[f]
<1>. DEFINE z == Audited(before, q)
<1>1. z = [f \in DOMAIN before |-> IF q.new[f] # q.old[f] THEN q.new[f] ELSE before[f]]
  BY DEF Audited
<1>2. z = [f \in DOMAIN before |-> z[f]]
  BY <1>1
<1>3. \A f \in DOMAIN before : z[f] = IF q.new[f] # q.old[f] THEN q.new[f] ELSE before[f]
  BY <1>1
<1>. HIDE DEF z
<1>4. z \in RowOf(KindOf(i))
  BY <1>2, <1>3, RowFromColumns
<1>. QED  BY <1>3, <1>4 DEF z

(* A row without its reference to a deleted one                            *)
LEMMA ClearedRow ==
  ASSUME NEW i \in Id, NEW j \in Id, row[j] \in RowOf(KindOf(j)),
         j \in Position => row[j].department # i
  PROVE  /\ Cleared(j, i) \in RowOf(KindOf(j))
         /\ \A f \in DOMAIN row[j] :
              \/ Cleared(j, i)[f] = row[j][f]
              \/ f \in RefsOf(KindOf(j)) /\ Cleared(j, i)[f] = None
         /\ \A f \in RefsOf(KindOf(j)) : Cleared(j, i)[f] # i
         /\ Cleared(j, i).company = row[j].company
         /\ Key(j, Cleared(j, i)) = Key(j, row[j])
         /\ j \in Employee => Cleared(j, i).user = row[j].user
<1>. DEFINE x == row[j]
            z == Cleared(j, i)
<1>1. z = [f \in DOMAIN x |->
             IF f \in RefsOf(KindOf(j)) /\ x[f] = i THEN None ELSE x[f]]
  BY DEF Cleared
<1>2. z = [f \in DOMAIN x |-> z[f]]
  BY <1>1
<1>3. \A f \in DOMAIN x :
        z[f] = IF f \in RefsOf(KindOf(j)) /\ x[f] = i THEN None ELSE x[f]
  BY <1>1
<1>4. i # None /\ x \in RowOf(KindOf(j)) /\ (j \in Position => x["department"] # i)
  BY Kinds
<1>. HIDE DEF z, x
<1>5. \A f \in DOMAIN x : z[f] = x[f] \/ (f \in RefsOf(KindOf(j)) /\ z[f] = None)
  BY <1>3
<1>6. j \in Position => \A f \in DOMAIN x : z[f] = x[f]
  <2>1. j \in Position => RefsOf(KindOf(j)) = {"department"}
    BY Kinds DEF RefsOf
  <2>. QED  BY <1>3, <1>4, <2>1
<1>7. z \in RowOf(KindOf(j))
  BY <1>2, <1>4, <1>5, <1>6, RowFromColumns
<1>8. /\ \A f \in RefsOf(KindOf(j)) : z[f] # i
      /\ z.company = x.company
  <2>1. \A f \in RefsOf(KindOf(j)) : f \in DOMAIN x
    BY <1>4, Columns
  <2>2. "company" \in DOMAIN x /\ "company" \notin RefsOf(KindOf(j))
    BY <1>4, Columns
  <2>. QED  BY <1>3, <1>4, <1>5, <2>1, <2>2
<1>9. z.label = x.label /\ (j \in Employee => z.user = x.user)
  <2>1. "label" \notin RefsOf(KindOf(j)) /\ "user" \notin RefsOf(KindOf(j))
    BY Kinds DEF RefsOf
  <2>2. "label" \in DOMAIN x /\ (j \in Employee => "user" \in DOMAIN x)
    BY <1>4, ColumnNames DEF Id
  <2>. QED  BY <1>5, <2>1, <2>2
<1>10. Key(j, z) = Key(j, x)
  <2>1. j \in Position => z.department = x.department
    <3>1. j \in Position => "department" \in DOMAIN x
      BY <1>4, ColumnNames
    <3>. QED  BY <1>6, <3>1
  <2>2. KindOf(j) = "position" => j \in Position
    BY Kinds
  <2>. QED  BY <1>8, <1>9, <2>1, <2>2 DEF Key
<1>. QED  BY <1>5, <1>7, <1>8, <1>9, <1>10 DEF z, x

LEMMA SameKind ==
  ASSUME NEW i \in Id, NEW j \in Id, KindOf(i) = KindOf(j)
  PROVE  j \in IdsOf(KindOf(i))
BY Kinds DEF IdsOf

(* A save that is accepted. Its row belongs to the company it had, so the  *)
(* references of other rows to it stay good, also when it comes back.      *)
LEMMA SaveAccepted ==
  ASSUME DirectoryInv, NEW r \in Request, Save(r),
         Accepted(req[r].id, req[r].new, req[r].related)
  PROVE  DirectoryInv'
<1>. DEFINE q == req[r]
            i == q.id
            new == q.new
<1>1. /\ q.pc = "save"
      /\ row' = [row EXCEPT ![i] = new]
      /\ told' = IF i \in Position THEN told
                 ELSE [told EXCEPT ![i] = IF q.create THEN new ELSE Audited(told[i], q)]
      /\ stale' = IF q.create \/ row[i] = q.old THEN stale ELSE stale \cup {i}
      /\ req' = [req EXCEPT ![r] = NoRequest]
      /\ UNCHANGED <<member, used, toldRole, writes>>
  BY DEF Save
<1>2. /\ i \in used /\ new \in RowOf(KindOf(i)) /\ q.old \in RowOf(KindOf(i))
      /\ q.create \in BOOLEAN
      /\ ~q.create /\ i \notin Position => told[i] \in RowOf(KindOf(i))
      /\ row[i] # None => row[i].company = new.company
      /\ \A s \in Request :
           req[s].pc = "save" /\ req[s].id = i => req[s].new.company = new.company
  BY <1>1 DEF DirectoryInv, RequestsOK, SaveOK
<1>3. TypeOK /\ RequestsOK /\ ReferencesHold /\ NoneTwice /\ AuditTellsRow
  BY DEF DirectoryInv
<1>4. i \in Id /\ new # None /\ DOMAIN row = Id /\ DOMAIN told = Id
  BY <1>2, <1>3, Columns DEF TypeOK, RequestsOK
<1>5. Clean(i, new, q.related) /\ Unique(i, new) /\ Refers(i, new)
  BY DEF Accepted
<1>6. /\ DOMAIN row' = Id /\ row'[i] = new /\ \A j \in Id \ {i} : row'[j] = row[j]
      /\ Rows' = Rows \cup {i}
  BY <1>1, <1>4 DEF Rows
<1>7. /\ DOMAIN told' = Id /\ \A j \in Id \ {i} : told'[j] = told[j]
      /\ i \notin Position => told'[i] = IF q.create THEN new ELSE Audited(told[i], q)
  BY <1>1, <1>4
<1>8. i \notin Position => told'[i] \in RowOf(KindOf(i))
  BY <1>2, <1>4, <1>7, AuditedRow
<1>9. /\ DOMAIN req' = Request /\ req'[r].pc = "idle"
      /\ \A s \in Request \ {r} : req'[s] = req[s]
  BY <1>1, <1>3 DEF RequestsOK, NoRequest
<1>. HIDE DEF i, new
<1>10. TypeOK'
  <2>1. /\ DOMAIN row' = Id /\ \A j \in Rows' : row'[j] \in RowOf(KindOf(j))
        /\ \A j \in Rows' \ Position : told'[j] \in RowOf(KindOf(j))
    BY <1>2, <1>3, <1>4, <1>6, <1>7, <1>8 DEF TypeOK, Rows
  <2>2. /\ Rows' \subseteq used' /\ used' \subseteq Id
        /\ stale' \subseteq used' \cup (User \X Company)
    BY <1>1, <1>2, <1>3, <1>6 DEF TypeOK
  <2>3. \A s \in Request :
          /\ req'[s].pc \in {"idle", "save", "assign"}
          /\ req'[s].pc = "save" => req'[s].new \in RowOf(KindOf(req'[s].id))
    BY <1>3, <1>9 DEF TypeOK
  <2>4. /\ member' \in [User -> [Company -> Optional(Membership)]]
        /\ toldRole' \in [User -> [Company -> Optional(Role)]] /\ writes' \in 0..MaxWrites
    BY <1>1, <1>3 DEF TypeOK
  <2>. QED  BY <2>1, <2>2, <2>3, <2>4 DEF TypeOK
<1>11. RequestsOK'
  <2>1. \A s \in Request : req'[s].pc = "save" => SaveOK(s)'
    <3>. SUFFICES ASSUME NEW s \in Request, req'[s].pc = "save" PROVE SaveOK(s)'
      OBVIOUS
    <3>1. s # r /\ req'[s] = req[s] /\ SaveOK(s)
      BY <1>3, <1>9 DEF RequestsOK
    <3>2. req[s].id \in Id
      BY <1>3, <3>1 DEF SaveOK, TypeOK
    <3>3. CASE req[s].id = i
      BY <1>1, <1>2, <1>6, <1>8, <1>9, <3>1, <3>3 DEF SaveOK
    <3>4. CASE req[s].id # i
      BY <1>1, <1>6, <1>7, <1>9, <3>1, <3>2, <3>4 DEF SaveOK
    <3>. QED  BY <3>3, <3>4
  <2>2. \A s \in Request : req'[s].pc = "assign" => AssignOK(s)'
    BY <1>3, <1>9 DEF RequestsOK, AssignOK
  <2>. QED  BY <1>7, <1>9, <2>1, <2>2 DEF RequestsOK
<1>12. ReferencesHold'
  <2>. SUFFICES ASSUME NEW j \in Id, row'[j] # None, NEW f \in RefsOf(KindOf(j))
                PROVE  /\ row'[j][f] # j
                       /\ row'[j][f] # None => /\ row'[row'[j][f]] # None
                                               /\ row'[row'[j][f]].company = row'[j].company
    BY DEF ReferencesHold, RefersWithin
  <2>1. CASE j = i
    <3>1. new[f] # i
      <4>1. f = "manager" /\ i \in Employee => new[f] # i
        BY <1>5, Kinds, <1>4 DEF Clean
      <4>. QED  BY <1>2, <1>4, <2>1, <4>1, Columns
    <3>2. new[f] # None => /\ new[f] \in Rows /\ row[new[f]].company = new.company
      BY <1>5, <2>1 DEF Refers, Optional
    <3>. QED  BY <1>6, <2>1, <3>1, <3>2 DEF Rows
  <2>2. CASE j # i
    <3>1. row'[j] = row[j] /\ row[j] # None
      BY <1>6, <2>2
    <3>2. /\ row[j][f] # j
          /\ row[j][f] # None => row[row[j][f]] # None /\ row[row[j][f]].company = row[j].company
      BY <1>3, <3>1 DEF ReferencesHold, RefersWithin
    <3>3. row[j][f] # None => row[j][f] \in Id
      BY <1>3, <3>1, Columns DEF TypeOK, Rows
    <3>4. ASSUME row[j][f] # None
          PROVE  row'[row[j][f]] # None /\ row'[row[j][f]].company = row[j].company
      <4>1. CASE row[j][f] = i
        BY <1>2, <1>4, <1>6, <3>2, <3>4, <4>1
      <4>2. CASE row[j][f] # i
        BY <1>6, <3>2, <3>3, <3>4, <4>2
      <4>. QED  BY <4>1, <4>2
    <3>. QED  BY <3>1, <3>2, <3>4
  <2>. QED  BY <2>1, <2>2
<1>13. NoneTwice'
  <2>1. \A k \in Id \ {i} : row[k] # None /\ KindOf(k) = KindOf(i) =>
          /\ Key(k, row[k]) # Key(i, new)
          /\ KindOf(i) = "employee" /\ new.user # None => row[k].user # new.user
    BY <1>4, <1>5, SameKind DEF Unique, Rows
  <2>2. KeysDiffer(row)
    BY <1>3 DEF NoneTwice, LinksUnique
  <2>3. ASSUME NEW j \in Id, NEW k \in Id, row'[j] # None, row'[k] # None, j # k,
               KindOf(j) = KindOf(k)
        PROVE  /\ Key(j, row'[j]) # Key(k, row'[k])
               /\ j \in Employee /\ row'[j].user # None => row'[j].user # row'[k].user
    <3>1. CASE j # i /\ k # i
      BY <1>6, <2>2, <2>3, <3>1 DEF KeysDiffer
    <3>2. CASE j = i
      BY <1>6, <2>1, <2>3, <3>2, Kinds
    <3>3. CASE k = i
      BY <1>6, <2>1, <2>3, <3>3, Kinds
    <3>. QED  BY <3>1, <3>2, <3>3
  <2>4. KeysDiffer(row')
    BY <2>3 DEF KeysDiffer
  <2>. QED  BY <1>1, <1>3, <2>4 DEF NoneTwice, LinksUnique, OneActiveMembership
<1>14. AuditTellsRow'
  <2>1. ASSUME NEW j \in Rows', j \notin stale', j \notin Position, NEW f \in DOMAIN row'[j]
        PROVE  row'[j][f] = told'[j][f] \/ (f \in RefsOf(KindOf(j)) /\ row'[j][f] = None)
    <3>1. j \in Id
      BY <2>1 DEF Rows
    <3>2. CASE j # i
      BY <1>1, <1>3, <1>6, <1>7, <2>1, <3>1, <3>2 DEF AuditTellsRow
    <3>3. CASE j = i /\ q.create
      BY <1>6, <1>7, <2>1, <3>3
    <3>4. CASE j = i /\ ~q.create
      <4>1. row[i] = q.old /\ i \notin stale
        BY <1>1, <2>1, <3>4
      <4>2. i \in Rows /\ told[i] \in RowOf(KindOf(i)) /\ f \in DOMAIN q.old
        BY <1>2, <1>4, <1>6, <2>1, <3>4, <4>1, Columns, SameColumns DEF Rows
      <4>3. told'[i][f] = IF new[f] # q.old[f] THEN new[f] ELSE told[i][f]
        BY <1>2, <1>4, <1>7, <2>1, <3>4, <4>2, AuditedRow, SameColumns DEF new
      <4>4. q.old[f] = told[i][f] \/ (f \in RefsOf(KindOf(i)) /\ q.old[f] = None)
        BY <1>3, <2>1, <3>4, <4>1, <4>2 DEF AuditTellsRow
      <4>. QED  BY <1>6, <3>4, <4>3, <4>4
    <3>. QED  BY <3>2, <3>3, <3>4
  <2>2. \A u \in User, c \in Company : <<u, c>> \notin stale' => toldRole'[u][c] = RoleAt(u, c)'
    BY <1>1, <1>3 DEF AuditTellsRow, RoleAt
  <2>. QED  BY <2>1, <2>2 DEF AuditTellsRow
<1>. QED  BY <1>10, <1>11, <1>12, <1>13, <1>14 DEF DirectoryInv

(* A save that is refused, also of a membership, leaves the tables alone.  *)
LEMMA RefusalKeeps ==
  ASSUME DirectoryInv, NEW r \in Request, req' = [req EXCEPT ![r] = NoRequest],
         UNCHANGED <<member, row, used, told, toldRole, stale, writes>>
  PROVE  DirectoryInv'
<1>1. /\ DOMAIN req' = Request /\ req'[r].pc = "idle"
      /\ \A s \in Request \ {r} : req'[s] = req[s]
  BY DEF DirectoryInv, RequestsOK, NoRequest
<1>2. TypeOK'
  <2>1. TypeOK
    BY DEF DirectoryInv
  <2>2. \A s \in Request :
          /\ req'[s].pc \in {"idle", "save", "assign"}
          /\ req'[s].pc = "save" => req'[s].new \in RowOf(KindOf(req'[s].id))
    BY <1>1, <2>1 DEF TypeOK
  <2>3. used \subseteq used' /\ used' \subseteq Id /\ writes' \in 0..MaxWrites
    BY <2>1 DEF TypeOK
  <2>. QED  BY <2>1, <2>2, <2>3, RequestsTyped
<1>3. RequestsOK'
  <2>1. RequestsOK
    BY DEF DirectoryInv
  <2>2. \A s \in Request : /\ req'[s].pc = "save" => SaveOK(s)'
                           /\ req'[s].pc = "assign" => AssignOK(s)'
    BY <1>1, <2>1 DEF RequestsOK, SaveOK, AssignOK
  <2>. QED  BY <1>1, <2>1, <2>2 DEF RequestsOK
<1>. QED  BY <1>2, <1>3, TablesStay DEF DirectoryInv

(* A save, accepted or refused                                             *)
LEMMA SaveKeeps ==
  ASSUME DirectoryInv, NEW r \in Request, Save(r)
  PROVE  DirectoryInv'
<1>1. CASE Accepted(req[r].id, req[r].new, req[r].related)
  BY <1>1, SaveAccepted
<1>2. CASE ~Accepted(req[r].id, req[r].new, req[r].related)
  BY <1>2, RefusalKeeps DEF Save
<1>. QED  BY <1>1, <1>2

(* A deletion takes the references to the row with it; those that may not  *)
(* be empty protect it.                                                    *)
LEMMA DeleteKeeps ==
  ASSUME DirectoryInv, NEW u \in User, NEW i \in Id, Delete(u, i)
  PROVE  DirectoryInv'
<1>1. /\ row[i] # None /\ ~Protected(i)
      /\ row' = [j \in Id |-> IF j = i \/ row[j] = None THEN None ELSE Cleared(j, i)]
      /\ writes < MaxWrites /\ writes' = writes + 1
      /\ UNCHANGED <<member, req, used, told, toldRole, stale>>
  BY DEF Delete, Writing
<1>2. TypeOK /\ RequestsOK /\ ReferencesHold /\ NoneTwice /\ AuditTellsRow
  BY DEF DirectoryInv
<1>3. /\ DOMAIN row' = Id /\ row'[i] = None
      /\ \A j \in Id \ {i} : IF row[j] = None THEN row'[j] = None ELSE row'[j] = Cleared(j, i)
  BY <1>1
<1>4. \A j \in Id \ {i} : row[j] # None =>
        /\ row[j] \in RowOf(KindOf(j))
        /\ j \in Position => row[j].department # i
  <2>. SUFFICES ASSUME NEW j \in Id \ {i}, row[j] # None
                PROVE  /\ row[j] \in RowOf(KindOf(j))
                       /\ j \in Position => row[j].department # i
    OBVIOUS
  <2>1. row[j] \in RowOf(KindOf(j))
    BY <1>2 DEF TypeOK, Rows
  <2>2. j \in Position => row[j].department \in Department
    <3>1. j \in Position => row[j] \in PositionRow
      BY <2>1, Kinds
    <3>. QED  BY <3>1 DEF PositionRow
  <2>3. j \in Position /\ row[j].department = i => Protected(i)
    BY <2>2 DEF Protected
  <2>. QED  BY <1>1, <2>1, <2>3
<1>5. ASSUME NEW j \in Id \ {i}, row[j] # None
      PROVE  /\ row'[j] \in RowOf(KindOf(j)) /\ row'[j] # None
             /\ \A f \in DOMAIN row[j] :
                  row'[j][f] = row[j][f] \/ (f \in RefsOf(KindOf(j)) /\ row'[j][f] = None)
             /\ \A f \in RefsOf(KindOf(j)) : f \in DOMAIN row[j] /\ row'[j][f] # i
             /\ row'[j].company = row[j].company
             /\ Key(j, row'[j]) = Key(j, row[j])
             /\ j \in Employee => row'[j].user = row[j].user
  <2>1. row'[j] = Cleared(j, i)
    BY <1>3, <1>5
  <2>2. \A f \in RefsOf(KindOf(j)) : f \in DOMAIN row[j]
    BY <1>4, <1>5, Columns
  <2>3. row'[j] \in RowOf(KindOf(j))
    BY <1>4, <1>5, <2>1, ClearedRow
  <2>4. row'[j] # None
    BY <2>3, Columns
  <2>. QED  BY <1>4, <1>5, <2>1, <2>2, <2>3, <2>4, ClearedRow
<1>6. Rows' = Rows \ {i}
  BY <1>3, <1>5 DEF Rows
<1>7. TypeOK'
  <2>1. /\ \A j \in Rows' : row'[j] \in RowOf(KindOf(j))
        /\ \A j \in Rows' \ Position : told'[j] \in RowOf(KindOf(j))
    BY <1>1, <1>2, <1>5, <1>6 DEF TypeOK, Rows
  <2>2. Rows' \subseteq used' /\ writes' \in 0..MaxWrites
    BY <1>1, <1>2, <1>6, DirectoryAssumption DEF TypeOK
  <2>. QED  BY <1>1, <1>2, <1>3, <2>1, <2>2 DEF TypeOK
<1>8. RequestsOK'
  <2>1. \A s \in Request : req[s].pc = "save" =>
          /\ req[s].id \in Id
          /\ row'[req[s].id] # None => row'[req[s].id].company = req[s].new.company
    BY <1>2, <1>3, <1>5 DEF RequestsOK, SaveOK, TypeOK
  <2>2. \A s \in Request : req'[s].pc = "save" => SaveOK(s)'
    BY <1>1, <1>2, <2>1 DEF RequestsOK, SaveOK
  <2>3. \A s \in Request : req'[s].pc = "assign" => AssignOK(s)'
    BY <1>1, <1>2 DEF RequestsOK, AssignOK
  <2>. QED  BY <1>1, <1>2, <2>2, <2>3 DEF RequestsOK
<1>9. ReferencesHold'
  <2>. SUFFICES ASSUME NEW j \in Id, row'[j] # None, NEW f \in RefsOf(KindOf(j)), row'[j][f] # None
                PROVE  /\ row'[j][f] # j
                       /\ row'[row'[j][f]] # None
                       /\ row'[row'[j][f]].company = row'[j].company
    BY Kinds DEF ReferencesHold, RefersWithin
  <2>1. j # i /\ row[j] # None
    BY <1>3
  <2>2. row'[j][f] = row[j][f] /\ row'[j][f] # i /\ row'[j].company = row[j].company
    BY <1>5, <2>1
  <2>3. /\ row[j][f] # j /\ row[row[j][f]] # None /\ row[row[j][f]].company = row[j].company
    BY <1>2, <2>1, <2>2 DEF ReferencesHold, RefersWithin
  <2>4. row[j][f] \in Id \ {i}
    BY <1>2, <2>1, <2>2, Columns DEF TypeOK, Rows
  <2>. QED  BY <1>5, <2>2, <2>3, <2>4
<1>10. NoneTwice'
  <2>1. KeysDiffer(row)
    BY <1>2 DEF NoneTwice, LinksUnique
  <2>2. ASSUME NEW j \in Id, NEW k \in Id, row'[j] # None, row'[k] # None, j # k,
               KindOf(j) = KindOf(k)
        PROVE  /\ Key(j, row'[j]) # Key(k, row'[k])
               /\ j \in Employee /\ row'[j].user # None => row'[j].user # row'[k].user
    <3>1. j # i /\ k # i /\ row[j] # None /\ row[k] # None
      BY <1>3, <2>2
    <3>2. j \in Employee => k \in Employee
      BY <2>2, Kinds
    <3>. QED  BY <1>5, <2>1, <2>2, <3>1, <3>2 DEF KeysDiffer
  <2>3. KeysDiffer(row')
    BY <2>2 DEF KeysDiffer
  <2>. QED  BY <1>1, <1>2, <2>3 DEF NoneTwice, LinksUnique, OneActiveMembership
<1>11. AuditTellsRow'
  <2>1. ASSUME NEW j \in Rows', j \notin stale', j \notin Position, NEW f \in DOMAIN row'[j]
        PROVE  row'[j][f] = told'[j][f] \/ (f \in RefsOf(KindOf(j)) /\ row'[j][f] = None)
    <3>1. j \in Id \ {i} /\ row[j] # None /\ j \in Rows
      BY <1>6, <2>1 DEF Rows
    <3>2. f \in DOMAIN row[j]
      BY <1>4, <1>5, <2>1, <3>1, SameColumns
    <3>3. row[j][f] = told[j][f] \/ (f \in RefsOf(KindOf(j)) /\ row[j][f] = None)
      BY <1>1, <1>2, <2>1, <3>1, <3>2 DEF AuditTellsRow
    <3>. QED  BY <1>1, <1>5, <3>1, <3>2, <3>3
  <2>2. \A w \in User, c \in Company : <<w, c>> \notin stale' => toldRole'[w][c] = RoleAt(w, c)'
    BY <1>1, <1>2 DEF AuditTellsRow, RoleAt
  <2>. QED  BY <2>1, <2>2 DEF AuditTellsRow
<1>. QED  BY <1>7, <1>8, <1>9, <1>10, <1>11 DEF DirectoryInv

-----------------------------------------------------------------------------
(* Memberships that change.                                                *)

(* Rows and what requests hold do not depend on them.                      *)
LEMMA MembershipsMove ==
  ASSUME DirectoryInv, UNCHANGED <<row, used, told>>, writes' \in 0..MaxWrites,
         DOMAIN req' = Request, \A s \in Request : req'[s] = req[s] \/ req'[s].pc = "idle",
         member' \in [User -> [Company -> Optional(Membership)]],
         toldRole' \in [User -> [Company -> Optional(Role)]],
         stale \subseteq stale', stale' \subseteq used \cup (User \X Company),
         OneActive(member)',
         \A u \in User, c \in Company : <<u, c>> \notin stale' => toldRole'[u][c] = RoleAt(u, c)'
  PROVE  DirectoryInv'
<1>1. TypeOK /\ RequestsOK /\ ReferencesHold /\ NoneTwice /\ AuditTellsRow
  BY DEF DirectoryInv
<1>2. Rows' = Rows
  BY DEF Rows
<1>3. TypeOK'
  <2>1. \A s \in Request : /\ req'[s].pc \in {"idle", "save", "assign"}
                           /\ req'[s].pc = "save" => req'[s].new \in RowOf(KindOf(req'[s].id))
    BY <1>1 DEF TypeOK
  <2>. QED  BY <1>1, <1>2, <2>1 DEF TypeOK
<1>4. RequestsOK'
  <2>1. \A s \in Request : /\ req'[s].pc = "save" => SaveOK(s)'
                           /\ req'[s].pc = "assign" => AssignOK(s)'
    BY <1>1 DEF RequestsOK, SaveOK, AssignOK
  <2>. QED  BY <1>1, <2>1 DEF RequestsOK
<1>5. ReferencesHold' /\ LinksUnique'
  BY <1>1 DEF ReferencesHold, NoneTwice, LinksUnique
<1>6. OneActiveMembership'
  BY DEF OneActiveMembership
<1>7. AuditTellsRow'
  <2>1. \A i \in Rows' \ (stale' \cup Position) : \A f \in DOMAIN row'[i] :
          row'[i][f] = told'[i][f] \/ (f \in RefsOf(KindOf(i)) /\ row'[i][f] = None)
    BY <1>1, <1>2 DEF AuditTellsRow
  <2>. QED  BY <2>1 DEF AuditTellsRow
<1>. QED  BY <1>1, <1>3, <1>4, <1>5, <1>6, <1>7 DEF DirectoryInv, NoneTwice

(* An assignment that the unique index accepts makes a membership that is  *)
(* inactive or the only active one of its user; its role is told unless it *)
(* is the one found.                                                       *)
LEMMA SaveMembershipKeeps ==
  ASSUME DirectoryInv, NEW r \in Request, SaveMembership(r)
  PROVE  DirectoryInv'
<1> DEFINE q == req[r]
           u == q.user
           c == q.company
<1>1. /\ q.pc = "assign" /\ UNCHANGED <<row, used, told, writes>>
      /\ req' = [req EXCEPT ![r] = NoRequest]
  BY DEF SaveMembership
<1>2. TypeOK /\ RequestsOK /\ NoneTwice /\ AuditTellsRow
  BY DEF DirectoryInv
<1>3. /\ u \in User /\ c \in Company /\ q.role \in Role /\ q.old \in Optional(Role)
      /\ q.active \in BOOLEAN
  BY <1>1, <1>2 DEF RequestsOK, AssignOK
<1>4. CASE ~(q.active => OnlyActive(u, c))
  <2>1. UNCHANGED <<member, toldRole, stale>>
    BY <1>4 DEF SaveMembership
  <2>. QED  BY <1>1, <2>1, RefusalKeeps
<1>5. CASE q.active => OnlyActive(u, c)
  <2>1. /\ member' = [member EXCEPT ![u][c] = [role |-> q.role, active |-> q.active]]
        /\ toldRole' = IF q.old # q.role THEN [toldRole EXCEPT ![u][c] = q.role] ELSE toldRole
        /\ stale' = IF q.old = RoleAt(u, c) THEN stale ELSE stale \cup {<<u, c>>}
    BY <1>5 DEF SaveMembership, ToldRole
  <2>2. /\ member \in [User -> [Company -> Optional(Membership)]]
        /\ toldRole \in [User -> [Company -> Optional(Role)]]
        /\ stale \subseteq used \cup (User \X Company) /\ writes \in 0..MaxWrites
    BY <1>2 DEF TypeOK
  <2>3. [role |-> q.role, active |-> q.active] \in Optional(Membership)
    BY <1>3 DEF Optional, Membership
  <2>4. /\ member' \in [User -> [Company -> Optional(Membership)]]
        /\ toldRole' \in [User -> [Company -> Optional(Role)]]
    BY <1>3, <2>1, <2>2, <2>3 DEF Optional
  <2>5. stale \subseteq stale' /\ stale' \subseteq used \cup (User \X Company)
    BY <1>3, <2>1, <2>2
  <2>6. /\ member'[u][c].role = q.role /\ member'[u][c].active = q.active
        /\ member'[u][c] # None
        /\ \A v \in User, d \in Company : v # u \/ d # c => member'[v][d] = member[v][d]
    <3>1. [role |-> q.role, active |-> q.active] # None
      <4>1. [role |-> q.role, active |-> q.active] \in Membership
        BY <1>3 DEF Membership
      <4>. QED  BY <4>1, DirectoryAssumption
    <3>2. DOMAIN member = User /\ DOMAIN member[u] = Company
      BY <1>3, <2>2
    <3>3. member'[u][c] = [role |-> q.role, active |-> q.active]
      BY <1>3, <2>1, <3>2
    <3>4. \A v \in User, d \in Company : v # u \/ d # c => member'[v][d] = member[v][d]
      BY <1>3, <2>1, <2>2
    <3>. QED  BY <3>1, <3>3, <3>4
  <2>7. OneActive(member)'
    <3>1. \A d \in Company : q.active /\ member[u][d] # None /\ member[u][d].active => d = c
      BY <1>5 DEF OnlyActive, ActiveAt
    <3>2. OneActive(member)
      BY <1>2 DEF NoneTwice, OneActiveMembership
    <3>. QED  BY <2>6, <3>1, <3>2 DEF OneActive
  <2>8. ASSUME NEW v \in User, NEW d \in Company, <<v, d>> \notin stale'
        PROVE  toldRole'[v][d] = RoleAt(v, d)'
    <3>1. <<v, d>> \notin stale /\ toldRole[v][d] = RoleAt(v, d)
      BY <1>2, <2>5, <2>8 DEF AuditTellsRow
    <3>2. CASE v = u /\ d = c
      <4>1. q.old = RoleAt(u, c)
        BY <2>1, <2>8, <3>2
      <4>2. RoleAt(v, d)' = q.role
        BY <2>6, <3>2 DEF RoleAt
      <4>3. toldRole'[v][d] = q.role
        BY <1>3, <2>1, <2>2, <3>1, <3>2, <4>1
      <4>. QED  BY <4>2, <4>3
    <3>3. CASE v # u \/ d # c
      <4>1. RoleAt(v, d)' = RoleAt(v, d)
        BY <2>6, <3>3 DEF RoleAt
      <4>2. toldRole'[v][d] = toldRole[v][d]
        BY <1>3, <2>1, <2>2, <3>3
      <4>. QED  BY <3>1, <4>1, <4>2
    <3>. QED  BY <3>2, <3>3
  <2>9. DOMAIN req' = Request /\ \A s \in Request : req'[s] = req[s] \/ req'[s].pc = "idle"
    BY <1>1, <1>2 DEF RequestsOK, NoRequest
  <2>. QED  BY <1>1, <2>2, <2>4, <2>5, <2>7, <2>8, <2>9, MembershipsMove
<1>. QED  BY <1>4, <1>5

(* A deactivation keeps the role.                                          *)
LEMMA DeactivateKeeps ==
  ASSUME DirectoryInv, NEW u \in User, NEW c \in Company, Deactivate(u, c)
  PROVE  DirectoryInv'
<1>1. /\ c \in ActiveAt(u) /\ writes < MaxWrites /\ writes' = writes + 1
      /\ member' = [member EXCEPT ![u][c].active = FALSE]
      /\ UNCHANGED <<row, req, used, told, toldRole, stale>>
  BY DEF Deactivate, Writing
<1>2. TypeOK /\ RequestsOK /\ NoneTwice /\ AuditTellsRow
  BY DEF DirectoryInv
<1>3. /\ member \in [User -> [Company -> Optional(Membership)]]
      /\ toldRole \in [User -> [Company -> Optional(Role)]]
      /\ stale \subseteq used \cup (User \X Company) /\ writes' \in 0..MaxWrites
  BY <1>1, <1>2, DirectoryAssumption DEF TypeOK
<1>4. member[u][c] # None /\ member[u][c] \in Membership
  BY <1>1, <1>3 DEF ActiveAt, Optional
<1>5. /\ member'[u][c] = [role |-> member[u][c].role, active |-> FALSE]
      /\ \A v \in User, d \in Company : v # u \/ d # c => member'[v][d] = member[v][d]
      /\ DOMAIN member' = User /\ \A v \in User : DOMAIN member'[v] = Company
  BY <1>1, <1>3, <1>4 DEF Membership
<1>6. member'[u][c] \in Membership /\ member'[u][c] # None
  <2>1. member'[u][c] \in Membership
    BY <1>4, <1>5 DEF Membership
  <2>. QED  BY <2>1, DirectoryAssumption
<1>7. member' \in [User -> [Company -> Optional(Membership)]]
  BY <1>1, <1>3, <1>6 DEF Optional
<1>8. OneActive(member)'
  <2>1. OneActive(member)
    BY <1>2 DEF NoneTwice, OneActiveMembership
  <2>. QED  BY <1>5, <2>1 DEF OneActive
<1>9. \A v \in User, d \in Company : RoleAt(v, d)' = RoleAt(v, d)
  BY <1>4, <1>5, <1>6 DEF RoleAt
<1>10. \A v \in User, d \in Company : <<v, d>> \notin stale' => toldRole'[v][d] = RoleAt(v, d)'
  BY <1>1, <1>2, <1>9 DEF AuditTellsRow
<1>11. DOMAIN req' = Request /\ \A s \in Request : req'[s] = req[s] \/ req'[s].pc = "idle"
  BY <1>1, <1>2 DEF RequestsOK
<1>. QED  BY <1>1, <1>3, <1>7, <1>8, <1>10, <1>11, MembershipsMove

-----------------------------------------------------------------------------
(* Every step keeps the invariant.                                         *)
LEMMA StepKeeps == DirectoryInv /\ [Next]_vars => DirectoryInv'
<1>. SUFFICES ASSUME DirectoryInv, [Next]_vars PROVE DirectoryInv'
  OBVIOUS
<1>1. ASSUME NEW r \in Request, NEW u \in User, NEW i \in Id, NEW patch \in Patches[KindOf(i)],
             Load(r, u, i, patch)
      PROVE  DirectoryInv'
  BY <1>1, LoadKeeps
<1>2. ASSUME NEW r \in Request, NEW u \in User, NEW kind \in DOMAIN Drafts,
             NEW draft \in Drafts[kind], New(r, u, kind, draft)
      PROVE  DirectoryInv'
  BY <1>2, NewKeeps
<1>3. ASSUME NEW r \in Request, Save(r)
      PROVE  DirectoryInv'
  BY <1>3, SaveKeeps
<1>4. ASSUME NEW r \in Request, SaveMembership(r)
      PROVE  DirectoryInv'
  BY <1>4, SaveMembershipKeeps
<1>5. ASSUME NEW u \in User, NEW i \in Id, Delete(u, i)
      PROVE  DirectoryInv'
  BY <1>5, DeleteKeeps
<1>6. ASSUME NEW r \in Request, NEW join \in Joins, Assign(r, join[1], join[2], join[3], join[4])
      PROVE  DirectoryInv'
  BY <1>6, AssignKeeps
<1>7. ASSUME NEW join \in Joins, Deactivate(join[1], join[2])
      PROVE  DirectoryInv'
  <2>1. join[1] \in User /\ join[2] \in Company
    BY DirectoryAssumption
  <2>. QED  BY <1>7, <2>1, DeactivateKeeps
<1>8. CASE UNCHANGED vars
  <2>1. DirectoryInv /\ UNCHANGED <<member, row, req, used, told, toldRole, stale, writes>>
    BY <1>8 DEF vars
  <2>2. RequestsOK'
    BY <2>1 DEF DirectoryInv, RequestsOK, SaveOK, AssignOK
  <2>3. TypeOK'
    BY <2>1 DEF DirectoryInv, TypeOK, Rows
  <2>. QED  BY <2>1, <2>2, <2>3, TablesStay DEF DirectoryInv
<1>. QED  BY <1>1, <1>2, <1>3, <1>4, <1>5, <1>6, <1>7, <1>8 DEF Next

(* Every conjunct of the invariant, always                                 *)
THEOREM Invariance == Spec => []DirectoryInv
<1>. QED  BY InitHolds, StepKeeps, PTL DEF Spec

(* Rows, memberships and what requests hold have the types of their        *)
(* columns (employees/models.py, companies/models.py).                     *)
THEOREM TypeCorrect == Spec => []TypeOK
<1>1. DirectoryInv => TypeOK
  BY DEF DirectoryInv
<1>. QED  BY <1>1, Invariance, PTL

(* However many requests overlap, whoever deletes meanwhile, and whatever  *)
(* a platform administrator names: a reference of a row names another row, *)
(* which exists, in the same company (Employee.clean, Department.clean,    *)
(* Position.clean and the foreign keys).                                   *)
THEOREM ReferencesStay == Spec => []ReferencesHold
<1>1. DirectoryInv => ReferencesHold
  BY DEF DirectoryInv
<1>. QED  BY <1>1, Invariance, PTL

(* No key, link or active membership is ever there twice, for any number   *)
(* of requests that all validated before one of them saved.                *)
THEOREM NothingTwice == Spec => []NoneTwice
<1>1. DirectoryInv => NoneTwice
  BY DEF DirectoryInv
<1>. QED  BY <1>1, Invariance, PTL

(* The audit entries add up to the row and to the role, except where a     *)
(* request saved over a change that it had not loaded.                     *)
THEOREM AuditTruthful == Spec => []AuditTellsRow
<1>1. DirectoryInv => AuditTellsRow
  BY DEF DirectoryInv
<1>. QED  BY <1>1, Invariance, PTL

-----------------------------------------------------------------------------
(* The rules of access agree.                                              *)

ObjectKinds == {"employee", "department", "position", "record", "attendance", "holiday", "leaveType",
           "leaveBalance", "leaveRequest", "device", "assignment", "document",
           "notification", "deviceToken"}

(* A context with a company has one of the roles there.                    *)
LEMMA ContextTyped ==
  ASSUME TypeOK, NEW u \in User
  PROVE  LET ctx == Context(u)
         IN  /\ ctx.user = u /\ (ctx.super => ctx.company = None)
             /\ ctx.super \/ ctx.company = None \/ ctx.role \in Role
<1>1. CASE u \in PlatformAdmin \/ ActiveAt(u) = {}
  BY <1>1 DEF Context
<1>2. CASE ~(u \in PlatformAdmin \/ ActiveAt(u) = {})
  <2>. DEFINE c == CHOOSE d \in ActiveAt(u) : TRUE
  <2>1. c \in ActiveAt(u)
    BY <1>2
  <2>2. member[u][c] \in Membership
    BY <2>1 DEF ActiveAt, TypeOK, Optional
  <2>3. member[u][c].role \in Role
    BY <2>2 DEF Membership
  <2>4. Context(u) = [user |-> u, company |-> c, role |-> member[u][c].role, super |-> FALSE]
    BY <1>2 DEF Context
  <2>. QED  BY <2>3, <2>4
<1>. QED  BY <1>1, <1>2

(* Every role may read every kind.                                         *)
LEMMA EveryRoleReads ==
  ASSUME NEW role \in Role, NEW kind \in ObjectKinds
  PROVE  Codes(kind)["read"] \cap Permissions(role) # {}
<1>1. {"employees.view", "attendance.view", "leave.view", "devices.view", "documents.view",
       "notifications.view"} \subseteq Permissions(role)
  BY DEF Role, Permissions, PermissionCodes, ManagerPermissions, EmployeePermissions
<1>2. \E code \in {"employees.view", "attendance.view", "leave.view", "devices.view",
                   "documents.view", "notifications.view"} : Codes(kind)["read"] = {code}
  BY DEF ObjectKinds, Codes, EmployeeCodes, OrganizationCodes, RecordCodes, AttendanceCodes,
         HolidayCodes, LeaveTypeCodes, LeaveBalanceCodes, LeaveRequestCodes, DeviceCodes,
         DocumentCodes, NotificationCodes, DeviceTokenCodes
<1>. QED  BY <1>1, <1>2

(* The objects there are.                                                  *)
LEMMA ObjectsOwned ==
  ASSUME TypeOK, NEW o \in Objects
  PROVE  /\ o.kind \in ObjectKinds /\ o.named = o.employee
         /\ o.kind \in {"employee", "assignment"} \cup OfPerson => o.employee # None
         /\ o.kind = "assignment" => o.flag # "AVAILABLE"
         /\ o.kind = "device" => o.flag = "AVAILABLE" \/ o.employee # None
         /\ o.kind = "record" => o.flag = "COMPANY"
<1>1. None \notin Employee
  BY DirectoryAssumption DEF Id
<1>2. CASE \E i \in Rows : o = RowObject(i)
  BY <1>1, <1>2, Kinds DEF RowObject, Object, ObjectKinds, OfPerson, Rows, Id, KindOf
<1>3. CASE \E e \in Employee, kind \in OfPerson \cup {"device", "assignment"} :
             o = Object(kind, row[e].company, e, None, None)
  BY <1>1, <1>3, AccessAssumption DEF Object, ObjectKinds, OfPerson
<1>4. CASE \E kind \in {"device", "leaveType", "holiday"}, c \in Company :
             o = Object(kind, c, None, None, "AVAILABLE")
  BY <1>4 DEF Object, ObjectKinds, OfPerson
<1>5. CASE \E c \in Company, u \in User : o = Object("record", c, None, u, "COMPANY")
  BY <1>5 DEF Object, ObjectKinds, OfPerson
<1>6. CASE \E kind \in Inbox, c \in Company, u \in User : o = Object(kind, c, None, u, None)
  BY <1>6 DEF Object, ObjectKinds, OfPerson, Inbox
<1>. QED  BY <1>2, <1>3, <1>4, <1>5, <1>6 DEF Objects

(* The two translations of the rules give the same answer, and a code that *)
(* allows a change comes with the one that allows to read.                 *)
LEMMA RulesAgree == TypeOK => ListMatchesDetail
<1>. SUFFICES ASSUME TypeOK, NEW u \in User
              PROVE  /\ \A o \in Objects :
                          /\ Listed(Context(u), o) <=> CanView(Context(u), o)
                          /\ o.kind \in ReportKinds =>
                               (Reported(Context(u), o) <=>
                                  Context(u).company # None /\ CanView(Context(u), o))
                     /\ \A kind \in {o.kind : o \in Objects} : \A action \in DOMAIN Codes(kind) :
                          Allowed(Context(u), kind, action) => Allowed(Context(u), kind, "read")
  BY DEF ListMatchesDetail
<1>. DEFINE ctx == Context(u)
<1>1. /\ ctx.user = u /\ (ctx.super => ctx.company = None)
      /\ ctx.super \/ ctx.company = None \/ ctx.role \in Role
  BY ContextTyped
<1>. HIDE DEF ctx
<1>2. ASSUME NEW o \in Objects PROVE Listed(ctx, o) <=> CanView(ctx, o)
  <2>1. /\ o.kind \in ObjectKinds /\ o.named = o.employee
        /\ o.kind \in {"employee", "assignment"} \cup OfPerson => o.employee # None
        /\ o.kind = "assignment" => o.flag # "AVAILABLE"
        /\ o.kind = "device" => o.flag = "AVAILABLE" \/ o.employee # None
        /\ o.kind = "record" => o.flag = "COMPANY"
    BY ObjectsOwned
  <2>2. CASE o.kind \in Inbox
    BY <2>2 DEF Listed, CanView
  <2>3. CASE o.kind \notin Inbox
    <3>1. CASE ctx.super \/ ctx.company = None \/ o.company # ctx.company
      BY <2>3, <3>1 DEF Listed, CanView
    <3>2. CASE ~ctx.super /\ ctx.company # None /\ o.company = ctx.company
      <4>1. CASE ctx.role = "COMPANY_ADMIN"
        BY <2>1, <2>3, <3>2, <4>1 DEF Listed, CanView, CanViewEmployee, CanViewDevice
      <4>2. CASE ctx.role \in {"MANAGER", "EMPLOYEE"}
        <5>1. CASE o.kind \in {"employee"} \cup OfPerson
          BY <2>1, <2>3, <3>2, <4>2, <5>1 DEF Listed, ListedAs, CanView, CanViewEmployee,
               OwnOrReports, OfPerson
        <5>2. CASE o.kind = "device"
          BY <2>1, <2>3, <3>2, <4>2, <5>2 DEF Listed, ListedAs, CanView, CanViewEmployee,
               CanViewDevice, OwnOrReports, OfPerson
        <5>3. CASE o.kind = "assignment"
          BY <2>1, <2>3, <3>2, <4>2, <5>3 DEF Listed, ListedAs, CanView, CanViewEmployee,
               CanViewDevice, OwnOrReports, OfPerson
        <5>4. CASE o.kind = "record"
          BY <2>1, <2>3, <3>2, <4>2, <5>4 DEF Listed, ListedAs, CanView, OfPerson
        <5>5. CASE o.kind \notin {"employee", "device", "assignment", "record"} \cup OfPerson
          BY <2>1, <2>3, <3>2, <4>2, <5>5 DEF Listed, ListedAs, CanView, OfPerson
        <5>. QED  BY <5>1, <5>2, <5>3, <5>4, <5>5
      <4>. QED  BY <1>1, <3>2, <4>1, <4>2 DEF Role
    <3>. QED  BY <3>1, <3>2
  <2>. QED  BY <2>2, <2>3
<1>3. ASSUME NEW o \in Objects, o.kind \in ReportKinds
      PROVE  Reported(ctx, o) <=> ctx.company # None /\ CanView(ctx, o)
  BY <1>1, <1>2, <1>3 DEF Reported, ReportKinds, CanView, Inbox
<1>4. ASSUME NEW o \in Objects, NEW action \in DOMAIN Codes(o.kind), Allowed(ctx, o.kind, action)
      PROVE  Allowed(ctx, o.kind, "read")
  <2>1. ctx.super \/ ctx.company # None
    BY <1>4 DEF Allowed, HasAnyPermission, HasPermission
  <2>2. o.kind \in ObjectKinds
    BY ObjectsOwned
  <2>3. PICK code : code \in Codes(o.kind)["read"]
    BY <2>2, EveryRoleReads DEF Role
  <2>4. CASE ctx.super
    BY <2>3, <2>4 DEF Allowed, HasAnyPermission, HasPermission
  <2>5. CASE ~ctx.super
    BY <1>1, <2>1, <2>2, <2>5, EveryRoleReads DEF Allowed, HasAnyPermission, HasPermission
  <2>. QED  BY <2>4, <2>5
<1>. QED  BY <1>2, <1>3, <1>4 DEF ctx

(* Whatever the rows and memberships become: who finds an object in a list *)
(* may open it and the other way round, a report lists what its reader may *)
(* open, and nobody may change what his role does not let him read         *)
(* (ObjectAuthorization, rbac_catalog.py and the view sets).               *)
THEOREM ListsMatchDetails == Spec => []ListMatchesDetail
<1>. QED  BY RulesAgree, TypeCorrect, PTL
=============================================================================
