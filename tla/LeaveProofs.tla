----------------------------- MODULE LeaveProofs -----------------------------
(***************************************************************************)
(* Theorems about Leave, for every company, every number of server         *)
(* processes and every calendar: first type correctness, then the          *)
(* inductive invariant SafeInv, which row locks keep, and what follows.    *)
(***************************************************************************)
EXTENDS Leave, FiniteSetTheorems, SequenceTheorems, WellFoundedInduction, TLAPS

(* What each statement of a handler may rely on: which call it serves, and   *)
(* which of its local rows are filled.                                       *)
HandlerOK(w) ==
  /\ pc[w] # "idle" => /\ job[w] \in Job
                       /\ job[w].op # "allocate" => job[w].request \in Request
  /\ pc[w] \in {"overlap", "insert"} =>
       job[w].op = "create" /\ row[w] \in RequestRow /\ row[w].status = "PENDING"
  /\ pc[w] = "request" => job[w].op \in {"approve", "reject", "cancel"}
  /\ pc[w] \in {"balance", "commit"} =>
       /\ job[w].op # "create"
       /\ job[w].op # "allocate" =>
            row[w] \in RequestRow /\ StatusAllows(job[w].op, row[w].status)
       /\ job[w].op = "allocate" => job[w].key \in BalanceKey
  /\ (pc[w] = "commit" /\ job[w].op \in {"approve", "allocate"})
       => bal[w] \in BalanceRow
  /\ pc[w] = "notify" => job[w].op # "allocate" /\ row[w] \in RequestRow

TypeInv == TypeOK /\ \A w \in Worker : HandlerOK(w)

-----------------------------------------------------------------------------
(* What the helpers return.                                                  *)

(* A saved balance is a balance row.                                         *)
LEMMA SavedBalanceType ==
  ASSUME NEW a \in Nat, NEW u \in Nat
  PROVE  SavedBalance(a, u) \in BalanceRow
BY DEF SavedBalance, BalanceRow

(* A request is charged to a balance of the company.                         *)
LEMMA KeyOfType ==
  ASSUME NEW req \in RequestRow
  PROVE  KeyOf(req) \in BalanceKey
BY LeaveAssumption DEF KeyOf, BalanceKey, Years, RequestRow

(* A span never has a negative or undefined number of working days.          *)
LEMMA WorkingDaysType ==
  ASSUME NEW s, NEW d
  PROVE  WorkingDaysBetween(s, d) \in Nat
<1>1. IsFiniteSet({x \in WorkingDay : s <= x /\ x <= d})
  <2>1. {x \in WorkingDay : s <= x /\ x <= d} \subseteq Day  BY LeaveAssumption
  <2>. QED  BY <2>1, LeaveAssumption, FS_Subset
<1>. QED  BY <1>1, FS_CardinalityType DEF WorkingDaysBetween

(* The call that a worker starts to serve is well typed.                     *)
LEMMA NewJobType ==
  ASSUME NEW op \in Operation, NEW u \in User, NEW r \in Request \cup {None}
  PROVE  NewJob(op, u, r) \in Job
BY DEF NewJob, Job

LEMMA LocksType ==
  ASSUME NEW e \in Employee, NEW t \in LeaveType
  PROVE  /\ ForeignKeyLocks(e, t) \subseteq Lock
         /\ JoinedLocks(e, t) \subseteq Lock
BY DEF ForeignKeyLocks, JoinedLocks, Update, Share, Lock, RowId

LEMMA BalanceLocksType ==
  ASSUME NEW k \in BalanceKey
  PROVE  BalanceLocks(k) \subseteq Lock
<1>1. k[1] \in Employee /\ k[2] \in LeaveType  BY DEF BalanceKey
<1>2. Update("balance", k) \in Lock  BY DEF Update, Lock, RowId
<1>. QED  BY <1>1, <1>2, LocksType DEF BalanceLocks

LEMMA RequestLocksType ==
  ASSUME NEW r \in Request, request[r] \in RequestRow
  PROVE  RequestLocks(r) \subseteq Lock
<1>1. request[r].employee \in Employee /\ request[r].type \in LeaveType  BY DEF RequestRow
<1>2. Update("request", r) \in Lock  BY DEF Update, Lock, RowId
<1>. QED  BY <1>1, <1>2, LocksType DEF RequestLocks

-----------------------------------------------------------------------------
(* The type invariant is inductive.                                          *)

SameHandler(x) ==
  pc'[x] = pc[x] /\ job'[x] = job[x] /\ row'[x] = row[x] /\ bal'[x] = bal[x]

(* A handler is not disturbed by steps of the others.                        *)
LEMMA Undisturbed ==
  ASSUME TypeInv, NEW x \in Worker, SameHandler(x)
  PROVE  HandlerOK(x)'
BY DEF TypeInv, HandlerOK, SameHandler

(* Init establishes it. *)
LEMMA TypeInit == Init => TypeInv
<1>. SUFFICES ASSUME Init PROVE TypeInv  OBVIOUS
<1>1. \A t \in LeaveType : leaveType[t] \in TypeRow /\ leaveType[t].allowed \in Nat
  BY LeaveAssumption DEF Init, TypeRow
<1>2. balance \in [BalanceKey -> BalanceRow \cup {None}]
  <2>. SUFFICES ASSUME NEW k \in BalanceKey, k \in OpenedBalance
                PROVE  SavedBalance(leaveType[k[2]].allowed, 0) \in BalanceRow
    BY DEF Init
  <2>1. k[2] \in LeaveType  BY DEF BalanceKey
  <2>. QED  BY <1>1, <2>1, SavedBalanceType
<1>3. TypeOK  BY <1>1, <1>2, LeaveAssumption DEF Init, TypeOK, Step
<1>. QED  BY <1>3 DEF Init, TypeInv, HandlerOK

(* A handler that ends leaves its worker idle and every table as it was.     *)
LEMMA TypeFinish ==
  ASSUME TypeInv, NEW w \in Worker, Finish(w),
         UNCHANGED <<request, audit, inbox, orgVars>>,
         balance' \in [BalanceKey -> BalanceRow \cup {None}],
         crashes' \in 0..MaxCrashes
  PROVE  TypeInv'
<1>1. TypeOK'
  BY DEF TypeInv, TypeOK, Finish, Release, orgVars, Step
<1>2. HandlerOK(w)'
  BY DEF TypeInv, TypeOK, Finish, HandlerOK
<1>3. ASSUME NEW x \in Worker, x # w PROVE HandlerOK(x)'
  <2>1. SameHandler(x)  BY <1>3 DEF Finish, SameHandler, TypeInv, TypeOK
  <2>. QED  BY <2>1, Undisturbed
<1>. QED  BY <1>1, <1>2, <1>3 DEF TypeInv

(* A step that gives worker w its next statement.                            *)
LEMMA TypeMove ==
  ASSUME TypeInv, NEW w \in Worker, TypeOK', HandlerOK(w)',
         \A x \in Worker \ {w} : SameHandler(x)
  PROVE  TypeInv'
BY Undisturbed DEF TypeInv

(* A worker that takes up a call.                                            *)
LEMMA TypeBegin ==
  ASSUME TypeInv, NEW w \in Worker, NEW j \in Job, NEW s \in Step,
         NEW locks \in SUBSET Lock,
         Begin(w, j, s, locks),
         row' \in [Worker -> RequestRow \cup {None}],
         \A x \in Worker \ {w} : row'[x] = row[x],
         UNCHANGED <<dbVars, inbox, orgVars, crashes>>
  PROVE  /\ TypeOK'
         /\ \A x \in Worker \ {w} : SameHandler(x)
         /\ pc'[w] = s /\ job'[w] = j
<1>1. TypeOK'
  BY DEF TypeInv, TypeOK, Begin, dbVars, orgVars
<1>. QED
  BY <1>1 DEF TypeInv, TypeOK, Begin, dbVars, SameHandler

LEMMA TypeCreate ==
  ASSUME TypeInv, NEW w \in Worker, NEW e \in Employee, NEW t \in LeaveType,
         NEW s \in Day, NEW d \in Day, NEW r \in Request,
         CreateRequest(w, e, t, s, d, r)
  PROVE  TypeInv'
<1> DEFINE j == [NewJob("create", e, r) EXCEPT !.manager = manager[e]]
           new == [status |-> "PENDING", employee |-> e, type |-> t,
                   start |-> s, end |-> d, days |-> WorkingDaysBetween(s, d),
                   approvedBy |-> None]
<1>1. j \in Job /\ j.op = "create" /\ j.request = r
  BY DEF NewJob, Job, TypeInv, TypeOK, User, Operation
<1>2. new \in RequestRow
  BY WorkingDaysType DEF RequestRow, Status
<1>3. {Update("employee", e)} \in SUBSET Lock
  BY DEF Update, Lock, RowId
<1>4. Begin(w, j, "overlap", {Update("employee", e)})
  BY DEF CreateRequest
<1>5. row' = [row EXCEPT ![w] = new]  BY DEF CreateRequest
<1>6. row' \in [Worker -> RequestRow \cup {None}] /\ row'[w] = new
        /\ \A x \in Worker \ {w} : row'[x] = row[x]
  BY <1>2, <1>5 DEF TypeInv, TypeOK
<1>7. UNCHANGED <<dbVars, inbox, orgVars, crashes>>  BY DEF CreateRequest
<1>8. /\ TypeOK' /\ \A x \in Worker \ {w} : SameHandler(x)
      /\ pc'[w] = "overlap" /\ job'[w] = j
  BY <1>1, <1>3, <1>4, <1>6, <1>7, TypeBegin DEF Step
<1>9. HandlerOK(w)'
  BY <1>1, <1>2, <1>6, <1>8 DEF HandlerOK
<1>. QED  BY <1>8, <1>9, TypeMove

(* Approve, Reject and Cancel start by locking the request.                  *)
LEMMA TypeDecide ==
  ASSUME TypeInv, NEW w \in Worker, NEW u \in User, NEW r \in Request,
         NEW op \in {"approve", "reject", "cancel"},
         request[r] # None,
         Begin(w, NewJob(op, u, r), "request", RequestLocks(r)),
         UNCHANGED <<dbVars, inbox, orgVars, row, crashes>>
  PROVE  TypeInv'
<1>1. NewJob(op, u, r) \in Job  BY NewJobType DEF Operation
<1>2. NewJob(op, u, r).op = op /\ NewJob(op, u, r).request = r  BY DEF NewJob
<1>3. RequestLocks(r) \in SUBSET Lock
  BY RequestLocksType DEF TypeInv, TypeOK
<1>4. row' \in [Worker -> RequestRow \cup {None}]
        /\ \A x \in Worker \ {w} : row'[x] = row[x]
  BY DEF TypeInv, TypeOK
<1>5. /\ TypeOK' /\ \A x \in Worker \ {w} : SameHandler(x)
      /\ pc'[w] = "request" /\ job'[w] = NewJob(op, u, r)
  BY <1>1, <1>3, <1>4, TypeBegin DEF Step
<1>6. HandlerOK(w)'
  BY <1>1, <1>2, <1>5 DEF HandlerOK, dbVars
<1>. QED  BY <1>5, <1>6, TypeMove

LEMMA TypeAllocate ==
  ASSUME TypeInv, NEW w \in Worker, NEW u \in User, NEW k \in BalanceKey,
         NEW n \in Allocation, AllocateBalance(w, u, k, n)
  PROVE  TypeInv'
<1> DEFINE j == [NewJob("allocate", u, None) EXCEPT !.key = k, !.allocated = n]
<1>1. j \in Job /\ j.op = "allocate" /\ j.key = k
  BY LeaveAssumption DEF NewJob, Job, Operation
<1>2. BalanceLocks(k) \in SUBSET Lock  BY BalanceLocksType
<1>3. row' \in [Worker -> RequestRow \cup {None}]
        /\ \A x \in Worker \ {w} : row'[x] = row[x]
  BY DEF AllocateBalance, TypeInv, TypeOK
<1>4. /\ TypeOK' /\ \A x \in Worker \ {w} : SameHandler(x)
      /\ pc'[w] = "balance" /\ job'[w] = j
  BY <1>1, <1>2, <1>3, TypeBegin DEF Step, AllocateBalance
<1>5. HandlerOK(w)'
  BY <1>1, <1>4 DEF HandlerOK, JobKey, AllocateBalance, dbVars
<1>. QED  BY <1>4, <1>5, TypeMove

LEMMA TypeAcquire ==
  ASSUME TypeInv, NEW w \in Worker, Acquire(w)
  PROVE  TypeInv'
<1>1. TypeOK'  BY DEF TypeInv, TypeOK, Acquire, dbVars, orgVars
<1>2. \A x \in Worker : SameHandler(x)  BY DEF Acquire, SameHandler
<1>. QED  BY <1>1, <1>2, Undisturbed DEF TypeInv

(* A handler that goes on to its next statement inside the transaction.      *)
LEMMA TypeGoto ==
  ASSUME TypeInv, NEW w \in Worker, NEW s \in Step, NEW locks \in SUBSET Lock,
         Goto(w, s, locks),
         job' \in [Worker -> Job \cup {None}],
         row' \in [Worker -> RequestRow \cup {None}],
         bal' \in [Worker -> BalanceRow \cup {None}],
         \A x \in Worker \ {w} :
           job'[x] = job[x] /\ row'[x] = row[x] /\ bal'[x] = bal[x],
         HandlerOK(w)',
         UNCHANGED <<dbVars, inbox, orgVars, crashes>>
  PROVE  TypeInv'
<1>1. TypeOK'  BY DEF TypeInv, TypeOK, Goto, dbVars, orgVars
<1>2. \A x \in Worker \ {w} : SameHandler(x)
  BY DEF Goto, SameHandler, TypeInv, TypeOK
<1>. QED  BY <1>1, <1>2, TypeMove

LEMMA TypeFinishQuietly ==
  ASSUME TypeInv, NEW w \in Worker, Finish(w),
         UNCHANGED <<dbVars, inbox, orgVars>>, crashes' \in 0..MaxCrashes
  PROVE  TypeInv'
BY TypeFinish DEF TypeInv, TypeOK, dbVars

LEMMA TypeCheckOverlap ==
  ASSUME TypeInv, NEW w \in Worker, CheckOverlap(w)
  PROVE  TypeInv'
<1>1. pc[w] = "overlap" /\ HandlerOK(w)
  BY DEF CheckOverlap, At, TypeInv
<1>2. row[w] \in RequestRow  BY <1>1 DEF HandlerOK
<1>3. CASE row[w].employee \in staff /\ OverlappingRequests(row[w]) = {}
  <2>1. ForeignKeyLocks(row[w].employee, row[w].type) \in SUBSET Lock
    BY <1>2, LocksType DEF RequestRow
  <2>2. Goto(w, "insert", ForeignKeyLocks(row[w].employee, row[w].type))
          /\ UNCHANGED <<job, row, bal>>
    BY <1>3 DEF CheckOverlap
  <2>3. pc'[w] = "insert"  BY <2>2 DEF Goto, TypeInv, TypeOK
  <2>4. HandlerOK(w)'  BY <1>1, <2>2, <2>3 DEF HandlerOK
  <2>5. UNCHANGED <<dbVars, inbox, orgVars, crashes>>  BY DEF CheckOverlap
  <2>6. "insert" \in Step  BY DEF Step
  <2>. HIDE DEF OverlappingRequests
  <2>7. job' \in [Worker -> Job \cup {None}] /\ row' \in [Worker -> RequestRow \cup {None}]
          /\ bal' \in [Worker -> BalanceRow \cup {None}]
    BY <2>2 DEF TypeInv, TypeOK
  <2>. QED  BY <2>1, <2>2, <2>4, <2>5, <2>6, <2>7, TypeGoto
<1>4. CASE ~(row[w].employee \in staff /\ OverlappingRequests(row[w]) = {})
  <2>1. Finish(w) /\ UNCHANGED <<dbVars, inbox, orgVars, crashes>>
    BY <1>4 DEF CheckOverlap
  <2>. QED  BY <2>1, TypeFinishQuietly DEF TypeInv, TypeOK
<1>. QED  BY <1>3, <1>4

LEMMA TypeReadRequest ==
  ASSUME TypeInv, NEW w \in Worker, ReadRequest(w)
  PROVE  TypeInv'
<1> DEFINE op == job[w].op
           req == request[job[w].request]
           k == KeyOf(req)
<1>1. pc[w] = "request" /\ HandlerOK(w)  BY DEF ReadRequest, At, TypeInv
<1>2. /\ job[w] \in Job /\ op \in {"approve", "reject", "cancel"}
      /\ job[w].request \in Request
  BY <1>1 DEF HandlerOK
<1>3. req # None => req \in RequestRow  BY <1>2 DEF TypeInv, TypeOK
<1>4. req # None => k \in BalanceKey  BY <1>3, KeyOfType
<1>5. UNCHANGED <<dbVars, inbox, orgVars, crashes>>  BY DEF ReadRequest
<1>6. CASE /\ req # None
           /\ StatusAllows(op, req.status)
           /\ ~(op = "approve" /\ balance[k] = None)
           /\ row' = [row EXCEPT ![w] = req]
           /\ job' = [job EXCEPT ![w].manager = manager[req.employee]]
           /\ IF NeedsBalance(op, req) /\ balance[k] # None
                THEN Goto(w, "balance", BalanceLocks(k))
                ELSE Goto(w, "commit", {})
           /\ UNCHANGED bal
  <2>0. req \in RequestRow /\ k \in BalanceKey  BY <1>3, <1>4, <1>6
  <2>1. row' \in [Worker -> RequestRow \cup {None}] /\ row'[w] = req
          /\ \A x \in Worker \ {w} : row'[x] = row[x]
    BY <1>6, <2>0 DEF TypeInv, TypeOK
  <2>2. manager[req.employee] \in Employee \cup {None}
    BY <2>0 DEF RequestRow, TypeInv, TypeOK
  <2>3. /\ job' \in [Worker -> Job \cup {None}]
        /\ job'[w] \in Job /\ job'[w].op = op /\ job'[w].request = job[w].request
        /\ \A x \in Worker \ {w} : job'[x] = job[x]
    <3>1. [job[w] EXCEPT !.manager = manager[req.employee]] \in Job
      BY <1>2, <2>2 DEF Job
    <3>2. /\ [job[w] EXCEPT !.manager = manager[req.employee]].op = op
          /\ [job[w] EXCEPT !.manager = manager[req.employee]].request = job[w].request
      BY <1>2 DEF Job
    <3>3. job' = [job EXCEPT ![w] = [job[w] EXCEPT !.manager = manager[req.employee]]]
      BY <1>6
    <3>. HIDE DEF op, req
    <3>. QED  BY <3>1, <3>2, <3>3 DEF TypeInv, TypeOK
  <2>4. bal' \in [Worker -> BalanceRow \cup {None}] /\ \A x \in Worker : bal'[x] = bal[x]
    BY <1>6 DEF TypeInv, TypeOK
  <2>5. CASE Goto(w, "balance", BalanceLocks(k)) /\ balance[k] # None
    <3>1. pc'[w] = "balance"  BY <2>5 DEF Goto, TypeInv, TypeOK
    <3>2. HandlerOK(w)'
      BY <1>2, <1>6, <2>0, <2>1, <2>3, <3>1 DEF HandlerOK
    <3>3. BalanceLocks(k) \in SUBSET Lock  BY <2>0, BalanceLocksType
    <3>4. "balance" \in Step  BY DEF Step
    <3>. QED  BY <1>5, <2>1, <2>3, <2>4, <2>5, <3>2, <3>3, <3>4, TypeGoto
  <2>6. CASE Goto(w, "commit", {}) /\ op # "approve"
    <3>1. pc'[w] = "commit"  BY <2>6 DEF Goto, TypeInv, TypeOK
    <3>2. HandlerOK(w)'
      BY <1>2, <1>6, <2>0, <2>1, <2>3, <2>6, <3>1 DEF HandlerOK
    <3>3. "commit" \in Step /\ {} \in SUBSET Lock  BY DEF Step
    <3>. QED  BY <1>5, <2>1, <2>3, <2>4, <2>6, <3>2, <3>3, TypeGoto
  <2>. QED  BY <1>6, <2>5, <2>6 DEF NeedsBalance
<1>7. CASE Finish(w)
  BY <1>5, <1>7, TypeFinishQuietly DEF TypeInv, TypeOK
<1>. QED  BY <1>6, <1>7 DEF ReadRequest

LEMMA TypeReadBalance ==
  ASSUME TypeInv, NEW w \in Worker, ReadBalance(w)
  PROVE  TypeInv'
<1> DEFINE b == balance[JobKey(w)]
<1>1. pc[w] = "balance" /\ HandlerOK(w)  BY DEF ReadBalance, At, TypeInv
<1>2. JobKey(w) \in BalanceKey  BY <1>1, KeyOfType DEF HandlerOK, JobKey
<1>3. b # None => b \in BalanceRow  BY <1>2 DEF TypeInv, TypeOK
<1>4. UNCHANGED <<dbVars, inbox, orgVars, crashes>>  BY DEF ReadBalance
<1>5. CASE b # None /\ BalanceAllows(job[w], row[w], b)
  <2>1. bal' = [bal EXCEPT ![w] = b] /\ Goto(w, "commit", {}) /\ UNCHANGED <<job, row>>
    BY <1>5 DEF ReadBalance
  <2>2. bal' \in [Worker -> BalanceRow \cup {None}] /\ bal'[w] = b
          /\ \A x \in Worker \ {w} : bal'[x] = bal[x]
    BY <1>3, <1>5, <2>1 DEF TypeInv, TypeOK
  <2>3. pc'[w] = "commit"  BY <2>1 DEF Goto, TypeInv, TypeOK
  <2>4. HandlerOK(w)'
    BY <1>1, <1>3, <1>5, <2>1, <2>2, <2>3 DEF HandlerOK
  <2>5. job' \in [Worker -> Job \cup {None}] /\ row' \in [Worker -> RequestRow \cup {None}]
    BY <2>1 DEF TypeInv, TypeOK
  <2>6. "commit" \in Step /\ {} \in SUBSET Lock  BY DEF Step
  <2>. QED  BY <1>4, <2>1, <2>2, <2>4, <2>5, <2>6, TypeGoto
<1>6. CASE ~(b # None /\ BalanceAllows(job[w], row[w], b))
  <2>1. Finish(w)  BY <1>6 DEF ReadBalance
  <2>. QED  BY <1>4, <2>1, TypeFinishQuietly DEF TypeInv, TypeOK
<1>. QED  BY <1>5, <1>6

(* A committed write: one request row, possibly one balance row.             *)
LEMMA TypeCommit ==
  ASSUME TypeInv, NEW w \in Worker, NEW r \in Request, NEW new \in RequestRow,
         NEW action \in AuditAction,
         pc[w] # "idle", job[w].op # "allocate", r = job[w].request,
         Commit(w, r, action),
         request' = [request EXCEPT ![r] = new],
         row' = [row EXCEPT ![w] = new],
         balance' \in [BalanceKey -> BalanceRow \cup {None}]
  PROVE  TypeInv'
<1>1. TypeOK'
  <2>1. audit' \in [Request -> Seq(AuditAction)]
    <3>1. Append(audit[r], action) \in Seq(AuditAction)  BY DEF TypeInv, TypeOK
    <3>. QED  BY <3>1 DEF TypeInv, TypeOK, Commit
  <2>2. request' \in [Request -> RequestRow \cup {None}]
          /\ row' \in [Worker -> RequestRow \cup {None}]
    BY DEF TypeInv, TypeOK
  <2>. QED  BY <2>1, <2>2 DEF TypeInv, TypeOK, Commit, Release, orgVars, Step
<1>2. \A x \in Worker \ {w} : SameHandler(x)
  BY DEF TypeInv, TypeOK, Commit, SameHandler
<1>3. HandlerOK(w)'
  <2>1. pc'[w] = "notify" /\ job' = job /\ row'[w] = new
    BY DEF Commit, TypeInv, TypeOK
  <2>. QED  BY <2>1 DEF HandlerOK, TypeInv
<1>. QED  BY <1>1, <1>2, <1>3, TypeMove

LEMMA TypeInsertRequest ==
  ASSUME TypeInv, NEW w \in Worker, InsertRequest(w)
  PROVE  TypeInv'
<1>1. pc[w] = "insert" /\ HandlerOK(w)  BY DEF InsertRequest, At, TypeInv
<1>2. row[w] \in RequestRow /\ job[w].request \in Request /\ job[w].op = "create"
  BY <1>1 DEF HandlerOK
<1>3. row' = [row EXCEPT ![w] = row[w]]  BY DEF InsertRequest, TypeInv, TypeOK
<1>4. balance' \in [BalanceKey -> BalanceRow \cup {None}] /\ balance' = balance
  BY DEF InsertRequest, TypeInv, TypeOK
<1>5. "SUBMITTED" \in AuditAction  BY DEF AuditAction
<1>. QED  BY <1>1, <1>2, <1>3, <1>4, <1>5, TypeCommit DEF InsertRequest

(* What a decision finds when it commits.                                    *)
LEMMA AtCommit ==
  ASSUME TypeInv, NEW w \in Worker, At(w, "commit"), job[w].op # "allocate"
  PROVE  /\ pc[w] = "commit" /\ job[w] \in Job /\ job[w].op # "create"
         /\ job[w].request \in Request /\ row[w] \in RequestRow
         /\ KeyOf(row[w]) \in BalanceKey
BY KeyOfType DEF At, HandlerOK, TypeInv

LEMMA TypeApproveCommit ==
  ASSUME TypeInv, NEW w \in Worker, ApproveCommit(w)
  PROVE  TypeInv'
<1> DEFINE saved == SavedBalance(bal[w].allocated, bal[w].used + row[w].days)
           new == [row[w] EXCEPT !.status = "APPROVED", !.approvedBy = job[w].actor]
<1>1. At(w, "commit") /\ job[w].op = "approve"  BY DEF ApproveCommit
<1>2. /\ pc[w] = "commit" /\ job[w] \in Job /\ job[w].request \in Request
      /\ row[w] \in RequestRow /\ KeyOf(row[w]) \in BalanceKey
  BY <1>1, AtCommit
<1>3. bal[w] \in BalanceRow  BY <1>1, <1>2 DEF TypeInv, HandlerOK
<1>4. saved \in BalanceRow
  <2>1. bal[w].allocated \in Nat /\ bal[w].used + row[w].days \in Nat
    BY <1>2, <1>3 DEF BalanceRow, RequestRow
  <2>. QED  BY <2>1, SavedBalanceType
<1>5. new \in RequestRow
  BY <1>2 DEF RequestRow, Job, Status
<1>6. CASE ValidBalance(saved)
  <2>1. /\ balance' = [balance EXCEPT ![KeyOf(row[w])] = saved]
        /\ row' = [row EXCEPT ![w].status = "APPROVED", ![w].approvedBy = job[w].actor]
        /\ request' = [request EXCEPT ![job[w].request] = row'[w]]
        /\ Commit(w, job[w].request, "APPROVED")
    BY <1>6 DEF ApproveCommit
  <2>2. row' = [row EXCEPT ![w] = new] /\ row'[w] = new
    BY <1>2, <2>1 DEF TypeInv, TypeOK, RequestRow
  <2>3. balance' \in [BalanceKey -> BalanceRow \cup {None}]
    BY <1>2, <1>4, <2>1 DEF TypeInv, TypeOK
  <2>4. "APPROVED" \in AuditAction  BY DEF AuditAction
  <2>. HIDE DEF new, saved
  <2>. QED  BY <1>1, <1>2, <1>5, <2>1, <2>2, <2>3, <2>4, TypeCommit
<1>7. CASE ~ValidBalance(saved)
  <2>1. Finish(w) /\ UNCHANGED <<dbVars, inbox, orgVars, crashes>>
    BY <1>7 DEF ApproveCommit, RaiseFromSave
  <2>. QED  BY <2>1, TypeFinishQuietly DEF TypeInv, TypeOK
<1>. QED  BY <1>6, <1>7

LEMMA TypeRejectCommit ==
  ASSUME TypeInv, NEW w \in Worker, RejectCommit(w)
  PROVE  TypeInv'
<1> DEFINE new == [row[w] EXCEPT !.status = "REJECTED", !.approvedBy = job[w].actor]
<1>1. At(w, "commit") /\ job[w].op = "reject"  BY DEF RejectCommit
<1>2. /\ pc[w] = "commit" /\ job[w] \in Job /\ job[w].request \in Request
      /\ row[w] \in RequestRow
  BY <1>1, AtCommit
<1>3. new \in RequestRow
  BY <1>2 DEF RequestRow, Job, Status
<1>4. row' = [row EXCEPT ![w] = new] /\ row'[w] = new
  BY <1>2 DEF RejectCommit, TypeInv, TypeOK, RequestRow
<1>5. balance' \in [BalanceKey -> BalanceRow \cup {None}] /\ balance' = balance
  BY DEF RejectCommit, TypeInv, TypeOK
<1>6. "REJECTED" \in AuditAction  BY DEF AuditAction
<1>7. request' = [request EXCEPT ![job[w].request] = new]
        /\ Commit(w, job[w].request, "REJECTED")
  BY <1>4 DEF RejectCommit
<1>. HIDE DEF new
<1>. QED  BY <1>1, <1>2, <1>3, <1>4, <1>5, <1>6, <1>7, TypeCommit

LEMMA TypeCancelCommit ==
  ASSUME TypeInv, NEW w \in Worker, CancelCommit(w)
  PROVE  TypeInv'
<1> DEFINE new == [row[w] EXCEPT !.status = "CANCELLED"]
<1>1. At(w, "commit") /\ job[w].op = "cancel"  BY DEF CancelCommit
<1>2. /\ pc[w] = "commit" /\ job[w] \in Job /\ job[w].request \in Request
      /\ row[w] \in RequestRow /\ KeyOf(row[w]) \in BalanceKey
  BY <1>1, AtCommit
<1>3. new \in RequestRow  BY <1>2 DEF RequestRow, Status
<1>4. row' = [row EXCEPT ![w] = new] /\ row'[w] = new
  BY <1>2 DEF CancelCommit, TypeInv, TypeOK, RequestRow
<1>5. balance' \in [BalanceKey -> BalanceRow \cup {None}]
  <2>1. CASE bal[w] = None
    BY <2>1 DEF CancelCommit, TypeInv, TypeOK
  <2>2. CASE bal[w] # None
    <3> DEFINE restore == IF row[w].days <= bal[w].used THEN row[w].days ELSE bal[w].used
               saved == SavedBalance(bal[w].allocated, bal[w].used - restore)
    <3>1. bal[w] \in BalanceRow  BY <2>2 DEF TypeInv, TypeOK
    <3>2. bal[w].allocated \in Nat /\ bal[w].used - restore \in Nat
      BY <1>2, <3>1 DEF BalanceRow, RequestRow
    <3>3. saved \in BalanceRow  BY <3>2, SavedBalanceType
    <3>4. balance' = [balance EXCEPT ![KeyOf(row[w])] = saved]
      BY <2>2 DEF CancelCommit, RestoreBalance
    <3>. HIDE DEF saved
    <3>. QED  BY <1>2, <3>3, <3>4 DEF TypeInv, TypeOK
  <2>. QED  BY <2>1, <2>2
<1>6. "CANCELLED" \in AuditAction  BY DEF AuditAction
<1>7. request' = [request EXCEPT ![job[w].request] = new]
        /\ Commit(w, job[w].request, "CANCELLED")
  BY <1>4 DEF CancelCommit
<1>. HIDE DEF new
<1>. QED  BY <1>1, <1>2, <1>3, <1>4, <1>5, <1>6, <1>7, TypeCommit

LEMMA TypeAllocateCommit ==
  ASSUME TypeInv, NEW w \in Worker, AllocateCommit(w)
  PROVE  TypeInv'
<1> DEFINE saved == SavedBalance(job[w].allocated, bal[w].used)
<1>1. /\ pc[w] = "commit" /\ job[w] \in Job /\ job[w].key \in BalanceKey
      /\ bal[w] \in BalanceRow
  BY DEF AllocateCommit, At, TypeInv, HandlerOK
<1>2. saved \in BalanceRow
  <2>1. job[w].allocated \in Nat /\ bal[w].used \in Nat  BY <1>1 DEF Job, BalanceRow
  <2>. QED  BY <2>1, SavedBalanceType
<1>3. balance' = [balance EXCEPT ![job[w].key] = saved] \/ balance' = balance
  BY DEF AllocateCommit
<1>4. Finish(w) /\ UNCHANGED <<request, audit, inbox, orgVars, crashes>>
  BY DEF AllocateCommit
<1>. HIDE DEF saved
<1>5. balance' \in [BalanceKey -> BalanceRow \cup {None}]
  <2>1. CASE balance' = balance  BY <2>1 DEF TypeInv, TypeOK
  <2>2. CASE balance' = [balance EXCEPT ![job[w].key] = saved]
    BY <1>1, <1>2, <2>2 DEF TypeInv, TypeOK
  <2>. QED  BY <1>3, <2>1, <2>2
<1>. QED  BY <1>4, <1>5, TypeFinish DEF TypeInv, TypeOK

LEMMA TypeNotify ==
  ASSUME TypeInv, NEW w \in Worker, Notify(w)
  PROVE  TypeInv'
<1> DEFINE sent == {[event |-> EventOf(row[w].status), request |-> job[w].request,
                     to |-> u] : u \in Recipients(w)}
<1>1. /\ job[w] \in Job /\ job[w].request \in Request /\ row[w] \in RequestRow
  BY DEF Notify, At, TypeInv, HandlerOK
<1>2. Recipients(w) \subseteq User
  <2>1. LeaveApprovers(w) \subseteq User
    BY <1>1 DEF LeaveApprovers, Job, User
  <2>2. row[w].status \in Status /\ {row[w].employee} \subseteq User
    BY <1>1 DEF RequestRow, User
  <2>. QED  BY <2>1, <2>2 DEF Recipients, Status
<1>3. EventOf(row[w].status) \in AuditAction
  BY <1>1 DEF EventOf, AuditAction, RequestRow, Status
<1>4. sent \subseteq Notification
  BY <1>1, <1>2, <1>3 DEF Notification
<1>5. inbox' \subseteq Notification
  BY <1>4 DEF Notify, TypeInv, TypeOK
<1>6. Finish(w) /\ UNCHANGED <<dbVars, orgVars, crashes>>  BY DEF Notify
<1>7. TypeOK'
  BY <1>5, <1>6 DEF TypeInv, TypeOK, Finish, Release, dbVars, orgVars, Step
<1>8. \A x \in Worker \ {w} : SameHandler(x)
  BY <1>6 DEF Finish, SameHandler, TypeInv, TypeOK
<1>9. HandlerOK(w)'
  BY <1>6 DEF TypeInv, TypeOK, Finish, HandlerOK
<1>. QED  BY <1>7, <1>8, <1>9, TypeMove

(* The company's own changes touch no handler.                               *)
LEMMA TypeOrganisation ==
  ASSUME TypeInv, Organisation
  PROVE  TypeInv'
<1>1. UNCHANGED <<request, audit, inbox, staff, handlerVars, crashes>>
  BY DEF Organisation, UpdateLeaveType, ChangeManager, NextDay, EnsureBalancesForYear,
         GetOrCreateBalance, dbVars
<1>2. \A x \in Worker : SameHandler(x)  BY <1>1 DEF SameHandler, handlerVars
<1>3. SUFFICES TypeOK'
  BY <1>2, Undisturbed DEF TypeInv
<1>4. CASE \E t \in LeaveType, edit \in TypeEdit : UpdateLeaveType(t, edit)
  <2>1. TypeEdit \subseteq TypeRow  BY LeaveAssumption DEF TypeRow
  <2>2. leaveType' \in [LeaveType -> TypeRow]
    BY <1>4, <2>1 DEF UpdateLeaveType, TypeInv, TypeOK
  <2>3. UNCHANGED <<balance, manager, today, batch>>
    BY <1>4 DEF UpdateLeaveType, dbVars
  <2>. QED  BY <1>1, <2>2, <2>3 DEF TypeInv, TypeOK, handlerVars
<1>5. CASE \E line \in ReportingLine : ChangeManager(line[1], line[2])
  <2>1. PICK line \in ReportingLine : ChangeManager(line[1], line[2])  BY <1>5
  <2>2. line[1] \in Employee /\ line[2] \in Employee \cup {None}  BY LeaveAssumption
  <2>3. manager' \in [Employee -> Employee \cup {None}]
    BY <2>1, <2>2 DEF ChangeManager, TypeInv, TypeOK
  <2>4. UNCHANGED <<balance, leaveType, today, batch>>
    BY <2>1 DEF ChangeManager, dbVars
  <2>. QED  BY <1>1, <2>3, <2>4 DEF TypeInv, TypeOK, handlerVars
<1>6. CASE NextDay
  <2>1. UNCHANGED <<balance, leaveType, manager, batch>> /\ today' \in Day
    BY <1>6 DEF NextDay, dbVars
  <2>. QED  BY <1>1, <2>1 DEF TypeInv, TypeOK, handlerVars
<1>7. CASE \E y \in BatchYear : EnsureBalancesForYear(y)
  <2>1. \A k \in BalanceKey : leaveType[k[2]].allowed \in Nat
    BY DEF BalanceKey, TypeInv, TypeOK, TypeRow
  <2>2. batch' \subseteq BalanceKey \X Nat
    BY <1>7, <2>1 DEF EnsureBalancesForYear
  <2>3. UNCHANGED <<balance, leaveType, manager, today>>
    BY <1>7 DEF EnsureBalancesForYear, dbVars
  <2>. QED  BY <1>1, <2>2, <2>3 DEF TypeInv, TypeOK, handlerVars
<1>8. CASE \E entry \in batch : GetOrCreateBalance(entry[1], entry[2])
  <2>1. PICK entry \in batch : GetOrCreateBalance(entry[1], entry[2])  BY <1>8
  <2> DEFINE new == SavedBalance(entry[2], 0)
  <2>2. entry[1] \in BalanceKey /\ entry[2] \in Nat  BY DEF TypeInv, TypeOK
  <2>3. new \in BalanceRow  BY <2>2, SavedBalanceType
  <2>4. UNCHANGED <<leaveType, manager, today>> /\ batch' \subseteq batch
    BY <2>1 DEF GetOrCreateBalance
  <2>5. balance' = balance \/ balance' = [balance EXCEPT ![entry[1]] = new]
    BY <2>1 DEF GetOrCreateBalance
  <2>. HIDE DEF new
  <2>6. balance' \in [BalanceKey -> BalanceRow \cup {None}]
    <3>1. CASE balance' = balance  BY <3>1 DEF TypeInv, TypeOK
    <3>2. CASE balance' = [balance EXCEPT ![entry[1]] = new]
      BY <2>2, <2>3, <3>2 DEF TypeInv, TypeOK
    <3>. QED  BY <2>5, <3>1, <3>2
  <2>. QED  BY <1>1, <2>4, <2>6 DEF TypeInv, TypeOK, handlerVars
<1>. QED  BY <1>4, <1>5, <1>6, <1>7, <1>8 DEF Organisation

(* Nor does the deletion of an employee, which only removes rows.            *)
LEMMA TypeDelete ==
  ASSUME TypeInv, NEW e \in Leaver, DeleteEmployee(e)
  PROVE  TypeInv'
<1>1. UNCHANGED <<audit, inbox, leaveType, today, batch, handlerVars, crashes>>
  BY DEF DeleteEmployee
<1>2. \A x \in Worker : SameHandler(x)  BY <1>1 DEF SameHandler, handlerVars
<1>3. request' \in [Request -> RequestRow \cup {None}]
  BY DEF DeleteEmployee, TypeInv, TypeOK
<1>4. balance' \in [BalanceKey -> BalanceRow \cup {None}]
  BY DEF DeleteEmployee, TypeInv, TypeOK
<1>5. staff' \subseteq Employee /\ manager' \in [Employee -> Employee \cup {None}]
  BY DEF DeleteEmployee, TypeInv, TypeOK
<1>6. TypeOK'  BY <1>1, <1>3, <1>4, <1>5 DEF TypeInv, TypeOK, handlerVars
<1>. QED  BY <1>2, <1>6, Undisturbed DEF TypeInv

LEMMA TypeStep == TypeInv /\ [Next]_vars => TypeInv'
<1>. SUFFICES ASSUME TypeInv, [Next]_vars PROVE TypeInv'  OBVIOUS
<1>1. ASSUME NEW w \in Worker, Call(w) PROVE TypeInv'
  <2>1. ASSUME NEW e \in Submitter, NEW t \in LeaveType, NEW s \in Span,
               NEW r \in Request, CreateRequest(w, e, t, s[1], s[2], r)
        PROVE  TypeInv'
    <3>1. e \in Employee /\ s[1] \in Day /\ s[2] \in Day  BY LeaveAssumption
    <3>. QED  BY <2>1, <3>1, TypeCreate
  <2>2. ASSUME NEW u \in User, NEW r \in Request,
               Approve(w, u, r) \/ Reject(w, u, r) \/ Cancel(w, u, r)
        PROVE  TypeInv'
    BY <2>2, TypeDecide DEF Approve, Reject, Cancel
  <2>3. ASSUME NEW u \in User, NEW k \in BalanceKey, NEW n \in Allocation,
               AllocateBalance(w, u, k, n)
        PROVE  TypeInv'
    BY <2>3, TypeAllocate
  <2>. QED  BY <1>1, <2>1, <2>2, <2>3 DEF Call
<1>2. ASSUME NEW w \in Worker, Proceed(w) PROVE TypeInv'
  BY <1>2, TypeCheckOverlap, TypeInsertRequest, TypeReadRequest, TypeReadBalance,
     TypeApproveCommit, TypeRejectCommit, TypeCancelCommit, TypeAllocateCommit,
     TypeNotify DEF Proceed
<1>3. ASSUME NEW w \in Worker, DeadlockAbort(w) \/ Crash(w) PROVE TypeInv'
  <2>1. crashes' \in 0..MaxCrashes
    BY <1>3, LeaveAssumption DEF DeadlockAbort, Crash, TypeInv, TypeOK
  <2>. QED  BY <1>3, <2>1, TypeFinishQuietly DEF DeadlockAbort, Crash
<1>4. CASE UNCHANGED vars
  <2>1. \A x \in Worker : SameHandler(x)
    BY <1>4 DEF vars, handlerVars, SameHandler
  <2>2. TypeOK'
    BY <1>4 DEF vars, dbVars, orgVars, handlerVars, TypeInv, TypeOK
  <2>. QED  BY <2>1, <2>2, Undisturbed DEF TypeInv
<1>. QED  BY <1>1, <1>2, <1>3, <1>4, TypeAcquire, TypeOrganisation, TypeDelete DEF Next

(* Every reachable state is well typed, and every handler has in memory what *)
(* its next statement needs, also when rows of the tables go meanwhile.      *)
THEOREM TypeCorrect == Spec => [](TypeOK /\ \A w \in Worker : HandlerOK(w))
<1>1. Spec => []TypeInv  BY TypeInit, TypeStep, PTL DEF Spec
<1>. QED  BY <1>1, PTL DEF TypeInv
-----------------------------------------------------------------------------

(* Two transactions never hold conflicting locks.                            *)
Exclusion ==
  \A v, w \in Worker : v # w =>
    \A l \in held[v], m \in held[w] : ~Conflict(l, m)

(* What worker w has locked, and that the rows it read are still current.    *)
WorkerInv(w) ==
  /\ pc[w] \notin {"commit", "notify"} => bal[w] = None
  /\ pc[w] = "overlap" => Update("employee", row[w].employee) \in held[w] \cup want[w]
  /\ pc[w] = "insert" => Update("employee", row[w].employee) \in held[w]
  /\ pc[w] = "request" => Update("request", job[w].request) \in held[w] \cup want[w]
  /\ (pc[w] \in {"balance", "commit"} /\ job[w].op # "allocate") =>
       /\ Update("request", job[w].request) \in held[w]
       /\ row[w] = request[job[w].request]
  /\ pc[w] = "balance" => Update("balance", JobKey(w)) \in held[w] \cup want[w]
  /\ (pc[w] = "commit" /\ bal[w] # None) =>
       /\ Update("balance", JobKey(w)) \in held[w]
       /\ bal[w] = balance[JobKey(w)]
  /\ pc[w] = "commit" =>
       /\ job[w].op = "approve" => bal[w].used + row[w].days <= bal[w].allocated
       /\ job[w].op = "allocate" => bal[w].used <= job[w].allocated

(* The row a create handler will insert is its own, and its id is new.       *)
Fresh(w) ==
  pc[w] \in {"overlap", "insert"} =>
    /\ request[job[w].request] = None /\ audit[job[w].request] = <<>>
    /\ \A v \in Worker \ {w} : pc[v] # "idle" => job[v].request # job[w].request

(* The overlap query that a create handler ran is still true when it inserts. *)
NoClash(w) == pc[w] = "insert" => OverlappingRequests(row[w]) = {}

(* The stored remaining_days never drifts from the other two columns.        *)
RemainingIsCast ==
  \A k \in BalanceKey : balance[k] # None =>
    balance[k].remaining = balance[k].allocated - balance[k].used

SafeInv ==
  /\ TypeInv
  /\ Exclusion
  /\ \A w \in Worker : WorkerInv(w) /\ Fresh(w) /\ NoClash(w)
  /\ RemainingIsCast
  /\ NoOverlap

WorkerStep(w) ==
  Call(w) \/ Acquire(w) \/ Proceed(w) \/ DeadlockAbort(w) \/ Crash(w)

-----------------------------------------------------------------------------
(* What a step of a worker may change.                                       *)

(* A call begins one handler and changes no table.                           *)
LEMMA CallBegins ==
  ASSUME NEW w \in Worker, Call(w)
  PROVE  /\ \E at \in {"overlap", "request", "balance"} : \E j, locks : Begin(w, j, at, locks)
         /\ row' = row \/ \E new : row' = [row EXCEPT ![w] = new]
         /\ UNCHANGED <<dbVars, orgVars>>
<1>. DEFINE Begins == \E at \in {"overlap", "request", "balance"} :
                        \E j, locks : Begin(w, j, at, locks)
            RowKept == row' = row \/ \E new : row' = [row EXCEPT ![w] = new]
<1>1. ASSUME NEW e \in Submitter, NEW t \in LeaveType, NEW s \in Span, NEW r \in Request,
             CreateRequest(w, e, t, s[1], s[2], r)
      PROVE  Begins /\ RowKept /\ UNCHANGED <<dbVars, orgVars>>
  <2>1. Begins
    <3>. DEFINE J == [NewJob("create", e, r) EXCEPT !.manager = manager[e]]
    <3>1. Begin(w, J, "overlap", {Update("employee", e)})  BY <1>1 DEF CreateRequest
    <3>. HIDE DEF J
    <3>. QED  BY <3>1
  <2>. QED  BY <1>1, <2>1 DEF CreateRequest
<1>2. ASSUME NEW u \in User, NEW r \in Request,
             Approve(w, u, r) \/ Reject(w, u, r) \/ Cancel(w, u, r)
      PROVE  Begins /\ RowKept /\ UNCHANGED <<dbVars, orgVars>>
  <2>1. Begins
    <3>1. \E op \in {"approve", "reject", "cancel"} :
            Begin(w, NewJob(op, u, r), "request", RequestLocks(r))
      BY <1>2 DEF Approve, Reject, Cancel
    <3>. QED  BY <3>1
  <2>. QED  BY <1>2, <2>1 DEF Approve, Reject, Cancel
<1>3. ASSUME NEW u \in User, NEW k \in BalanceKey, NEW n \in Allocation,
             AllocateBalance(w, u, k, n)
      PROVE  Begins /\ RowKept /\ UNCHANGED <<dbVars, orgVars>>
  <2>1. Begins
    <3>. DEFINE J == [NewJob("allocate", u, None) EXCEPT !.key = k, !.allocated = n]
    <3>1. Begin(w, J, "balance", BalanceLocks(k))  BY <1>3 DEF AllocateBalance
    <3>. HIDE DEF J
    <3>. QED  BY <3>1
  <2>. QED  BY <1>3, <2>1 DEF AllocateBalance
<1>. HIDE DEF Begins, RowKept
<1>4. Begins /\ RowKept /\ UNCHANGED <<dbVars, orgVars>>
  BY <1>1, <1>2, <1>3 DEF Call
<1>. QED  BY <1>4 DEF Begins, RowKept

(* Other workers keep their handlers and their locks.                        *)
LEMMA Locality ==
  ASSUME TypeInv, NEW w \in Worker, WorkerStep(w), NEW x \in Worker, x # w
  PROVE  SameHandler(x) /\ held'[x] = held[x] /\ want'[x] = want[x]
<1>1. CASE Call(w)
  <2>1. /\ \E j, at, locks : Begin(w, j, at, locks)
        /\ row' = row \/ \E new : row' = [row EXCEPT ![w] = new]
    BY <1>1, CallBegins
  <2>. QED  BY <2>1 DEF Begin, SameHandler, TypeInv, TypeOK
<1>2. CASE Acquire(w)
  BY <1>2 DEF Acquire, SameHandler, TypeInv, TypeOK
<1>3. CASE DeadlockAbort(w) \/ Crash(w)
  BY <1>3 DEF DeadlockAbort, Crash, Finish, Release, SameHandler, TypeInv, TypeOK
<1>4. CASE Proceed(w)
  <2>1. CASE CheckOverlap(w) \/ ReadBalance(w)
    BY <2>1 DEF CheckOverlap, ReadBalance, Goto, Finish, Release, SameHandler,
           TypeInv, TypeOK
  <2>2. CASE ReadRequest(w)
    BY <2>2 DEF ReadRequest, Goto, Finish, Release, SameHandler, TypeInv, TypeOK
  <2>3. CASE InsertRequest(w) \/ RejectCommit(w) \/ CancelCommit(w)
    BY <2>3 DEF InsertRequest, RejectCommit, CancelCommit, Commit, Release,
           SameHandler, TypeInv, TypeOK
  <2>4. CASE ApproveCommit(w)
    BY <2>4 DEF ApproveCommit, RaiseFromSave, Commit, Finish, Release, SameHandler,
           TypeInv, TypeOK
  <2>5. CASE AllocateCommit(w) \/ Notify(w)
    BY <2>5 DEF AllocateCommit, Notify, Finish, Release, SameHandler, TypeInv, TypeOK
  <2>. QED  BY <1>4, <2>1, <2>2, <2>3, <2>4, <2>5 DEF Proceed
<1>. QED  BY <1>1, <1>2, <1>3, <1>4 DEF WorkerStep

(* Locks are only acquired one by one, and given up all together.            *)
LEMMA LockSteps ==
  ASSUME TypeInv, NEW w \in Worker, WorkerStep(w)
  PROVE  Acquire(w) \/ held'[w] = held[w] \/ held'[w] = {}
<1>1. CASE Call(w)
  BY <1>1, CallBegins DEF Begin
<1>2. CASE DeadlockAbort(w) \/ Crash(w)
  BY <1>2 DEF DeadlockAbort, Crash, Finish, Release, TypeInv, TypeOK
<1>3. CASE Proceed(w)
  BY <1>3 DEF Proceed, CheckOverlap, ReadBalance, ReadRequest, InsertRequest,
         RejectCommit, CancelCommit, ApproveCommit, RaiseFromSave, AllocateCommit,
         Notify, Goto, Commit, Finish, Release, TypeInv, TypeOK
<1>. QED  BY <1>1, <1>2, <1>3 DEF WorkerStep

(* Exclusion is inductive: a lock is granted only against no conflict.       *)
LEMMA ExclusionStep ==
  ASSUME TypeInv, Exclusion, NEW w \in Worker, WorkerStep(w)
  PROVE  Exclusion'
<1>1. \A x \in Worker \ {w} : held'[x] = held[x]  BY Locality
<1>2. CASE held'[w] = held[w] \/ held'[w] = {}
  BY <1>1, <1>2 DEF Exclusion
<1>3. CASE Acquire(w)
  <2>1. PICK l \in want[w] :
          /\ \A v \in Worker \ {w} : \A m \in held[v] : ~Conflict(l, m)
          /\ held' = [held EXCEPT ![w] = @ \cup {l}]
    BY <1>3 DEF Acquire
  <2>2. held'[w] = held[w] \cup {l}  BY <2>1 DEF TypeInv, TypeOK
  <2>3. \A v \in Worker \ {w} : \A m \in held[v] : ~Conflict(l, m) /\ ~Conflict(m, l)
    BY <2>1 DEF Conflict
  <2>. QED  BY <1>1, <2>2, <2>3 DEF Exclusion
<1>. QED  BY <1>2, <1>3, LockSteps

(* A write of a request row is an insert of the worker's own new row, or a   *)
(* decision about the row that it holds locked.                              *)
Inserts(w) ==
  /\ At(w, "insert")
  /\ request' = [request EXCEPT ![job[w].request] = row[w]]
  /\ audit' = [audit EXCEPT ![job[w].request] = Append(@, "SUBMITTED")]
  /\ balance' = balance

Revises(old, new, status) ==
  /\ new \in RequestRow /\ new.status = status
  /\ new.employee = old.employee /\ new.type = old.type
  /\ new.start = old.start /\ new.end = old.end /\ new.days = old.days

Decides(w, status) ==
  /\ At(w, "commit")
  /\ \/ job[w].op = "approve" /\ status = "APPROVED"
     \/ job[w].op = "reject" /\ status = "REJECTED"
     \/ job[w].op = "cancel" /\ status = "CANCELLED"
  /\ request' = [request EXCEPT ![job[w].request] = row'[w]]
  /\ Revises(row[w], row'[w], status)
  /\ audit' = [audit EXCEPT ![job[w].request] = Append(@, status)]

(* An approval either fails as a whole or writes the request and its charge. *)
LEMMA ApproveDecides ==
  ASSUME TypeInv, NEW w \in Worker, ApproveCommit(w)
  PROVE  \/ UNCHANGED <<request, balance, audit>>
         \/ /\ Decides(w, "APPROVED")
            /\ balance' = [balance EXCEPT ![KeyOf(row[w])] =
                             SavedBalance(bal[w].allocated, bal[w].used + row[w].days)]
<1>1. /\ At(w, "commit") /\ job[w].op = "approve" /\ job[w] \in Job
      /\ row[w] \in RequestRow
  BY AtCommit DEF ApproveCommit
<1>2. CASE UNCHANGED <<dbVars, inbox, orgVars, crashes>>
  BY <1>2 DEF dbVars
<1>3. CASE /\ row' = [row EXCEPT ![w].status = "APPROVED",
                                ![w].approvedBy = job[w].actor]
           /\ request' = [request EXCEPT ![job[w].request] = row'[w]]
           /\ Commit(w, job[w].request, "APPROVED")
           /\ balance' = [balance EXCEPT ![KeyOf(row[w])] =
                            SavedBalance(bal[w].allocated, bal[w].used + row[w].days)]
  <2>1. row'[w] = [row[w] EXCEPT !.status = "APPROVED", !.approvedBy = job[w].actor]
    BY <1>1, <1>3 DEF TypeInv, TypeOK, RequestRow
  <2>2. job[w].actor \in User \cup {None}  BY <1>1 DEF Job
  <2>3. Revises(row[w], row'[w], "APPROVED")
    BY <1>1, <2>1, <2>2 DEF Revises, RequestRow, Status
  <2>. QED  BY <1>1, <1>3, <2>3 DEF Decides, Commit
<1>. QED  BY <1>2, <1>3 DEF ApproveCommit, RaiseFromSave

LEMMA RejectDecides ==
  ASSUME TypeInv, NEW w \in Worker, RejectCommit(w)
  PROVE  Decides(w, "REJECTED")
<1>1. /\ At(w, "commit") /\ job[w].op = "reject" /\ job[w] \in Job
      /\ row[w] \in RequestRow
  BY AtCommit DEF RejectCommit
<1>2. row'[w] = [row[w] EXCEPT !.status = "REJECTED", !.approvedBy = job[w].actor]
  BY <1>1 DEF RejectCommit, TypeInv, TypeOK, RequestRow
<1>3. job[w].actor \in User \cup {None}  BY <1>1 DEF Job
<1>4. Revises(row[w], row'[w], "REJECTED")
  BY <1>1, <1>2, <1>3 DEF Revises, RequestRow, Status
<1>. QED  BY <1>1, <1>4 DEF RejectCommit, Decides, Commit

LEMMA CancelDecides ==
  ASSUME TypeInv, NEW w \in Worker, CancelCommit(w)
  PROVE  Decides(w, "CANCELLED")
<1>1. /\ At(w, "commit") /\ job[w].op = "cancel" /\ row[w] \in RequestRow
  BY AtCommit DEF CancelCommit
<1>2. row'[w] = [row[w] EXCEPT !.status = "CANCELLED"]
  BY <1>1 DEF CancelCommit, TypeInv, TypeOK, RequestRow
<1>3. Revises(row[w], row'[w], "CANCELLED")
  BY <1>1, <1>2 DEF Revises, RequestRow, Status
<1>. QED  BY <1>1, <1>3 DEF CancelCommit, Decides, Commit

LEMMA RequestWrites ==
  ASSUME TypeInv, NEW w \in Worker, WorkerStep(w)
  PROVE  \/ request' = request /\ audit' = audit
         \/ Inserts(w)
         \/ \E status \in {"APPROVED", "REJECTED", "CANCELLED"} : Decides(w, status)
<1>1. CASE Call(w) \/ Acquire(w) \/ DeadlockAbort(w) \/ Crash(w)
  BY <1>1, CallBegins DEF Acquire, DeadlockAbort, Crash, dbVars
<1>2. CASE CheckOverlap(w) \/ ReadRequest(w) \/ ReadBalance(w) \/ AllocateCommit(w)
             \/ Notify(w)
  BY <1>2 DEF CheckOverlap, ReadRequest, ReadBalance, AllocateCommit, Notify, dbVars
<1>3. CASE InsertRequest(w)
  BY <1>3 DEF InsertRequest, Commit, Inserts
<1>4. CASE ApproveCommit(w)  BY <1>4, ApproveDecides
<1>5. CASE RejectCommit(w)  BY <1>5, RejectDecides
<1>6. CASE CancelCommit(w)  BY <1>6, CancelDecides
<1>. QED  BY <1>1, <1>2, <1>3, <1>4, <1>5, <1>6 DEF WorkerStep, Proceed

(* A write of a balance row is made by a worker that read it under its lock. *)
Charges(w) ==
  /\ At(w, "commit") /\ bal[w] # None
  /\ \E a, u \in Nat : balance' = [balance EXCEPT ![JobKey(w)] = SavedBalance(a, u)]

LEMMA BalanceWrites ==
  ASSUME TypeInv, NEW w \in Worker, WorkerStep(w)
  PROVE  balance' = balance \/ Charges(w)
<1>1. CASE Call(w) \/ Acquire(w) \/ DeadlockAbort(w) \/ Crash(w)
  BY <1>1, CallBegins DEF Acquire, DeadlockAbort, Crash, dbVars
<1>2. CASE CheckOverlap(w) \/ ReadRequest(w) \/ ReadBalance(w) \/ Notify(w)
             \/ InsertRequest(w) \/ RejectCommit(w)
  BY <1>2 DEF CheckOverlap, ReadRequest, ReadBalance, Notify, InsertRequest,
         RejectCommit, dbVars
<1>3. CASE ApproveCommit(w)
  <2>1. /\ At(w, "commit") /\ job[w].op = "approve" /\ row[w] \in RequestRow
        /\ JobKey(w) = KeyOf(row[w])
    BY <1>3, AtCommit DEF ApproveCommit, JobKey
  <2>2. bal[w] \in BalanceRow /\ bal[w] # None
    BY <2>1, NoneAssumption DEF At, TypeInv, HandlerOK
  <2>3. bal[w].allocated \in Nat /\ bal[w].used + row[w].days \in Nat
    BY <2>1, <2>2 DEF BalanceRow, RequestRow
  <2>. QED
    BY <1>3, <2>1, <2>2, <2>3 DEF ApproveCommit, RaiseFromSave, Charges, dbVars
<1>4. CASE CancelCommit(w)
  <2>1. /\ At(w, "commit") /\ row[w] \in RequestRow /\ JobKey(w) = KeyOf(row[w])
    BY <1>4, AtCommit DEF CancelCommit, JobKey
  <2>2. CASE bal[w] = None  BY <1>4, <2>2 DEF CancelCommit
  <2>3. CASE bal[w] # None
    <3> DEFINE restore == IF row[w].days <= bal[w].used THEN row[w].days ELSE bal[w].used
    <3>1. bal[w] \in BalanceRow  BY <2>3 DEF TypeInv, TypeOK
    <3>2. bal[w].allocated \in Nat /\ bal[w].used - restore \in Nat
      BY <2>1, <3>1 DEF BalanceRow, RequestRow
    <3>3. balance' = [balance EXCEPT ![JobKey(w)] =
                        SavedBalance(bal[w].allocated, bal[w].used - restore)]
      BY <1>4, <2>1, <2>3 DEF CancelCommit, RestoreBalance
    <3>. QED  BY <2>1, <2>3, <3>2, <3>3 DEF Charges
  <2>. QED  BY <2>2, <2>3
<1>5. CASE AllocateCommit(w)
  <2>1. /\ At(w, "commit") /\ JobKey(w) = job[w].key /\ job[w] \in Job
        /\ bal[w] \in BalanceRow /\ bal[w] # None
    BY <1>5, NoneAssumption DEF AllocateCommit, At, JobKey, TypeInv, HandlerOK
  <2>2. job[w].allocated \in Nat /\ bal[w].used \in Nat  BY <2>1 DEF Job, BalanceRow
  <2>. QED  BY <1>5, <2>1, <2>2 DEF AllocateCommit, Charges
<1>. QED  BY <1>1, <1>2, <1>3, <1>4, <1>5 DEF WorkerStep, Proceed

-----------------------------------------------------------------------------
(* What the locks guarantee to the worker that holds them.                   *)

(* A decision writes the row it read, and only its status and approver.      *)
LEMMA DecidesWhatItRead ==
  ASSUME SafeInv, NEW w \in Worker,
         NEW status \in {"APPROVED", "REJECTED", "CANCELLED"}, Decides(w, status)
  PROVE  LET r == job[w].request IN
         /\ r \in Request /\ request[r] # None /\ request[r] \in RequestRow
         /\ Update("request", r) \in held[w]
         /\ request'[r] \in RequestRow /\ request'[r].status = status
         /\ request'[r].employee = request[r].employee
         /\ request'[r].type = request[r].type
         /\ request'[r].start = request[r].start
         /\ request'[r].end = request[r].end
         /\ request'[r].days = request[r].days
         /\ StatusAllows(job[w].op, request[r].status)
<1> DEFINE r == job[w].request
<1>1. /\ At(w, "commit") /\ job[w].op \in {"approve", "reject", "cancel"}
  BY DEF Decides
<1>2. /\ pc[w] = "commit" /\ r \in Request /\ row[w] \in RequestRow
  BY <1>1, AtCommit DEF SafeInv
<1>3. /\ Update("request", r) \in held[w] /\ row[w] = request[r]
      /\ request[r] # None /\ StatusAllows(job[w].op, request[r].status)
  <2>1. WorkerInv(w) /\ HandlerOK(w)  BY DEF SafeInv, TypeInv
  <2>2. Update("request", r) \in held[w] /\ row[w] = request[r]
    BY <1>1, <1>2, <2>1 DEF WorkerInv
  <2>3. StatusAllows(job[w].op, row[w].status)  BY <1>1, <1>2, <2>1 DEF HandlerOK
  <2>. QED  BY <1>2, <2>2, <2>3, NoneAssumption
<1>4. request'[r] = row'[w]  BY <1>2 DEF Decides, SafeInv, TypeInv, TypeOK
<1>5. Revises(row[w], row'[w], status)  BY DEF Decides
<1>. QED  BY <1>2, <1>3, <1>4, <1>5 DEF Revises

LEMMA InsertsFreshRow ==
  ASSUME SafeInv, NEW w \in Worker, Inserts(w)
  PROVE  /\ job[w].request \in Request /\ request[job[w].request] = None
         /\ pc[w] = "insert" /\ row[w] \in RequestRow
         /\ Update("employee", row[w].employee) \in held[w]
         /\ request'[job[w].request] = row[w] /\ audit[job[w].request] = <<>>
         /\ OverlappingRequests(row[w]) = {}
<1>1. pc[w] = "insert"  BY DEF Inserts, At
<1>2. /\ row[w] \in RequestRow /\ job[w].request \in Request
  BY <1>1 DEF SafeInv, TypeInv, HandlerOK
<1>3. /\ request[job[w].request] = None /\ audit[job[w].request] = <<>>
      /\ Update("employee", row[w].employee) \in held[w]
      /\ OverlappingRequests(row[w]) = {}
  BY <1>1 DEF SafeInv, WorkerInv, Fresh, NoClash
<1>. QED  BY <1>1, <1>2, <1>3 DEF Inserts, SafeInv, TypeInv, TypeOK

(* A row that x has locked for update is not written by a step of w.         *)
LEMMA LockedRowsKeep ==
  ASSUME SafeInv, NEW w \in Worker, WorkerStep(w), NEW x \in Worker, x # w
  PROVE  /\ \A r \in Request :
              (request[r] # None /\ Update("request", r) \in held[x])
                => request'[r] = request[r]
         /\ \A k \in BalanceKey :
              Update("balance", k) \in held[x] => balance'[k] = balance[k]
<1>1. \A l \in held[x], m \in held[w] : l.mode = "update" => l.row # m.row
  BY DEF SafeInv, Exclusion, Conflict
<1>2. ASSUME NEW r \in Request, request[r] # None, Update("request", r) \in held[x]
      PROVE  request'[r] = request[r]
  <2>1. CASE Inserts(w)
    <3>1. job[w].request # r  BY <1>2, <2>1, InsertsFreshRow
    <3>. QED  BY <2>1, <3>1 DEF Inserts, SafeInv, TypeInv, TypeOK
  <2>2. ASSUME NEW status \in {"APPROVED", "REJECTED", "CANCELLED"}, Decides(w, status)
        PROVE  request'[r] = request[r]
    <3>1. Update("request", job[w].request) \in held[w]
      BY <2>2, DecidesWhatItRead
    <3>2. job[w].request # r  BY <1>1, <1>2, <3>1 DEF Update
    <3>. QED  BY <2>2, <3>2 DEF Decides, SafeInv, TypeInv, TypeOK
  <2>. QED  BY <2>1, <2>2, RequestWrites DEF SafeInv
<1>3. ASSUME NEW k \in BalanceKey, Update("balance", k) \in held[x]
      PROVE  balance'[k] = balance[k]
  <2>1. CASE Charges(w)
    <3>1. Update("balance", JobKey(w)) \in held[w]
      BY <2>1 DEF Charges, At, SafeInv, WorkerInv
    <3>2. JobKey(w) # k  BY <1>1, <1>3, <3>1 DEF Update
    <3>. QED  BY <2>1, <3>2 DEF Charges, SafeInv, TypeInv, TypeOK
  <2>. QED  BY <2>1, BalanceWrites DEF SafeInv
<1>. QED  BY <1>2, <1>3

(* Same lemma for the company's own changes and the management command.      *)
LEMMA OrganisationKeeps ==
  ASSUME TypeInv, Organisation
  PROVE  /\ UNCHANGED <<request, audit, staff, handlerVars>>
         /\ \/ balance' = balance
            \/ \E k \in BalanceKey, a \in Nat :
                 balance[k] = None /\ balance' = [balance EXCEPT ![k] = SavedBalance(a, 0)]
<1>1. CASE \E entry \in batch : GetOrCreateBalance(entry[1], entry[2])
  <2>1. PICK entry \in batch : GetOrCreateBalance(entry[1], entry[2])  BY <1>1
  <2>2. entry[1] \in BalanceKey /\ entry[2] \in Nat  BY DEF TypeInv, TypeOK
  <2>. QED  BY <2>1, <2>2 DEF GetOrCreateBalance
<1>2. CASE ~\E entry \in batch : GetOrCreateBalance(entry[1], entry[2])
  BY <1>2 DEF Organisation, UpdateLeaveType, ChangeManager, NextDay,
         EnsureBalancesForYear, dbVars
<1>. QED  BY <1>1, <1>2

-----------------------------------------------------------------------------
(* Rows that a handler has locked do not go with their employee, and none    *)
(* comes or changes.                                                         *)
LEMMA DeletionKeeps ==
  ASSUME TypeInv, NEW e \in Leaver, DeleteEmployee(e)
  PROVE  /\ UNCHANGED <<audit, handlerVars>> /\ staff' = staff \ {e}
         /\ \A r \in Request : request'[r] = IF Of(e, r) THEN None ELSE request[r]
         /\ \A k \in BalanceKey : balance'[k] = IF k[1] = e THEN None ELSE balance[k]
         /\ \A x \in Worker, r \in Request :
              Update("request", r) \in held[x] => request'[r] = request[r]
         /\ \A x \in Worker, k \in BalanceKey :
              Update("balance", k) \in held[x] => balance'[k] = balance[k]
         /\ \A x \in Worker : Update("employee", e) \notin held[x]
<1>1. UNCHANGED <<audit, handlerVars>> /\ staff' = staff \ {e}  BY DEF DeleteEmployee
<1>2. \A r \in Request : request'[r] = IF Of(e, r) THEN None ELSE request[r]
  BY DEF DeleteEmployee
<1>3. \A k \in BalanceKey : balance'[k] = IF k[1] = e THEN None ELSE balance[k]
  BY DEF DeleteEmployee
<1>4. \A r \in Request : Of(e, r) => \A x \in Worker : Update("request", r) \notin held[x]
  BY DEF DeleteEmployee, Removable
<1>5. \A k \in BalanceKey : k[1] = e => \A x \in Worker : Update("balance", k) \notin held[x]
  BY DEF DeleteEmployee, Removable
<1>6. e \in Employee  BY LeaveAssumption
<1>7. \A x \in Worker : Update("employee", e) \notin held[x]
  BY <1>6 DEF DeleteEmployee, Removable
<1>. QED  BY <1>1, <1>2, <1>3, <1>4, <1>5, <1>7

-----------------------------------------------------------------------------
(* Each part of SafeInv is preserved.                                        *)

(* For a worker whose handler and locked rows are not touched.               *)
LEMMA WorkerInvKept ==
  ASSUME SafeInv, NEW x \in Worker, SameHandler(x),
         held'[x] = held[x], want'[x] = want[x],
         \A r \in Request : (request[r] # None /\ Update("request", r) \in held[x])
                              => request'[r] = request[r],
         \A k \in BalanceKey : (balance[k] # None /\ Update("balance", k) \in held[x])
                              => balance'[k] = balance[k]
  PROVE  WorkerInv(x)'
<1>1. HandlerOK(x) /\ WorkerInv(x)  BY DEF SafeInv, TypeInv
<1>2. JobKey(x)' = JobKey(x)  BY DEF JobKey, SameHandler
<1>3. pc[x] = "commit" /\ bal[x] # None => JobKey(x) \in BalanceKey
  BY <1>1, KeyOfType DEF HandlerOK, JobKey
<1>4. (pc[x] \in {"balance", "commit"} /\ job[x].op # "allocate")
        => row[x] = request'[job[x].request]
  <2>. SUFFICES ASSUME pc[x] \in {"balance", "commit"}, job[x].op # "allocate"
                PROVE  row[x] = request'[job[x].request]
    OBVIOUS
  <2>1. /\ row[x] \in RequestRow /\ job[x].request \in Request
        /\ Update("request", job[x].request) \in held[x] /\ row[x] = request[job[x].request]
    BY <1>1 DEF HandlerOK, WorkerInv
  <2>2. request[job[x].request] # None  BY <2>1, NoneAssumption
  <2>. QED  BY <2>1, <2>2
<1>5. (pc[x] = "commit" /\ bal[x] # None) => bal[x] = balance'[JobKey(x)]
  BY <1>1, <1>3 DEF WorkerInv
<1>. QED  BY <1>1, <1>2, <1>4, <1>5 DEF WorkerInv, SameHandler

LEMMA WorkerInvCall ==
  ASSUME SafeInv, NEW w \in Worker, Call(w)
  PROVE  WorkerInv(w)'
<1>1. pc[w] = "idle" /\ bal' = bal /\ bal[w] = None
  <2>1. pc[w] = "idle" /\ bal' = bal  BY CallBegins DEF Begin
  <2>. QED  BY <2>1 DEF SafeInv, WorkerInv
<1>2. CASE \E e \in Submitter, t \in LeaveType, s \in Span, r \in Request :
             CreateRequest(w, e, t, s[1], s[2], r)
  <2>1. PICK e \in Submitter, t \in LeaveType, s \in Span, r \in Request :
             CreateRequest(w, e, t, s[1], s[2], r)
    BY <1>2
  <2>2. /\ pc'[w] = "overlap" /\ want'[w] = {Update("employee", e)}
        /\ row'[w].employee = e
    BY <2>1 DEF CreateRequest, Begin, SafeInv, TypeInv, TypeOK
  <2>. QED  BY <1>1, <2>2 DEF WorkerInv
<1>3. CASE \E u \in User, r \in Request :
             Approve(w, u, r) \/ Reject(w, u, r) \/ Cancel(w, u, r)
  <2>1. PICK u \in User, r \in Request, op \in Operation :
             Begin(w, NewJob(op, u, r), "request", RequestLocks(r))
    BY <1>3 DEF Approve, Reject, Cancel, Operation
  <2>2. /\ pc'[w] = "request" /\ job'[w].request = r
        /\ Update("request", r) \in want'[w]
    BY <2>1 DEF Begin, NewJob, RequestLocks, SafeInv, TypeInv, TypeOK
  <2>. QED  BY <1>1, <2>2 DEF WorkerInv
<1>4. CASE \E u \in User, k \in BalanceKey, n \in Allocation :
             AllocateBalance(w, u, k, n)
  <2>1. PICK u \in User, k \in BalanceKey, n \in Allocation :
             AllocateBalance(w, u, k, n)
    BY <1>4
  <2>2. /\ pc'[w] = "balance" /\ want'[w] = BalanceLocks(k)
        /\ job'[w] = [NewJob("allocate", u, None) EXCEPT !.key = k, !.allocated = n]
    BY <2>1 DEF AllocateBalance, Begin, SafeInv, TypeInv, TypeOK
  <2>3. job'[w].op = "allocate" /\ job'[w].key = k  BY <2>2 DEF NewJob
  <2>4. JobKey(w)' = k /\ Update("balance", k) \in want'[w]
    BY <2>2, <2>3 DEF JobKey, BalanceLocks
  <2>. QED  BY <1>1, <2>2, <2>3, <2>4 DEF WorkerInv
<1>. QED  BY <1>2, <1>3, <1>4 DEF Call

LEMMA WorkerInvAcquire ==
  ASSUME SafeInv, NEW w \in Worker, Acquire(w)
  PROVE  WorkerInv(w)'
<1>1. PICK l \in want[w] : /\ want' = [want EXCEPT ![w] = @ \ {l}]
                           /\ held' = [held EXCEPT ![w] = @ \cup {l}]
  BY DEF Acquire
<1>2. held[w] \subseteq held'[w] /\ held'[w] \cup want'[w] = held[w] \cup want[w]
  BY <1>1 DEF SafeInv, TypeInv, TypeOK
<1>3. UNCHANGED <<request, balance, pc, job, row, bal>>  BY DEF Acquire, dbVars
<1>4. JobKey(w)' = JobKey(w)  BY <1>3 DEF JobKey
<1>. QED  BY <1>2, <1>3, <1>4 DEF SafeInv, WorkerInv

LEMMA WorkerInvIdle ==
  ASSUME SafeInv, NEW w \in Worker, Finish(w)
  PROVE  WorkerInv(w)'
BY DEF Finish, WorkerInv, SafeInv, TypeInv, TypeOK

LEMMA WorkerInvReadRequest ==
  ASSUME SafeInv, NEW w \in Worker, ReadRequest(w)
  PROVE  WorkerInv(w)'
<1> DEFINE op == job[w].op
           req == request[job[w].request]
           k == KeyOf(req)
<1>1. /\ pc[w] = "request" /\ want[w] = {} /\ UNCHANGED <<request, balance>>
  BY DEF ReadRequest, At, dbVars
<1>2. /\ job[w] \in Job /\ op \in {"approve", "reject", "cancel"}
      /\ Update("request", job[w].request) \in held[w] /\ bal[w] = None
  BY <1>1 DEF SafeInv, TypeInv, HandlerOK, WorkerInv
<1>3. CASE /\ ~(op = "approve" /\ balance[k] = None)
           /\ row' = [row EXCEPT ![w] = req]
           /\ job' = [job EXCEPT ![w].manager = manager[req.employee]]
           /\ IF NeedsBalance(op, req) /\ balance[k] # None
                THEN Goto(w, "balance", BalanceLocks(k))
                ELSE Goto(w, "commit", {})
           /\ UNCHANGED bal
  <2>1. row'[w] = req /\ held' = held
    BY <1>3 DEF Goto, SafeInv, TypeInv, TypeOK
  <2>2. job'[w] = [job[w] EXCEPT !.manager = manager[req.employee]]
    BY <1>3 DEF SafeInv, TypeInv, TypeOK
  <2>3. job'[w].op = op /\ job'[w].request = job[w].request
    BY <1>2, <2>2 DEF Job
  <2>4. JobKey(w)' = k  BY <1>2, <2>1, <2>3 DEF JobKey, KeyOf
  <2>5. CASE Goto(w, "balance", BalanceLocks(k))
    <3>1. pc'[w] = "balance" /\ Update("balance", k) \in want'[w]
      BY <2>5 DEF Goto, BalanceLocks, SafeInv, TypeInv, TypeOK
    <3>. QED  BY <1>1, <1>2, <1>3, <2>1, <2>3, <2>4, <3>1 DEF WorkerInv
  <2>6. CASE Goto(w, "commit", {}) /\ op # "approve"
    <3>1. pc'[w] = "commit"  BY <2>6 DEF Goto, SafeInv, TypeInv, TypeOK
    <3>. QED  BY <1>1, <1>2, <1>3, <2>1, <2>3, <2>6, <3>1 DEF WorkerInv
  <2>. QED  BY <1>3, <2>5, <2>6 DEF NeedsBalance
<1>. QED  BY <1>3, WorkerInvIdle DEF ReadRequest

LEMMA WorkerInvReadBalance ==
  ASSUME SafeInv, NEW w \in Worker, ReadBalance(w)
  PROVE  WorkerInv(w)'
<1> DEFINE b == balance[JobKey(w)]
<1>1. /\ pc[w] = "balance" /\ want[w] = {} /\ UNCHANGED <<request, balance>>
  BY DEF ReadBalance, At, dbVars
<1>2. /\ HandlerOK(w) /\ Update("balance", JobKey(w)) \in held[w]
      /\ JobKey(w) \in BalanceKey
  BY <1>1, KeyOfType DEF SafeInv, TypeInv, HandlerOK, WorkerInv, JobKey
<1>3. b # None => b \in BalanceRow /\ b.remaining = b.allocated - b.used
  BY <1>2 DEF SafeInv, TypeInv, TypeOK, RemainingIsCast
<1>4. CASE /\ b # None /\ BalanceAllows(job[w], row[w], b)
           /\ bal' = [bal EXCEPT ![w] = b] /\ Goto(w, "commit", {})
           /\ UNCHANGED <<job, row>>
  <2>1. bal'[w] = b /\ held' = held /\ pc'[w] = "commit" /\ JobKey(w)' = JobKey(w)
    BY <1>4 DEF Goto, JobKey, SafeInv, TypeInv, TypeOK
  <2>2. job[w].op = "approve" => b.used + row[w].days <= b.allocated
    <3>1. job[w].op = "approve" => row[w].days \in Nat /\ b.remaining >= row[w].days
      BY <1>1, <1>2, <1>4 DEF BalanceAllows, HandlerOK, RequestRow
    <3>2. b.used \in Nat /\ b.allocated \in Nat  BY <1>3, <1>4 DEF BalanceRow
    <3>. QED  BY <1>3, <1>4, <3>1, <3>2
  <2>3. job[w].op = "allocate" => b.used <= job[w].allocated
    <3>1. job[w].op = "allocate" => job[w].allocated \in Nat /\ job[w].allocated >= b.used
      BY <1>1, <1>2, <1>4 DEF BalanceAllows, HandlerOK, Job
    <3>2. b.used \in Nat  BY <1>3, <1>4 DEF BalanceRow
    <3>. QED  BY <3>1, <3>2
  <2>4. job[w].op # "allocate" => /\ Update("request", job[w].request) \in held[w]
                                  /\ row[w] = request[job[w].request]
    BY <1>1 DEF SafeInv, WorkerInv
  <2>. QED  BY <1>1, <1>2, <1>4, <2>1, <2>2, <2>3, <2>4 DEF WorkerInv
<1>. QED  BY <1>4, WorkerInvIdle DEF ReadBalance

LEMMA WorkerInvOwn ==
  ASSUME SafeInv, NEW w \in Worker, WorkerStep(w)
  PROVE  WorkerInv(w)'
<1>1. CASE CheckOverlap(w)
  <2>1. /\ pc[w] = "overlap" /\ want[w] = {}
        /\ Update("employee", row[w].employee) \in held[w] /\ bal[w] = None
    BY <1>1 DEF CheckOverlap, At, SafeInv, WorkerInv
  <2>2. CASE /\ Goto(w, "insert", ForeignKeyLocks(row[w].employee, row[w].type))
             /\ UNCHANGED <<job, row, bal>>
    BY <2>1, <2>2 DEF Goto, WorkerInv, SafeInv, TypeInv, TypeOK
  <2>. QED  BY <1>1, <2>2, WorkerInvIdle DEF CheckOverlap
<1>2. CASE \E r \in Request, action \in AuditAction : Commit(w, r, action)
  BY <1>2 DEF Commit, WorkerInv, SafeInv, TypeInv, TypeOK
<1>3. CASE InsertRequest(w) \/ RejectCommit(w) \/ CancelCommit(w) \/ ApproveCommit(w)
  <2>1. job[w].request \in Request
    BY <1>3, AtCommit DEF InsertRequest, RejectCommit, CancelCommit, ApproveCommit, At,
       SafeInv, TypeInv, HandlerOK
  <2>2. {"SUBMITTED", "APPROVED", "REJECTED", "CANCELLED"} \subseteq AuditAction
    BY DEF AuditAction
  <2>. QED
    BY <1>2, <1>3, <2>1, <2>2, WorkerInvIdle
    DEF InsertRequest, RejectCommit, CancelCommit, ApproveCommit, RaiseFromSave
<1>4. CASE AllocateCommit(w) \/ Notify(w) \/ DeadlockAbort(w) \/ Crash(w)
  BY <1>4, WorkerInvIdle DEF AllocateCommit, Notify, DeadlockAbort, Crash
<1>. QED
  BY <1>1, <1>3, <1>4, WorkerInvCall, WorkerInvAcquire, WorkerInvReadRequest,
     WorkerInvReadBalance DEF WorkerStep, Proceed

(* A worker's call keeps its request while it runs; a new call takes a       *)
(* request id that no create handler has.                                    *)
LEMMA JobRequests ==
  ASSUME SafeInv, NEW w \in Worker, WorkerStep(w)
  PROVE  \/ pc'[w] = "idle"
         \/ pc[w] # "idle" /\ job'[w].request = job[w].request
              /\ (pc'[w] \in {"overlap", "insert"} => pc[w] \in {"overlap", "insert"})
         \/ /\ pc'[w] # "overlap" /\ pc'[w] # "insert"
            /\ job'[w].request = None \/ request[job'[w].request] # None
         \/ /\ job'[w].request \in Request /\ request'[job'[w].request] = None
            /\ audit'[job'[w].request] = <<>>
            /\ \A v \in Worker \ {w} : pc[v] # "idle" => job[v].request # job'[w].request
<1>1. CASE \E e \in Submitter, t \in LeaveType, s \in Span, r \in Request :
             CreateRequest(w, e, t, s[1], s[2], r)
  <2>1. PICK e \in Submitter, t \in LeaveType, s \in Span, r \in Request :
             CreateRequest(w, e, t, s[1], s[2], r)
    BY <1>1
  <2>2. job'[w] = [NewJob("create", e, r) EXCEPT !.manager = manager[e]]
          /\ request' = request /\ audit' = audit
    BY <2>1 DEF CreateRequest, Begin, dbVars, SafeInv, TypeInv, TypeOK
  <2>3. job'[w].request = r  BY <2>2 DEF NewJob
  <2>. QED  BY <2>1, <2>2, <2>3 DEF CreateRequest
<1>2. CASE \E u \in User, r \in Request :
             Approve(w, u, r) \/ Reject(w, u, r) \/ Cancel(w, u, r)
  <2>1. PICK u \in User, r \in Request, op \in Operation :
             request[r] # None /\ Begin(w, NewJob(op, u, r), "request", RequestLocks(r))
    BY <1>2 DEF Approve, Reject, Cancel, Operation
  <2>2. pc'[w] = "request" /\ job'[w].request = r
    BY <2>1 DEF Begin, NewJob, SafeInv, TypeInv, TypeOK
  <2>. QED  BY <2>1, <2>2
<1>3. CASE \E u \in User, k \in BalanceKey, n \in Allocation :
             AllocateBalance(w, u, k, n)
  <2>1. PICK u \in User, k \in BalanceKey, n \in Allocation :
             AllocateBalance(w, u, k, n)
    BY <1>3
  <2>2. /\ pc'[w] = "balance"
        /\ job'[w] = [NewJob("allocate", u, None) EXCEPT !.key = k, !.allocated = n]
    BY <2>1 DEF AllocateBalance, Begin, SafeInv, TypeInv, TypeOK
  <2>3. job'[w].request = None  BY <2>2 DEF NewJob
  <2>. QED  BY <2>2, <2>3
<1>4. CASE Finish(w)
  BY <1>4 DEF Finish, SafeInv, TypeInv, TypeOK
<1>5. CASE ReadRequest(w) /\ ~Finish(w)
  <2>1. pc[w] = "request" /\ job[w] \in Job
    BY <1>5 DEF ReadRequest, At, SafeInv, TypeInv, HandlerOK
  <2>2. job'[w].request = job[w].request
    BY <1>5, <2>1 DEF ReadRequest, SafeInv, TypeInv, TypeOK, Job
  <2>3. pc'[w] \in {"balance", "commit"}
    BY <1>5 DEF ReadRequest, Goto, SafeInv, TypeInv, TypeOK
  <2>. QED  BY <2>1, <2>2, <2>3
<1>6. CASE (CheckOverlap(w) \/ ReadBalance(w)) /\ ~Finish(w)
  BY <1>6 DEF CheckOverlap, ReadBalance, At, Goto, SafeInv, TypeInv, TypeOK
<1>7. CASE Acquire(w)
  <2>1. pc' = pc /\ job' = job  BY <1>7 DEF Acquire
  <2>2. pc[w] # "idle" \/ pc'[w] = "idle"  BY <2>1
  <2>. QED  BY <2>1, <2>2
<1>8. CASE (InsertRequest(w) \/ RejectCommit(w) \/ CancelCommit(w) \/ ApproveCommit(w))
             /\ ~Finish(w)
  BY <1>8 DEF InsertRequest, RejectCommit, CancelCommit, ApproveCommit, RaiseFromSave,
     Commit, At, SafeInv, TypeInv, TypeOK
<1>. QED
  BY <1>1, <1>2, <1>3, <1>4, <1>5, <1>6, <1>7, <1>8
  DEF WorkerStep, Call, Proceed, AllocateCommit, Notify, DeadlockAbort, Crash

(* Only an insert creates a row, and it creates the one the worker chose.    *)
LEMMA NewRows ==
  ASSUME SafeInv, NEW w \in Worker, WorkerStep(w), NEW r \in Request,
         request[r] = None, request'[r] # None
  PROVE  pc[w] = "insert" /\ job[w].request = r /\ pc'[w] = "notify"
<1>1. CASE Inserts(w)
  <2>1. job[w].request = r  BY <1>1 DEF Inserts, SafeInv, TypeInv, TypeOK
  <2>2. pc[w] = "insert"  BY <1>1 DEF Inserts, At
  <2>3. InsertRequest(w)
    BY <1>1, <2>2 DEF WorkerStep, Call, CreateRequest, Approve, Reject, Cancel,
       AllocateBalance, Begin, Acquire, Proceed, CheckOverlap, ReadRequest, ReadBalance,
       ApproveCommit, RejectCommit, CancelCommit, AllocateCommit, Notify, DeadlockAbort,
       Crash, At, dbVars
  <2>4. pc'[w] = "notify"  BY <2>3 DEF InsertRequest, Commit, SafeInv, TypeInv, TypeOK
  <2>. QED  BY <2>1, <2>2, <2>4
<1>2. ASSUME NEW status \in {"APPROVED", "REJECTED", "CANCELLED"}, Decides(w, status)
      PROVE  FALSE
  <2>1. request[job[w].request] # None  BY <1>2, DecidesWhatItRead
  <2>2. job[w].request # r  BY <2>1
  <2>. QED  BY <1>2, <2>2 DEF Decides, SafeInv, TypeInv, TypeOK
<1>. QED  BY <1>1, <1>2, RequestWrites DEF SafeInv

(* Only the handler of a request writes its log, and only once it exists.    *)
LEMMA NewEntries ==
  ASSUME SafeInv, NEW w \in Worker, WorkerStep(w), NEW r \in Request,
         request[r] = None, ~(pc[w] = "insert" /\ job[w].request = r /\ pc'[w] = "notify")
  PROVE  request'[r] = None /\ audit'[r] = audit[r]
<1>1. request'[r] = None  BY NewRows
<1>2. CASE Inserts(w)
  <2>1. job[w].request # r  BY <1>1, <1>2, InsertsFreshRow, NoneAssumption
  <2>. QED  BY <1>1, <1>2, <2>1 DEF Inserts, SafeInv, TypeInv, TypeOK
<1>3. ASSUME NEW status \in {"APPROVED", "REJECTED", "CANCELLED"}, Decides(w, status)
      PROVE  audit'[r] = audit[r]
  <2>1. job[w].request # r  BY <1>3, DecidesWhatItRead
  <2>. QED  BY <1>3, <2>1 DEF Decides, SafeInv, TypeInv, TypeOK
<1>. QED  BY <1>1, <1>2, <1>3, RequestWrites DEF SafeInv

LEMMA FreshStep ==
  ASSUME SafeInv, NEW w \in Worker, WorkerStep(w), NEW x \in Worker
  PROVE  Fresh(x)'
<1>. SUFFICES ASSUME pc'[x] \in {"overlap", "insert"}
              PROVE  /\ request'[job'[x].request] = None /\ audit'[job'[x].request] = <<>>
                     /\ \A v \in Worker \ {x} :
                          pc'[v] # "idle" => job'[v].request # job'[x].request
  BY DEF Fresh
<1>1. \A v \in Worker \ {w} : SameHandler(v)  BY Locality DEF SafeInv
<1>2. CASE x # w
  <2>1. pc[x] \in {"overlap", "insert"} /\ job'[x] = job[x]
    BY <1>1, <1>2 DEF SameHandler
  <2>2. /\ request[job[x].request] = None /\ job[x].request \in Request
        /\ audit[job[x].request] = <<>>
        /\ \A v \in Worker \ {x} : pc[v] # "idle" => job[v].request # job[x].request
    BY <2>1 DEF SafeInv, Fresh, TypeInv, HandlerOK
  <2>3. pc[x] # "idle"  BY <2>1
  <2>4. request'[job[x].request] = None /\ audit'[job[x].request] = <<>>
    <3>1. pc[w] = "insert" => job[w].request # job[x].request  BY <1>2, <2>2
    <3>. QED  BY <2>2, <3>1, NewEntries
  <2>5. pc'[w] # "idle" => job'[w].request # job[x].request
    BY <1>2, <2>2, <2>3, JobRequests, NoneAssumption
  <2>. QED  BY <1>1, <1>2, <2>1, <2>2, <2>4, <2>5 DEF SameHandler
<1>3. CASE x = w
  <2>1. CASE pc[w] \in {"overlap", "insert"} /\ job'[w].request = job[w].request
    <3>1. /\ request[job[w].request] = None /\ job[w].request \in Request
          /\ audit[job[w].request] = <<>>
          /\ \A v \in Worker \ {w} : pc[v] # "idle" => job[v].request # job[w].request
      BY <2>1 DEF SafeInv, Fresh, TypeInv, HandlerOK
    <3>2. request'[job[w].request] = None /\ audit'[job[w].request] = <<>>
      BY <1>3, <3>1, NewEntries
    <3>. QED  BY <1>1, <1>3, <2>1, <3>1, <3>2 DEF SameHandler
  <2>2. CASE /\ request'[job'[w].request] = None /\ audit'[job'[w].request] = <<>>
             /\ \A v \in Worker \ {w} : pc[v] # "idle" => job[v].request # job'[w].request
    BY <1>1, <1>3, <2>2 DEF SameHandler
  <2>. QED  BY <1>3, <2>1, <2>2, JobRequests
<1>. QED  BY <1>2, <1>3

(* A step adds an active request only by an insert.                          *)
LEMMA ActiveRequests ==
  ASSUME SafeInv, NEW w \in Worker, WorkerStep(w), NEW r \in Request, Active(r)'
  PROVE  \/ /\ Active(r)
            /\ request'[r].employee = request[r].employee
            /\ request'[r].start = request[r].start /\ request'[r].end = request[r].end
         \/ Inserts(w) /\ r = job[w].request /\ request'[r] = row[w]
<1>1. CASE Inserts(w)
  BY <1>1 DEF Inserts, Active, Exists, SafeInv, TypeInv, TypeOK
<1>2. ASSUME NEW status \in {"APPROVED", "REJECTED", "CANCELLED"}, Decides(w, status)
      PROVE  /\ Active(r)
             /\ request'[r].employee = request[r].employee
             /\ request'[r].start = request[r].start /\ request'[r].end = request[r].end
  <2>1. CASE r = job[w].request
    <3>1. /\ request[r] # None /\ request'[r].status = status
          /\ request'[r].employee = request[r].employee
          /\ request'[r].start = request[r].start /\ request'[r].end = request[r].end
          /\ StatusAllows(job[w].op, request[r].status)
      BY <1>2, <2>1, DecidesWhatItRead
    <3>. QED  BY <3>1 DEF Active, Exists, ActiveStatus, StatusAllows
  <2>2. CASE r # job[w].request
    <3>1. request'[r] = request[r]
      BY <1>2, <2>2 DEF Decides, SafeInv, TypeInv, TypeOK
    <3>. QED  BY <3>1 DEF Active, Exists
  <2>. QED  BY <2>1, <2>2
<1>3. CASE request' = request  BY <1>3 DEF Active, Exists
<1>. QED  BY <1>1, <1>2, <1>3, RequestWrites DEF SafeInv

(* The overlap query, in terms of active requests.                           *)
LEMMA OverlapQuery ==
  ASSUME NEW new
  PROVE  OverlappingRequests(new) =
           {r \in Request : Active(r) /\ request[r].employee = new.employee
              /\ request[r].start <= new.end /\ request[r].end >= new.start}
BY DEF OverlappingRequests, Active, Exists

(* A handler comes to its insert only from the overlap query.                *)
LEMMA ReachesInsert ==
  ASSUME SafeInv, NEW w \in Worker, WorkerStep(w), pc'[w] = "insert"
  PROVE  \/ /\ CheckOverlap(w) /\ OverlappingRequests(row[w]) = {}
            /\ row[w].employee \in staff /\ row' = row /\ UNCHANGED <<request, staff>>
         \/ UNCHANGED <<pc, row, request, staff>>
<1>1. CASE Call(w)
  <2>1. pc'[w] # "insert"
    BY <1>1, CallBegins DEF Begin, SafeInv, TypeInv, TypeOK
  <2>. QED  BY <2>1
<1>2. CASE Acquire(w) \/ DeadlockAbort(w) \/ Crash(w)
  BY <1>2 DEF Acquire, DeadlockAbort, Crash, Finish, dbVars, orgVars, SafeInv, TypeInv, TypeOK
<1>3. CASE ReadRequest(w) \/ ReadBalance(w)
  BY <1>3 DEF ReadRequest, ReadBalance, Goto, Finish, SafeInv, TypeInv, TypeOK
<1>4. CASE \/ InsertRequest(w) \/ ApproveCommit(w) \/ RejectCommit(w) \/ CancelCommit(w)
           \/ AllocateCommit(w) \/ Notify(w)
  BY <1>4 DEF InsertRequest, ApproveCommit, RejectCommit, CancelCommit,
     AllocateCommit, Notify, Commit, RaiseFromSave, Finish, SafeInv, TypeInv, TypeOK
<1>5. CASE CheckOverlap(w)
  BY <1>5 DEF CheckOverlap, Finish, dbVars, orgVars, SafeInv, TypeInv, TypeOK
<1>. QED  BY <1>1, <1>2, <1>3, <1>4, <1>5 DEF WorkerStep, Proceed

LEMMA NoClashStep ==
  ASSUME SafeInv, NEW w \in Worker, WorkerStep(w), NEW x \in Worker
  PROVE  NoClash(x)'
<1>. SUFFICES ASSUME pc'[x] = "insert" PROVE OverlappingRequests(row[x])' = {}
  BY DEF NoClash
<1>1. CASE x # w
  <2>1. pc[x] = "insert" /\ row'[x] = row[x]
    BY <1>1, Locality DEF SameHandler, SafeInv
  <2>2. /\ OverlappingRequests(row[x]) = {}
        /\ Update("employee", row[x].employee) \in held[x]
    BY <2>1 DEF SafeInv, NoClash, WorkerInv
  <2>3. Inserts(w) => row[w].employee # row[x].employee
    <3>1. Inserts(w) => Update("employee", row[w].employee) \in held[w]
      BY InsertsFreshRow
    <3>. QED  BY <1>1, <2>2, <3>1 DEF SafeInv, Exclusion, Conflict, Update
  <2>4. ASSUME NEW r \in Request, Active(r)', request'[r].employee = row[x].employee,
               request'[r].start <= row[x].end, request'[r].end >= row[x].start
        PROVE  FALSE
    <3>1. /\ Active(r) /\ request[r].employee = row[x].employee
          /\ request[r].start <= row[x].end /\ request[r].end >= row[x].start
      BY <2>3, <2>4, ActiveRequests
    <3>. QED  BY <2>2, <3>1, OverlapQuery
  <2>. QED  BY <2>1, <2>4 DEF OverlappingRequests, Active, Exists
<1>2. CASE x = w
  <2>1. CASE OverlappingRequests(row[w]) = {} /\ row' = row /\ request' = request
    BY <1>2, <2>1 DEF OverlappingRequests
  <2>2. CASE UNCHANGED <<pc, row, request>>
    BY <1>2, <2>2 DEF OverlappingRequests, SafeInv, NoClash
  <2>. QED  BY <1>2, <2>1, <2>2, ReachesInsert
<1>. QED  BY <1>1, <1>2

LEMMA NoOverlapStep ==
  ASSUME SafeInv, NEW w \in Worker, WorkerStep(w)
  PROVE  NoOverlap'
<1>. SUFFICES ASSUME NEW r \in Request, NEW q \in Request, r # q, Active(r)', Active(q)',
                     request'[r].employee = request'[q].employee
              PROVE  request'[r].end < request'[q].start
                       \/ request'[q].end < request'[r].start
  BY DEF NoOverlap
<1>1. request'[r] \in RequestRow /\ request'[q] \in RequestRow
  BY TypeStep DEF Active, Exists, SafeInv, TypeInv, TypeOK, Next, WorkerStep
<1>2. /\ request'[r].start \in Int /\ request'[r].end \in Int
      /\ request'[q].start \in Int /\ request'[q].end \in Int
  BY <1>1, LeaveAssumption DEF RequestRow
<1>3. CASE Inserts(w) /\ r = job[w].request
  <2>1. request'[r] = row[w] /\ OverlappingRequests(row[w]) = {}
    BY <1>3, InsertsFreshRow
  <2>2. /\ Active(q) /\ request[q].employee = request'[q].employee
        /\ request[q].start = request'[q].start /\ request[q].end = request'[q].end
    BY <1>3, ActiveRequests
  <2>3. ~(request[q].start <= row[w].end /\ request[q].end >= row[w].start)
    BY <2>1, <2>2, OverlapQuery
  <2>. QED  BY <1>2, <2>1, <2>2, <2>3
<1>4. CASE Inserts(w) /\ q = job[w].request
  <2>1. request'[q] = row[w] /\ OverlappingRequests(row[w]) = {}
    BY <1>4, InsertsFreshRow
  <2>2. /\ Active(r) /\ request[r].employee = request'[r].employee
        /\ request[r].start = request'[r].start /\ request[r].end = request'[r].end
    BY <1>4, ActiveRequests
  <2>3. ~(request[r].start <= row[w].end /\ request[r].end >= row[w].start)
    BY <2>1, <2>2, OverlapQuery
  <2>. QED  BY <1>2, <2>1, <2>2, <2>3
<1>5. CASE ~(Inserts(w) /\ r = job[w].request) /\ ~(Inserts(w) /\ q = job[w].request)
  <2>1. /\ Active(r) /\ request[r].employee = request'[r].employee
        /\ request[r].start = request'[r].start /\ request[r].end = request'[r].end
    BY <1>5, ActiveRequests
  <2>2. /\ Active(q) /\ request[q].employee = request'[q].employee
        /\ request[q].start = request'[q].start /\ request[q].end = request'[q].end
    BY <1>5, ActiveRequests
  <2>. QED  BY <2>1, <2>2 DEF SafeInv, NoOverlap
<1>. QED  BY <1>3, <1>4, <1>5

LEMMA SavedRemaining ==
  ASSUME NEW a \in Nat, NEW u \in Nat, NEW k \in BalanceKey, TypeInv, RemainingIsCast,
         balance' = [balance EXCEPT ![k] = SavedBalance(a, u)]
  PROVE  RemainingIsCast'
<1>1. balance'[k] = SavedBalance(a, u)  BY DEF TypeInv, TypeOK
<1>2. balance'[k].remaining = balance'[k].allocated - balance'[k].used
  BY <1>1 DEF SavedBalance
<1>3. \A j \in BalanceKey : j # k => balance'[j] = balance[j]  BY DEF TypeInv, TypeOK
<1>. QED  BY <1>2, <1>3 DEF RemainingIsCast

LEMMA RemainingStep ==
  ASSUME SafeInv, NEW w \in Worker, WorkerStep(w)
  PROVE  RemainingIsCast'
<1>1. CASE balance' = balance  BY <1>1 DEF SafeInv, RemainingIsCast
<1>2. CASE Charges(w)
  <2>1. JobKey(w) \in BalanceKey
    BY <1>2, KeyOfType DEF Charges, At, JobKey, SafeInv, TypeInv, HandlerOK
  <2>. QED  BY <1>2, <2>1, SavedRemaining DEF Charges, SafeInv
<1>. QED  BY <1>1, <1>2, BalanceWrites DEF SafeInv

LEMMA SafeInit == Init => SafeInv
<1>. SUFFICES ASSUME Init PROVE SafeInv  OBVIOUS
<1>1. TypeInv  BY TypeInit
<1>2. Exclusion  BY DEF Init, Exclusion
<1>3. \A w \in Worker : WorkerInv(w) /\ Fresh(w) /\ NoClash(w)
  BY DEF Init, WorkerInv, Fresh, NoClash
<1>4. RemainingIsCast
  <2>. SUFFICES ASSUME NEW k \in BalanceKey, k \in OpenedBalance
                PROVE  balance[k].remaining = balance[k].allocated - balance[k].used
    BY DEF Init, RemainingIsCast
  <2>. QED  BY DEF Init, SavedBalance
<1>5. NoOverlap  BY DEF Init, NoOverlap, Active, Exists
<1>. QED  BY <1>1, <1>2, <1>3, <1>4, <1>5 DEF SafeInv

(* Steps of the company: no handler and no request changes, and a balance    *)
(* row appears only where there was none.                                    *)
LEMMA SafeOrganisation ==
  ASSUME SafeInv, Organisation \/ UNCHANGED vars
  PROVE  SafeInv'
<1>1. TypeInv'
  BY TypeStep, TypeOrganisation DEF SafeInv
<1>2. /\ UNCHANGED <<request, audit, handlerVars>>
      /\ \/ balance' = balance
         \/ \E k \in BalanceKey, a \in Nat :
              balance[k] = None /\ balance' = [balance EXCEPT ![k] = SavedBalance(a, 0)]
  <2>1. CASE Organisation  BY <2>1, OrganisationKeeps DEF SafeInv
  <2>2. CASE UNCHANGED vars  BY <2>2 DEF vars, dbVars
  <2>. QED  BY <2>1, <2>2
<1>3. \A k \in BalanceKey : balance[k] # None => balance'[k] = balance[k]
  BY <1>2 DEF SafeInv, TypeInv, TypeOK
<1>4. Exclusion'  BY <1>2 DEF SafeInv, Exclusion, handlerVars
<1>5. ASSUME NEW x \in Worker PROVE WorkerInv(x)' /\ Fresh(x)' /\ NoClash(x)'
  <2>1. SameHandler(x) /\ held'[x] = held[x] /\ want'[x] = want[x]
    BY <1>2 DEF SameHandler, handlerVars
  <2>2. WorkerInv(x)'  BY <1>2, <1>3, <2>1, WorkerInvKept
  <2>3. Fresh(x)' /\ NoClash(x)'
    BY <1>2 DEF SafeInv, Fresh, NoClash, OverlappingRequests, handlerVars
  <2>. QED  BY <2>2, <2>3
<1>6. RemainingIsCast'
  <2>1. CASE balance' = balance  BY <2>1 DEF SafeInv, RemainingIsCast
  <2>2. ASSUME NEW k \in BalanceKey, NEW a \in Nat,
               balance' = [balance EXCEPT ![k] = SavedBalance(a, 0)]
        PROVE  RemainingIsCast'
    BY <2>2, SavedRemaining DEF SafeInv
  <2>. QED  BY <1>2, <2>1, <2>2
<1>7. NoOverlap'  BY <1>2 DEF SafeInv, NoOverlap, Active, Exists
<1>. QED  BY <1>1, <1>4, <1>5, <1>6, <1>7 DEF SafeInv

(* An employee's deletion: whatever a handler has locked stays.              *)
LEMMA SafeDelete ==
  ASSUME SafeInv, NEW e \in Leaver, DeleteEmployee(e)
  PROVE  SafeInv'
<1>1. TypeInv'  BY TypeDelete DEF SafeInv
<1>2. /\ UNCHANGED <<audit, handlerVars>>
      /\ \A r \in Request : request'[r] = request[r] \/ request'[r] = None
      /\ \A k \in BalanceKey : balance'[k] = balance[k] \/ balance'[k] = None
      /\ \A x \in Worker, r \in Request :
           Update("request", r) \in held[x] => request'[r] = request[r]
      /\ \A x \in Worker, k \in BalanceKey :
           Update("balance", k) \in held[x] => balance'[k] = balance[k]
  BY DeletionKeeps DEF SafeInv
<1>3. Exclusion'  BY <1>2 DEF SafeInv, Exclusion, handlerVars
<1>4. ASSUME NEW x \in Worker PROVE WorkerInv(x)' /\ Fresh(x)' /\ NoClash(x)'
  <2>1. SameHandler(x) /\ held'[x] = held[x] /\ want'[x] = want[x]
    BY <1>2 DEF SameHandler, handlerVars
  <2>2. WorkerInv(x)'  BY <1>2, <2>1, WorkerInvKept
  <2>3. Fresh(x)'
    <3>1. pc[x] \in {"overlap", "insert"} => job[x].request \in Request
      BY DEF SafeInv, TypeInv, HandlerOK
    <3>. QED  BY <1>2, <3>1 DEF SafeInv, Fresh, handlerVars
  <2>4. NoClash(x)'
    <3>1. OverlappingRequests(row[x])' \subseteq OverlappingRequests(row[x])
      BY <1>2 DEF OverlappingRequests, handlerVars
    <3>. QED  BY <1>2, <3>1 DEF SafeInv, NoClash, handlerVars
  <2>. QED  BY <2>2, <2>3, <2>4
<1>5. RemainingIsCast'  BY <1>2 DEF SafeInv, RemainingIsCast
<1>6. NoOverlap'
  <2>1. \A r \in Request : Active(r)' => Active(r) /\ request'[r] = request[r]
    BY <1>2 DEF Active, Exists
  <2>. QED  BY <2>1 DEF SafeInv, NoOverlap
<1>. QED  BY <1>1, <1>3, <1>4, <1>5, <1>6 DEF SafeInv

LEMMA SafeStep == SafeInv /\ [Next]_vars => SafeInv'
<1>. SUFFICES ASSUME SafeInv, [Next]_vars PROVE SafeInv'  OBVIOUS
<1>1. ASSUME NEW w \in Worker, WorkerStep(w) PROVE SafeInv'
  <2>1. TypeInv'  BY TypeStep DEF SafeInv
  <2>2. Exclusion'  BY <1>1, ExclusionStep DEF SafeInv
  <2>3. ASSUME NEW x \in Worker, x # w PROVE WorkerInv(x)'
    <3>1. SameHandler(x) /\ held'[x] = held[x] /\ want'[x] = want[x]
      BY <1>1, <2>3, Locality DEF SafeInv
    <3>. QED  BY <1>1, <2>3, <3>1, LockedRowsKeep, WorkerInvKept
  <2>4. \A x \in Worker : WorkerInv(x)'  BY <1>1, <2>3, WorkerInvOwn
  <2>5. \A x \in Worker : Fresh(x)' /\ NoClash(x)'  BY <1>1, FreshStep, NoClashStep
  <2>6. RemainingIsCast' /\ NoOverlap'  BY <1>1, RemainingStep, NoOverlapStep
  <2>. QED  BY <2>1, <2>2, <2>4, <2>5, <2>6 DEF SafeInv
<1>2. Organisation \/ UNCHANGED vars => SafeInv'  BY SafeOrganisation
<1>. QED  BY <1>1, <1>2, SafeDelete DEF Next, WorkerStep

-----------------------------------------------------------------------------
(* The theorems.                                                             *)

THEOREM Safe == Spec => []SafeInv
BY SafeInit, SafeStep, PTL DEF Spec

(* No employee ever has two active requests on one date, however many        *)
(* submissions are processed at once: the employee row is locked from the    *)
(* overlap query to the insert.                                              *)
THEOREM OverlapsExcluded == Spec => []NoOverlap
<1>1. SafeInv => NoOverlap  BY DEF SafeInv
<1>. QED  BY <1>1, Safe, PTL

(* What a handler read under FOR UPDATE is what the tables hold when it      *)
(* writes.                                                                   *)
THEOREM ReadsStayCurrent == Spec => []LockedReadsStayCurrent
<1>1. SafeInv => LockedReadsStayCurrent  BY DEF SafeInv, WorkerInv, LockedReadsStayCurrent
<1>. QED  BY <1>1, Safe, PTL

(* No approval and no allocation is ever refused by a constraint of the      *)
(* table: the handler's own check decides.                                   *)
THEOREM SavesAccepted == Spec => []SavesAreAccepted
<1>1. SafeInv => SavesAreAccepted  BY DEF SafeInv, WorkerInv, SavesAreAccepted
<1>. QED  BY <1>1, Safe, PTL

(* A decision is taken once: rejected and cancelled are final, approved can  *)
(* only be cancelled, what was asked for never changes, and a request goes   *)
(* only in the step that deletes its employee.                               *)
THEOREM DecisionsFinal == Spec => DecisionFinal
<1>1. ASSUME SafeInv, [Next]_vars, NEW r \in Request, Exists(r)
      PROVE  DecidedOnce(r)
  <2>1. CASE request'[r] = request[r]  BY <1>1, <2>1 DEF Exists, DecidedOnce
  <2>2. ASSUME NEW w \in Worker, WorkerStep(w), request'[r] # request[r]
        PROVE  DecidedOnce(r)
    <3>1. ASSUME Inserts(w) PROVE FALSE
      <4>1. request[job[w].request] = None  BY <1>1, <3>1, InsertsFreshRow
      <4>2. r # job[w].request  BY <1>1, <4>1 DEF Exists
      <4>3. request'[r] = request[r]
        BY <1>1, <3>1, <4>2 DEF Inserts, SafeInv, TypeInv, TypeOK
      <4>. QED  BY <2>2, <4>3
    <3>2. PICK status \in {"APPROVED", "REJECTED", "CANCELLED"} : Decides(w, status)
      BY <1>1, <2>2, <3>1, RequestWrites DEF SafeInv
    <3>3. r = job[w].request
      BY <1>1, <2>2, <3>2 DEF Decides, SafeInv, TypeInv, TypeOK
    <3>4. /\ request[r] \in RequestRow /\ request'[r] \in RequestRow
          /\ request'[r].status = status
          /\ request'[r].employee = request[r].employee
          /\ request'[r].type = request[r].type
          /\ request'[r].start = request[r].start
          /\ request'[r].end = request[r].end
          /\ request'[r].days = request[r].days
          /\ StatusAllows(job[w].op, request[r].status)
      BY <1>1, <3>2, <3>3, DecidesWhatItRead
    <3>5. job[w].op = "cancel" <=> status = "CANCELLED"  BY <3>2 DEF Decides
    <3>6. \/ request[r].status = "PENDING"
          \/ request[r].status = "APPROVED" /\ request'[r].status = "CANCELLED"
      BY <3>4, <3>5 DEF StatusAllows, ActiveStatus
    <3>7. [request'[r] EXCEPT !.status = "PENDING", !.approvedBy = None]
            = [request[r] EXCEPT !.status = "PENDING", !.approvedBy = None]
      BY <3>4 DEF RequestRow
    <3>8. Exists(r)'  BY <3>4, NoneAssumption DEF Exists
    <3>. QED  BY <3>6, <3>7, <3>8 DEF DecidedOnce
  <2>3. CASE Organisation
    BY <1>1, <2>1, <2>3, OrganisationKeeps DEF SafeInv
  <2>4. CASE UNCHANGED vars  BY <2>1, <2>4 DEF vars, dbVars
  <2>5. ASSUME NEW e \in Leaver, DeleteEmployee(e) PROVE DecidedOnce(r)
    <3>1. /\ request'[r] = IF Of(e, r) THEN None ELSE request[r]
          /\ staff' = staff \ {e}
      BY <2>5, <1>1, DeletionKeeps DEF SafeInv
    <3>2. CASE Of(e, r)
      <4>1. request[r].employee \notin staff'  BY <3>1, <3>2 DEF Of
      <4>. QED  BY <3>1, <3>2, <4>1 DEF DecidedOnce, Exists
    <3>. QED  BY <2>1, <3>1, <3>2
  <2>. QED  BY <1>1, <2>1, <2>2, <2>3, <2>4, <2>5 DEF Next, WorkerStep
<1>2. SafeInv /\ [Next]_vars => [\A r \in Request : Exists(r) => DecidedOnce(r)]_vars  BY <1>1
<1>3. Spec => [][\A r \in Request : Exists(r) => DecidedOnce(r)]_vars  BY <1>2, Safe, PTL DEF Spec
<1>. QED  BY <1>3 DEF DecisionFinal

(* Appending to the histories that occur.                                    *)
LEMMA AppendToNone == Append(<<>>, "SUBMITTED") = <<"SUBMITTED">>
OBVIOUS

LEMMA AppendToOne ==
  ASSUME NEW s \in AuditAction
  PROVE  Append(<<"SUBMITTED">>, s) = <<"SUBMITTED", s>>
<1> DEFINE a == Append(<<"SUBMITTED">>, s)
           b == <<"SUBMITTED", s>>
<1>1. <<"SUBMITTED">> \in Seq(AuditAction)  BY DEF AuditAction
<1>2. a \in Seq(AuditAction) /\ Len(a) = 2 /\ a[1] = "SUBMITTED" /\ a[2] = s  BY <1>1
<1>3. b \in Seq(AuditAction) /\ Len(b) = 2 /\ b[1] = "SUBMITTED" /\ b[2] = s
  BY DEF AuditAction
<1>4. \A i \in 1..2 : a[i] = b[i]  BY <1>2, <1>3
<1>5. a = b
  <2>. HIDE DEF a, b
  <2>. QED  BY <1>2, <1>3, <1>4, SeqEqual
<1>. QED  BY <1>5

LEMMA AppendToTwo ==
  ASSUME NEW s \in AuditAction
  PROVE  Append(<<"SUBMITTED", "APPROVED">>, s) = <<"SUBMITTED", "APPROVED", s>>
<1> DEFINE a == Append(<<"SUBMITTED", "APPROVED">>, s)
           b == <<"SUBMITTED", "APPROVED", s>>
<1>1. <<"SUBMITTED", "APPROVED">> \in Seq(AuditAction)  BY DEF AuditAction
<1>2. /\ a \in Seq(AuditAction) /\ Len(a) = 3
      /\ a[1] = "SUBMITTED" /\ a[2] = "APPROVED" /\ a[3] = s
  BY <1>1
<1>3. /\ b \in Seq(AuditAction) /\ Len(b) = 3
      /\ b[1] = "SUBMITTED" /\ b[2] = "APPROVED" /\ b[3] = s
  BY DEF AuditAction
<1>4. \A i \in 1..3 : a[i] = b[i]  BY <1>2, <1>3
<1>5. a = b
  <2>. HIDE DEF a, b
  <2>. QED  BY <1>2, <1>3, <1>4, SeqEqual
<1>. QED  BY <1>5

-----------------------------------------------------------------------------
(* The audit log, and the employees it outlives.                             *)

(* A request has its employee, also the one about to be inserted.            *)
EmployeesExist ==
  /\ \A r \in Request : Exists(r) => request[r].employee \in staff
  /\ \A w \in Worker : pc[w] = "insert" => row[w].employee \in staff

LEMMA StaffOnlyLeaves ==
  ASSUME SafeInv, [Next]_vars
  PROVE  staff' = staff \/ \E e \in Leaver : DeleteEmployee(e)
<1>1. ASSUME NEW w \in Worker, Call(w) \/ Acquire(w) \/ DeadlockAbort(w) \/ Crash(w)
      PROVE  staff' = staff
  BY <1>1, CallBegins DEF Acquire, DeadlockAbort, Crash, orgVars
<1>2. ASSUME NEW w \in Worker, Proceed(w) PROVE staff' = staff
  BY <1>2 DEF Proceed, CheckOverlap, InsertRequest, ReadRequest, ReadBalance, ApproveCommit,
     RaiseFromSave, RejectCommit, CancelCommit, AllocateCommit, Notify, Commit, orgVars
<1>3. Organisation => staff' = staff  BY OrganisationKeeps DEF SafeInv
<1>4. UNCHANGED vars => staff' = staff  BY DEF vars, orgVars
<1>. QED  BY <1>1, <1>2, <1>3, <1>4 DEF Next

LEMMA EmployeesExistStep ==
  ASSUME SafeInv, EmployeesExist, [Next]_vars
  PROVE  EmployeesExist'
<1>1. ASSUME NEW w \in Worker, WorkerStep(w), staff' = staff PROVE EmployeesExist'
  <2>1. ASSUME NEW r \in Request, Exists(r)' PROVE request'[r].employee \in staff
    <3>1. CASE request' = request  BY <2>1, <3>1 DEF EmployeesExist, Exists
    <3>2. CASE Inserts(w)
      <4>1. /\ pc[w] = "insert" /\ job[w].request \in Request
            /\ request'[job[w].request] = row[w]
        BY <3>2, InsertsFreshRow
      <4>2. r # job[w].request => request'[r] = request[r]
        BY <3>2 DEF Inserts, SafeInv, TypeInv, TypeOK
      <4>. QED  BY <2>1, <4>1, <4>2 DEF EmployeesExist, Exists
    <3>3. ASSUME NEW status \in {"APPROVED", "REJECTED", "CANCELLED"}, Decides(w, status)
          PROVE  request'[r].employee \in staff
      <4>1. /\ job[w].request \in Request /\ request[job[w].request] # None
            /\ request'[job[w].request].employee = request[job[w].request].employee
        BY <3>3, DecidesWhatItRead
      <4>2. r # job[w].request => request'[r] = request[r]
        BY <3>3 DEF Decides, SafeInv, TypeInv, TypeOK
      <4>. QED  BY <2>1, <4>1, <4>2 DEF EmployeesExist, Exists
    <3>. QED  BY <1>1, <3>1, <3>2, <3>3, RequestWrites DEF SafeInv
  <2>2. ASSUME NEW x \in Worker, pc'[x] = "insert" PROVE row'[x].employee \in staff
    <3>1. CASE x = w  BY <1>1, <2>2, <3>1, ReachesInsert DEF EmployeesExist
    <3>2. CASE x # w
      <4>1. pc[x] = "insert" /\ row'[x] = row[x]
        BY <1>1, <2>2, <3>2, Locality DEF SafeInv, SameHandler
      <4>. QED  BY <4>1 DEF EmployeesExist
    <3>. QED  BY <3>1, <3>2
  <2>. QED  BY <1>1, <2>1, <2>2 DEF EmployeesExist
<1>2. ASSUME NEW e \in Leaver, DeleteEmployee(e) PROVE EmployeesExist'
  <2>1. /\ UNCHANGED handlerVars /\ staff' = staff \ {e}
        /\ \A r \in Request : request'[r] = IF Of(e, r) THEN None ELSE request[r]
        /\ \A x \in Worker : Update("employee", e) \notin held[x]
    BY <1>2, DeletionKeeps DEF SafeInv
  <2>2. ASSUME NEW r \in Request, Exists(r)' PROVE request'[r].employee \in staff'
    <3>1. ~Of(e, r) /\ request'[r] = request[r]  BY <2>1, <2>2 DEF Exists
    <3>2. request[r].employee # e  BY <2>2, <3>1 DEF Of, Exists
    <3>. QED  BY <2>1, <2>2, <3>1, <3>2 DEF EmployeesExist, Exists
  <2>3. ASSUME NEW x \in Worker, pc'[x] = "insert" PROVE row'[x].employee \in staff'
    <3>1. pc[x] = "insert" /\ row'[x] = row[x]  BY <2>1, <2>3 DEF handlerVars
    <3>2. Update("employee", row[x].employee) \in held[x]
      BY <3>1 DEF SafeInv, WorkerInv
    <3>. QED  BY <2>1, <3>1, <3>2 DEF EmployeesExist
  <2>. QED  BY <2>2, <2>3 DEF EmployeesExist
<1>3. CASE staff' = staff /\ UNCHANGED <<request, handlerVars>>
  BY <1>3 DEF EmployeesExist, Exists, handlerVars
<1>4. CASE Organisation  BY <1>3, <1>4, OrganisationKeeps DEF SafeInv
<1>5. CASE UNCHANGED vars  BY <1>3, <1>5 DEF vars, dbVars, orgVars
<1>6. ASSUME NEW w \in Worker, WorkerStep(w) PROVE EmployeesExist'
  BY <1>1, <1>2, <1>6, StaffOnlyLeaves
<1>. QED  BY <1>2, <1>4, <1>5, <1>6 DEF Next, WorkerStep

(* A log is the history of a request, or that of one which went with its     *)
(* employee.                                                                 *)
Outlived(r) == staff # Employee /\ \E status \in Status : audit[r] \in Histories(status)
Logged(r) ==
  IF Exists(r) THEN audit[r] \in Histories(request[r].status)
  ELSE audit[r] # <<>> => Outlived(r)

LEMMA LogKept ==
  ASSUME NEW r \in Request, Logged(r), staff \subseteq Employee,
         request'[r] = request[r], audit'[r] = audit[r], staff' \subseteq staff
  PROVE  Logged(r)'
<1>1. Exists(r)' <=> Exists(r)  BY DEF Exists
<1>2. CASE Exists(r)
  <2>1. audit'[r] \in Histories(request'[r].status)  BY <1>2 DEF Logged
  <2>. QED  BY <1>1, <1>2, <2>1 DEF Logged
<1>3. CASE ~Exists(r)
  <2>1. Outlived(r) => Outlived(r)'
    <3>1. staff # Employee => staff' # Employee  OBVIOUS
    <3>. QED  BY <3>1 DEF Outlived
  <2>. QED  BY <1>1, <1>3, <2>1 DEF Logged
<1>. QED  BY <1>2, <1>3

LEMMA LogWorker ==
  ASSUME SafeInv, NEW r \in Request, Logged(r), NEW w \in Worker, WorkerStep(w),
         staff' = staff
  PROVE  Logged(r)'
<1>0. staff \subseteq Employee /\ staff' \subseteq staff  BY DEF SafeInv, TypeInv, TypeOK
<1>1. CASE request'[r] = request[r] /\ audit'[r] = audit[r]  BY <1>0, <1>1, LogKept
<1>2. CASE Inserts(w)
  <2>1. CASE r = job[w].request
    <3>1. /\ row[w] \in RequestRow /\ request'[r] = row[w]
          /\ row[w].status = "PENDING" /\ audit[r] = <<>>
      BY <1>2, <2>1, InsertsFreshRow DEF SafeInv, TypeInv, HandlerOK
    <3>2. audit'[r] = <<"SUBMITTED">>
      BY <1>2, <2>1, <3>1, AppendToNone DEF Inserts, SafeInv, TypeInv, TypeOK
    <3>. QED  BY <3>1, <3>2, NoneAssumption DEF Logged, Histories, Exists
  <2>2. CASE r # job[w].request
    BY <1>1, <1>2, <2>2 DEF Inserts, SafeInv, TypeInv, TypeOK
  <2>. QED  BY <2>1, <2>2
<1>3. ASSUME NEW status \in {"APPROVED", "REJECTED", "CANCELLED"}, Decides(w, status)
      PROVE  Logged(r)'
  <2>1. CASE r = job[w].request
    <3>1. /\ request[r] # None /\ request[r] \in RequestRow
          /\ request'[r] \in RequestRow /\ request'[r].status = status
          /\ StatusAllows(job[w].op, request[r].status)
      BY <1>3, <2>1, DecidesWhatItRead
    <3>2. Exists(r)'  BY <3>1, NoneAssumption DEF Exists
    <3>3. audit'[r] = Append(audit[r], status)
      BY <1>3, <2>1 DEF Decides, SafeInv, TypeInv, TypeOK
    <3>4. status \in AuditAction  BY DEF AuditAction
    <3>5. audit[r] \in Histories(request[r].status)  BY <3>1 DEF Logged, Exists
    <3>6. CASE request[r].status = "PENDING"
      <4>1. audit[r] = <<"SUBMITTED">>  BY <3>5, <3>6 DEF Histories
      <4>2. audit'[r] = <<"SUBMITTED", status>>  BY <3>3, <3>4, <4>1, AppendToOne
      <4>3. audit'[r] \in Histories(status)  BY <4>2 DEF Histories
      <4>. QED  BY <3>1, <3>2, <4>3 DEF Logged
    <3>7. CASE request[r].status = "APPROVED" /\ status = "CANCELLED"
      <4>1. audit[r] = <<"SUBMITTED", "APPROVED">>  BY <3>5, <3>7 DEF Histories
      <4>2. audit'[r] = <<"SUBMITTED", "APPROVED", "CANCELLED">>
        BY <3>3, <3>4, <3>7, <4>1, AppendToTwo
      <4>3. audit'[r] \in Histories(status)  BY <3>7, <4>2 DEF Histories
      <4>. QED  BY <3>1, <3>2, <4>3 DEF Logged
    <3>8. request[r].status = "PENDING"
            \/ (request[r].status = "APPROVED" /\ status = "CANCELLED")
      BY <1>3, <3>1 DEF Decides, StatusAllows, ActiveStatus
    <3>. QED  BY <3>6, <3>7, <3>8
  <2>2. CASE r # job[w].request
    BY <1>1, <1>3, <2>2 DEF Decides, SafeInv, TypeInv, TypeOK
  <2>. QED  BY <2>1, <2>2
<1>. QED  BY <1>1, <1>2, <1>3, RequestWrites DEF SafeInv

LEMMA LogDelete ==
  ASSUME SafeInv, NEW r \in Request, Logged(r), NEW e \in Leaver, DeleteEmployee(e)
  PROVE  Logged(r)'
<1>1. /\ audit' = audit /\ staff' = staff \ {e}
      /\ request'[r] = IF Of(e, r) THEN None ELSE request[r]
  BY DeletionKeeps DEF SafeInv
<1>2. e \in Employee /\ staff \subseteq Employee
  BY LeaveAssumption DEF SafeInv, TypeInv, TypeOK
<1>3. CASE ~Of(e, r)  BY <1>1, <1>2, <1>3, LogKept
<1>4. CASE Of(e, r)
  <2>1. request[r] \in RequestRow  BY <1>4 DEF Of, SafeInv, TypeInv, TypeOK
  <2>2. request[r].status \in Status /\ audit[r] \in Histories(request[r].status)
    BY <1>4, <2>1 DEF Of, Logged, Exists, RequestRow
  <2>3. staff' # Employee  BY <1>1, <1>2
  <2>4. Outlived(r)'  BY <1>1, <2>2, <2>3 DEF Outlived
  <2>. QED  BY <1>1, <1>4, <2>4 DEF Logged, Exists
<1>. QED  BY <1>3, <1>4

LEMMA LogStep ==
  ASSUME SafeInv, NEW r \in Request, Logged(r), [Next]_vars
  PROVE  Logged(r)'
<1>1. staff \subseteq Employee  BY DEF SafeInv, TypeInv, TypeOK
<1>2. CASE staff' = staff /\ UNCHANGED <<request, audit>>  BY <1>1, <1>2, LogKept
<1>3. CASE Organisation  BY <1>2, <1>3, OrganisationKeeps DEF SafeInv
<1>4. CASE UNCHANGED vars  BY <1>2, <1>4 DEF vars, dbVars, orgVars
<1>5. ASSUME NEW w \in Worker, WorkerStep(w) PROVE Logged(r)'
  BY <1>5, LogWorker, LogDelete, StaffOnlyLeaves
<1>. QED  BY <1>3, <1>4, <1>5, LogDelete DEF Next, WorkerStep

(* The audit log of every request is a legal history that ends in its        *)
(* status, of an employee there is; a log without a request is the legal     *)
(* history of one that went with its employee.                               *)
THEOREM AuditTruthful == Spec => []AuditTellsHistory
<1> DEFINE AllLogged == \A r \in Request : Logged(r)
<1>1. Init => EmployeesExist /\ AllLogged
  BY DEF Init, EmployeesExist, Logged, Exists
<1>2. SafeInv /\ EmployeesExist /\ AllLogged /\ [Next]_vars => (EmployeesExist /\ AllLogged)'
  BY EmployeesExistStep, LogStep
<1>3. EmployeesExist /\ AllLogged => AuditTellsHistory
  BY DEF EmployeesExist, Logged, Outlived, AuditTellsHistory, Exists
<1>. HIDE DEF AllLogged
<1>. QED  BY <1>1, <1>2, <1>3, Safe, PTL DEF Spec

(* The management command never overwrites a balance, whatever happened       *)
(* between its listing and its inserts.                                       *)
THEOREM CommandHarmless == Spec => CommandKeepsBalances
<1>1. ASSUME TypeInv, [Next]_vars, batch' # batch, NEW k \in BalanceKey, balance[k] # None
      PROVE  balance'[k] = balance[k]
  <2>1. CASE Organisation
    BY <1>1, <2>1, OrganisationKeeps DEF TypeInv, TypeOK
  <2>2. ASSUME NEW w \in Worker, WorkerStep(w) PROVE FALSE
    <3>1. CASE Call(w) \/ Acquire(w) \/ DeadlockAbort(w) \/ Crash(w)
      BY <1>1, <3>1, CallBegins DEF Acquire, DeadlockAbort, Crash, orgVars
    <3>2. CASE Proceed(w)
      BY <1>1, <3>2 DEF Proceed, CheckOverlap, InsertRequest, ReadRequest, ReadBalance,
         ApproveCommit, RaiseFromSave, RejectCommit, CancelCommit, AllocateCommit, Notify,
         Commit, orgVars
    <3>. QED  BY <2>2, <3>1, <3>2 DEF WorkerStep
  <2>3. CASE UNCHANGED vars  BY <1>1, <2>3 DEF vars, orgVars
  <2>4. ASSUME NEW e \in Leaver, DeleteEmployee(e) PROVE FALSE
    BY <1>1, <2>4 DEF DeleteEmployee
  <2>. QED  BY <1>1, <2>1, <2>2, <2>3, <2>4 DEF Next, WorkerStep
<1>2. TypeInv /\ [Next]_vars =>
        [batch' # batch =>
           \A k \in BalanceKey : balance[k] # None => balance'[k] = balance[k]]_vars
  BY <1>1
<1>3. Spec => []TypeInv  BY TypeInit, TypeStep, PTL DEF Spec
<1>. QED  BY <1>2, <1>3, PTL DEF Spec, CommandKeepsBalances

-----------------------------------------------------------------------------
(* Sums over finite sets, by least counterexample: MapThenSumSet is a choice *)
(* of a recursive function, of which first existence and then agreement are  *)
(* shown on the subsets of a finite set.                                     *)

(* A set of natural numbers that is not empty has a least one.               *)
LEMMA LeastNat ==
  ASSUME NEW T \in SUBSET Nat, T # {}
  PROVE  \E n \in T : \A m \in T : n <= m
<1> DEFINE R == OpToRel(<, Nat)
<1>1. IsWellFoundedOn(R, Nat)  BY NatLessThanWellFounded, Zenon
<1>2. \A m, n \in Nat : m < n => <<m, n>> \in R  BY DEF OpToRel
<1> HIDE DEF R
<1>3. \E n \in T : \A m \in T : ~(<<m, n>> \in R)  BY <1>1, WFMin
<1>4. PICK n \in T : \A m \in T : ~(<<m, n>> \in R)  BY <1>3
<1>5. ASSUME NEW m \in T PROVE n <= m
  <2>1. m \in Nat /\ n \in Nat  OBVIOUS
  <2>2. ~(m < n)  BY <1>2, <1>4, <2>1
  <2>. QED  BY <2>1, <2>2
<1>. QED  BY <1>5

(* The days of a set of requests, and how they add up.                       *)
Days(q, S) == MapThenSumSet(LAMBDA r : q[r].days, S)
(* MapThenSumSet picks an element, and sums from a table of smaller sets.    *)
Element(s) == CHOOSE x \in s : TRUE
Entry(q, g, s) == IF s = {} THEN 0 ELSE q[Element(s)].days + g[s \ {Element(s)}]
IsTable(q, S, g) == g = [s \in SUBSET S |-> Entry(q, g, s)]

LEMMA DaysTable ==
  ASSUME NEW q, NEW S
  PROVE  Days(q, S) = (CHOOSE g : IsTable(q, S, g))[S]
BY DEF Days, IsTable, Entry, Element, MapThenSumSet, MapThenFoldSet

LEMMA ElementIn ==
  ASSUME NEW s, s # {}
  PROVE  Element(s) \in s
BY DEF Element

LEMMA Smaller ==
  ASSUME NEW s, IsFiniteSet(s), NEW x \in s
  PROVE  /\ IsFiniteSet(s \ {x}) /\ Cardinality(s) \in Nat /\ Cardinality(s \ {x}) \in Nat
         /\ Cardinality(s \ {x}) = Cardinality(s) - 1
BY FS_RemoveElement, FS_CardinalityType

(* Requests with the same days.                                              *)
SameOn(q, p, S) == \A r \in S : q[r].days = p[r].days

(* Two tables agree where their requests have the same days.                 *)
LEMMA TablesAgree ==
  ASSUME NEW q, NEW p, NEW S, NEW P, IsFiniteSet(S), S \subseteq P,
         SameOn(q, p, S),
         NEW g, IsTable(q, S, g), NEW h, IsTable(p, P, h)
  PROVE  g[S] = h[S]
<1> DEFINE Bad == {s \in SUBSET S : g[s] # h[s]}
           T == {Cardinality(s) : s \in Bad}
<1> SUFFICES ASSUME Bad # {} PROVE FALSE  OBVIOUS
<1>0. \A r \in S : q[r].days = p[r].days  BY DEF SameOn
<1>1. \A s \in SUBSET S : IsFiniteSet(s) /\ Cardinality(s) \in Nat
  BY FS_Subset, FS_CardinalityType
<1>2. T \in SUBSET Nat /\ T # {}  BY <1>1
<1>3. PICK s \in Bad : \A t \in Bad : Cardinality(s) <= Cardinality(t)
  <2>1. PICK n \in T : \A m \in T : n <= m  BY <1>2, LeastNat
  <2>. QED  BY <2>1
<1>4. s # {} 
  BY DEF IsTable, Entry
<1> DEFINE x == Element(s)
<1>5. x \in s  BY <1>4, ElementIn
<1>6. /\ Cardinality(s \ {x}) < Cardinality(s) /\ Cardinality(s \ {x}) \in Nat
      /\ Cardinality(s) \in Nat
  BY <1>1, <1>5, Smaller
<1>7. g[s \ {x}] = h[s \ {x}]  BY <1>3, <1>6
<1>8. g[s] = q[x].days + g[s \ {x}] /\ h[s] = p[x].days + h[s \ {x}]
  BY <1>4 DEF IsTable, Entry
<1>. QED  BY <1>0, <1>3, <1>5, <1>7, <1>8

(* Every finite set has its table.                                           *)
LEMMA TableExists ==
  ASSUME NEW q, NEW S, IsFiniteSet(S)
  PROVE  \E g : IsTable(q, S, g)
<1> DEFINE Upto(n, g) == \A s \in SUBSET S : Cardinality(s) <= n => g[s] = Entry(q, g, s)
           Has(n) == \E g : g = [s \in SUBSET S |-> g[s]] /\ Upto(n, g)
           T == {n \in Nat : ~Has(n)}
<1>1. \A s \in SUBSET S : IsFiniteSet(s) /\ Cardinality(s) \in Nat
  BY FS_Subset, FS_CardinalityType
<1>2. Has(0)
  <2> DEFINE g == [s \in SUBSET S |-> 0]
  <2>1. \A s \in SUBSET S : Cardinality(s) <= 0 => s = {}  BY <1>1, FS_EmptySet
  <2>2. Upto(0, g)  BY <2>1 DEF Entry
  <2>3. g = [s \in SUBSET S |-> g[s]]  OBVIOUS
  <2>. QED  BY <2>2, <2>3
<1>3. ASSUME NEW n \in Nat, Has(n) PROVE Has(n + 1)
  <2>1. PICK g : g = [s \in SUBSET S |-> g[s]] /\ Upto(n, g)  BY <1>3
  <2> DEFINE h == [s \in SUBSET S |-> IF Cardinality(s) <= n THEN g[s] ELSE Entry(q, g, s)]
  <2>2. ASSUME NEW s \in SUBSET S, Cardinality(s) <= n + 1 PROVE h[s] = Entry(q, h, s)
    <3>1. h[s] = Entry(q, g, s)  BY <2>1, <2>2
    <3>2. CASE s = {}  BY <3>1, <3>2 DEF Entry
    <3>3. CASE s # {}
      <4>1. Element(s) \in s  BY <3>3, ElementIn
      <4>2. Cardinality(s \ {Element(s)}) <= n  BY <1>1, <2>2, <4>1, Smaller
      <4>3. h[s \ {Element(s)}] = g[s \ {Element(s)}]  BY <4>2
      <4>. QED  BY <3>1, <3>3, <4>3 DEF Entry
    <3>. QED  BY <3>2, <3>3
  <2>3. h = [s \in SUBSET S |-> h[s]]  OBVIOUS
  <2>4. Upto(n + 1, h)  BY <2>2
  <2>. QED  BY <2>3, <2>4
<1>4. \A n \in Nat : Has(n)
  <2> SUFFICES ASSUME T # {} PROVE FALSE  OBVIOUS
  <2> HIDE DEF Has
  <2>1. PICK n \in T : \A m \in T : n <= m  BY LeastNat
  <2>2. n # 0  BY <1>2, <2>1
  <2>3. n - 1 \in Nat /\ n - 1 \notin T  BY <2>1, <2>2
  <2>. QED  BY <1>3, <2>1, <2>3
<1>5. PICK g : g = [s \in SUBSET S |-> g[s]] /\ Upto(Cardinality(S), g)
  BY <1>1, <1>4
<1>6. \A s \in SUBSET S : g[s] = Entry(q, g, s)
  <2>1. \A s \in SUBSET S : Cardinality(s) <= Cardinality(S)  BY FS_Subset
  <2>. QED  BY <1>5, <2>1
<1>. QED  BY <1>5, <1>6 DEF IsTable

(* The sum can be looked up in any table that agrees.                        *)
LEMMA DaysOf ==
  ASSUME NEW q, NEW S, IsFiniteSet(S), NEW p, NEW P, IsFiniteSet(P), S \subseteq P,
         \A r \in S : q[r].days = p[r].days, NEW h, IsTable(p, P, h)
  PROVE  Days(q, S) = h[S]
<1>1. \E g : IsTable(q, S, g)  BY TableExists
<1>2. PICK g : IsTable(q, S, g) /\ Days(q, S) = g[S]  BY <1>1, DaysTable
<1>3. SameOn(q, p, S)  BY DEF SameOn
<1>4. g[S] = h[S]
  <2>1. S \subseteq P /\ IsFiniteSet(S)  OBVIOUS
  <2>2. IsTable(q, S, g) /\ IsTable(p, P, h)  BY <1>2
  <2>. QED  BY <1>3, <2>1, <2>2, TablesAgree
<1>. QED  BY <1>2, <1>4

(* No requests, no days; the same days, the same sum.                        *)
LEMMA NoDays ==
  ASSUME NEW q
  PROVE  Days(q, {}) = 0
<1>0. IsFiniteSet({})  BY FS_EmptySet
<1>1. PICK h : IsTable(q, {}, h)  BY <1>0, TableExists
<1>2. Days(q, {}) = h[{}]  BY <1>0, <1>1, DaysOf
<1>3. h[{}] = 0  BY <1>1 DEF IsTable, Entry
<1>. QED  BY <1>2, <1>3

LEMMA SameDays ==
  ASSUME NEW q, NEW p, NEW S, IsFiniteSet(S), \A r \in S : q[r].days = p[r].days
  PROVE  Days(q, S) = Days(p, S)
<1>1. PICK h : IsTable(p, S, h)  BY TableExists
<1>. QED  BY <1>1, DaysOf

(* One request less, whichever it is, is its days less.                      *)
LEMMA DaysWithout ==
  ASSUME NEW q, NEW S, IsFiniteSet(S), \A r \in S : q[r].days \in Nat, NEW r \in S
  PROVE  /\ Days(q, S \ {r}) \in Nat
         /\ Days(q, S) = q[r].days + Days(q, S \ {r})
<1>1. PICK h : IsTable(q, S, h)  BY TableExists
<1>2. \A s \in SUBSET S : IsFiniteSet(s) /\ Cardinality(s) \in Nat
  BY FS_Subset, FS_CardinalityType
<1>3. \A s \in SUBSET S : Days(q, s) = h[s]  BY <1>1, <1>2, DaysOf
<1> DEFINE Good(s) == h[s] \in Nat /\ \A y \in s : h[s] = q[y].days + h[s \ {y}]
           Bad == {s \in SUBSET S : ~Good(s)}
           T == {Cardinality(s) : s \in Bad}
<1>4. ASSUME Bad # {} PROVE FALSE
  <2>1. T \in SUBSET Nat /\ T # {}  BY <1>2, <1>4
  <2>2. PICK n \in T : \A m \in T : n <= m  BY <2>1, LeastNat
  <2>3. PICK s \in Bad : \A t \in Bad : Cardinality(s) <= Cardinality(t)  BY <2>2
  <2>4. s # {}  BY <1>1 DEF IsTable, Entry
  <2> DEFINE x == Element(s)
  <2>5. x \in s  BY <2>4, ElementIn
  <2>6. h[s] = q[x].days + h[s \ {x}]  BY <1>1, <2>4 DEF IsTable, Entry
  <2> HIDE DEF x, Good
  <2>7. \A y \in s : Good(s \ {y})
    <3> SUFFICES ASSUME NEW y \in s PROVE s \ {y} \notin Bad  OBVIOUS
    <3>1. Cardinality(s \ {y}) = Cardinality(s) - 1 /\ Cardinality(s) \in Nat
      BY <1>2, Smaller
    <3>. QED  BY <2>3, <3>1
  <2>8. h[s] \in Nat
    <3>1. h[s \ {x}] \in Nat  BY <2>5, <2>7 DEF Good
    <3>2. q[x].days \in Nat  BY <2>5
    <3>. QED  BY <2>6, <3>1, <3>2
  <2>9. ASSUME NEW y \in s, y # x PROVE h[s] = q[y].days + h[s \ {y}]
    <3>1. h[s \ {x}] = q[y].days + h[(s \ {x}) \ {y}]  BY <2>5, <2>7, <2>9 DEF Good
    <3>2. h[s \ {y}] = q[x].days + h[(s \ {y}) \ {x}]  BY <2>5, <2>7, <2>9 DEF Good
    <3>3. (s \ {x}) \ {y} = (s \ {y}) \ {x}  OBVIOUS
    <3>4. q[x].days \in Nat /\ q[y].days \in Nat /\ h[s \ {x}] \in Nat /\ h[s \ {y}] \in Nat
      BY <2>5, <2>7 DEF Good
    <3> DEFINE t == (s \ {x}) \ {y}
    <3>5. h[t] \in Nat
      <4>1. Cardinality(t) < Cardinality(s)
        <5>1. /\ Cardinality(s \ {x}) = Cardinality(s) - 1 /\ Cardinality(s) \in Nat
              /\ IsFiniteSet(s \ {x}) /\ y \in s \ {x}
          BY <1>2, <2>5, <2>9, Smaller
        <5>2. Cardinality(t) = Cardinality(s \ {x}) - 1  BY <5>1, Smaller
        <5>. QED  BY <5>1, <5>2
      <4>2. t \in SUBSET S /\ Cardinality(t) \in Nat /\ Cardinality(s) \in Nat  BY <1>2
      <4>3. t \notin Bad  BY <2>3, <4>1, <4>2
      <4>. QED  BY <4>2, <4>3 DEF Good
    <3>6. h[s \ {x}] = q[y].days + h[t] /\ h[s \ {y}] = q[x].days + h[t]
      BY <3>1, <3>2, <3>3
    <3> HIDE DEF t
    <3>. QED  BY <2>6, <3>4, <3>5, <3>6
  <2>. QED  BY <2>3, <2>6, <2>8, <2>9 DEF Good
<1>5. Good(S) /\ Good(S \ {r})  BY <1>4
<1>. QED  BY <1>3, <1>5

-----------------------------------------------------------------------------
(* The charges of the approved requests.                                     *)

(* A balance has been charged with exactly its approved requests, and leave  *)
(* is only approved where there is a balance.                                *)
ChargeInv(k) ==
  /\ IsFiniteSet(Charged(k))
  /\ balance[k] = None => Charged(k) = {}
  /\ balance[k] # None => balance[k].used = Days(request, Charged(k))

(* A cancellation has read a balance exactly when the leave was approved.    *)
BalanceHeld(w) ==
  job[w].op = "cancel" =>
    /\ pc[w] = "balance" => row[w].status = "APPROVED"
    /\ pc[w] = "commit" => (bal[w] # None <=> row[w].status = "APPROVED")

(* All of it is inductive once SafeInv holds.                                *)
ChargesInv ==
  /\ \A k \in BalanceKey : ChargeInv(k)
  /\ \A w \in Worker : BalanceHeld(w)

(* A step that charges and restores nothing.                                 *)
LEMMA ChargeKept ==
  ASSUME NEW k \in BalanceKey, ChargeInv(k), Charged(k)' = Charged(k),
         \A r \in Charged(k) : request'[r].days = request[r].days,
         balance[k] # None =>
           balance'[k] # None /\ balance'[k].used = balance[k].used,
         balance[k] = None => balance'[k] = None \/ balance'[k].used = 0
  PROVE  ChargeInv(k)'
<1>1. IsFiniteSet(Charged(k)) /\ IsFiniteSet(Charged(k))'  BY DEF ChargeInv
<1>2. Days(request, Charged(k))' = Days(request', Charged(k))  OBVIOUS
<1>3. Days(request', Charged(k)) = Days(request, Charged(k))
  BY <1>1, SameDays
<1>4. Charged(k) = {} => Days(request, Charged(k)) = 0  BY NoDays
<1>. QED  BY <1>1, <1>2, <1>3, <1>4 DEF ChargeInv

(* Which requests are charged after a decision.                              *)
LEMMA ChargedAfter ==
  ASSUME SafeInv, NEW w \in Worker,
         NEW status \in {"APPROVED", "REJECTED", "CANCELLED"}, Decides(w, status),
         NEW k \in BalanceKey
  PROVE  LET r == job[w].request IN
         /\ r \in Request /\ request[r] \in RequestRow /\ row[w] = request[r]
         /\ \A q \in Request : request'[q].days = request[q].days
         /\ Charged(k)' = IF status = "APPROVED" /\ k = KeyOf(row[w])
                            THEN Charged(k) \cup {r} ELSE Charged(k) \ {r}
         /\ r \in Charged(k) <=> request[r].status = "APPROVED" /\ k = KeyOf(row[w])
         /\ status # "CANCELLED" => request[r].status = "PENDING"
<1> DEFINE r == job[w].request
<1>1. /\ r \in Request /\ request[r] # None /\ request[r] \in RequestRow
      /\ request'[r] \in RequestRow /\ request'[r].status = status
      /\ request'[r].employee = request[r].employee
      /\ request'[r].type = request[r].type
      /\ request'[r].start = request[r].start
      /\ request'[r].days = request[r].days
      /\ StatusAllows(job[w].op, request[r].status)
  BY DecidesWhatItRead
<1>2. row[w] = request[r]
  <2>1. pc[w] = "commit" /\ job[w].op # "allocate"  BY DEF Decides, At
  <2>. QED  BY <2>1 DEF SafeInv, WorkerInv
<1>3. \A q \in Request : q # r => request'[q] = request[q]
  BY DEF Decides, SafeInv, TypeInv, TypeOK
<1>4. request'[r] # None /\ KeyOf(request'[r]) = KeyOf(request[r])
  BY <1>1, NoneAssumption DEF KeyOf
<1>5. status # "CANCELLED" => request[r].status = "PENDING"
  BY <1>1 DEF Decides, StatusAllows
<1>6. ASSUME NEW q \in Request PROVE request'[q].days = request[q].days
  BY <1>1, <1>3
<1>7. r \in Charged(k) <=> request[r].status = "APPROVED" /\ k = KeyOf(row[w])
  BY <1>1, <1>2 DEF Charged, Exists
<1>8. (r \in Charged(k)') <=> status = "APPROVED" /\ k = KeyOf(row[w])
  BY <1>1, <1>2, <1>4 DEF Charged, Exists
<1>9. \A q \in Request : q # r => (q \in Charged(k)' <=> q \in Charged(k))
  BY <1>3 DEF Charged, Exists
<1>10. Charged(k) \subseteq Request /\ Charged(k)' \subseteq Request  BY DEF Charged
<1>11. Charged(k)' = IF status = "APPROVED" /\ k = KeyOf(row[w])
                       THEN Charged(k) \cup {r} ELSE Charged(k) \ {r}
  BY <1>1, <1>8, <1>9, <1>10
<1>. QED  BY <1>1, <1>2, <1>5, <1>6, <1>7, <1>11

(* An approval adds its request and its days.                                *)
LEMMA ChargeApproved ==
  ASSUME SafeInv, NEW w \in Worker, ApproveCommit(w), Decides(w, "APPROVED"),
         balance' = [balance EXCEPT ![KeyOf(row[w])] =
                       SavedBalance(bal[w].allocated, bal[w].used + row[w].days)],
         NEW k \in BalanceKey, ChargeInv(k)
  PROVE  ChargeInv(k)'
<1> DEFINE r == job[w].request
<1>1. /\ r \in Request /\ request[r] \in RequestRow /\ row[w] = request[r]
      /\ \A q \in Request : request'[q].days = request[q].days
      /\ Charged(k)' = IF k = KeyOf(row[w]) THEN Charged(k) \cup {r} ELSE Charged(k) \ {r}
      /\ r \notin Charged(k)
  BY ChargedAfter
<1>2. Charged(k) \subseteq Request  BY DEF Charged
<1>3. CASE k # KeyOf(row[w])
  <2>1. balance'[k] = balance[k]  BY <1>3 DEF SafeInv, TypeInv, TypeOK
  <2>. QED  BY <1>1, <1>2, <1>3, <2>1, ChargeKept
<1>4. CASE k = KeyOf(row[w])
  <2>1. /\ bal[w] # None /\ bal[w] = balance[k] /\ bal[w] \in BalanceRow
    <3>1. /\ pc[w] = "commit" /\ job[w].op = "approve" /\ JobKey(w) = k
      BY <1>4 DEF ApproveCommit, At, JobKey
    <3>. QED  BY <3>1, NoneAssumption DEF SafeInv, TypeInv, HandlerOK, WorkerInv
  <2>2. balance'[k] = SavedBalance(bal[w].allocated, bal[w].used + row[w].days)
    BY <1>4 DEF SafeInv, TypeInv, TypeOK
  <2>3. balance'[k] # None /\ balance'[k].used = balance[k].used + request[r].days
    <3>1. bal[w].allocated \in Nat /\ bal[w].used + row[w].days \in Nat
      BY <1>1, <2>1 DEF BalanceRow, RequestRow
    <3>2. balance'[k] \in BalanceRow  BY <2>2, <3>1, SavedBalanceType
    <3>. QED  BY <1>1, <2>1, <2>2, <3>2, NoneAssumption DEF SavedBalance
  <2> DEFINE C == Charged(k) \cup {r}
  <2>3a. IsFiniteSet(Charged(k)) /\ balance[k].used = Days(request, Charged(k))
    BY <2>1 DEF ChargeInv
  <2>4. IsFiniteSet(C)  BY <2>3a, FS_AddElement
  <2>5. Days(request', C) = Days(request, C)  BY <1>1, <1>2, <2>4, SameDays
  <2>6. Days(request, C) = request[r].days + Days(request, Charged(k))
    <3>1. C \ {r} = Charged(k)  BY <1>1
    <3>2. \A q \in C : request[q].days \in Nat
      BY <1>1, <1>2 DEF Charged, Exists, SafeInv, TypeInv, TypeOK, RequestRow
    <3>. QED  BY <2>4, <3>1, <3>2, DaysWithout
  <2>7. Charged(k)' = C  BY <1>1, <1>4
  <2>8. balance[k].used \in Nat /\ request[r].days \in Nat
    BY <1>1, <2>1 DEF BalanceRow, RequestRow
  <2>. QED  BY <2>3, <2>3a, <2>4, <2>5, <2>6, <2>7, <2>8 DEF ChargeInv
<1>. QED  BY <1>3, <1>4

(* The balance that a cancellation restores has been charged with the        *)
(* request's days.                                                           *)
LEMMA RestoredInFull ==
  ASSUME SafeInv, ChargesInv, NEW w \in Worker, pc[w] = "commit",
         job[w].op = "cancel", row[w].status = "APPROVED"
  PROVE  LET k == KeyOf(row[w])
             r == job[w].request
         IN
         /\ bal[w] # None /\ bal[w] \in BalanceRow /\ bal[w] = balance[k]
         /\ k \in BalanceKey /\ IsFiniteSet(Charged(k)) /\ r \in Charged(k)
         /\ row[w].days \in Nat /\ Days(request, Charged(k) \ {r}) \in Nat
         /\ bal[w].used = row[w].days + Days(request, Charged(k) \ {r})
<1> DEFINE k == KeyOf(row[w])
           r == job[w].request
<1>1. /\ row[w] \in RequestRow /\ r \in Request /\ row[w] = request[r]
      /\ request[r] # None
  BY NoneAssumption DEF SafeInv, TypeInv, HandlerOK, WorkerInv
<1>2. k \in BalanceKey  BY <1>1, KeyOfType
<1>3. bal[w] # None  BY DEF ChargesInv, BalanceHeld
<1>4. JobKey(w) = k  BY DEF JobKey
<1>5. bal[w] = balance[k]  BY <1>3, <1>4 DEF SafeInv, WorkerInv
<1>6. bal[w] \in BalanceRow  BY <1>3 DEF SafeInv, TypeInv, TypeOK
<1>7. r \in Charged(k)  BY <1>1 DEF Charged, Exists
<1>8. IsFiniteSet(Charged(k)) /\ bal[w].used = Days(request, Charged(k))
  BY <1>2, <1>3, <1>5 DEF ChargesInv, ChargeInv
<1>9. \A q \in Charged(k) : request[q].days \in Nat
  BY DEF Charged, Exists, SafeInv, TypeInv, TypeOK, RequestRow
<1>10. /\ Days(request, Charged(k) \ {r}) \in Nat
       /\ Days(request, Charged(k)) = request[r].days + Days(request, Charged(k) \ {r})
  BY <1>7, <1>8, <1>9, DaysWithout
<1>. QED  BY <1>1, <1>2, <1>3, <1>5, <1>6, <1>7, <1>8, <1>9, <1>10

(* A cancellation of approved leave takes its request and its days off.      *)
LEMMA ChargeCancelled ==
  ASSUME SafeInv, ChargesInv, NEW w \in Worker, CancelCommit(w),
         Decides(w, "CANCELLED"), NEW k \in BalanceKey
  PROVE  ChargeInv(k)'
<1> DEFINE r == job[w].request
<1>0. pc[w] = "commit" /\ job[w].op = "cancel" /\ ChargeInv(k)
  BY DEF CancelCommit, At, ChargesInv
<1>1. /\ r \in Request /\ request[r] \in RequestRow /\ row[w] = request[r]
      /\ \A q \in Request : request'[q].days = request[q].days
      /\ Charged(k)' = Charged(k) \ {r}
      /\ r \in Charged(k) <=> request[r].status = "APPROVED" /\ k = KeyOf(row[w])
  BY ChargedAfter
<1>2. Charged(k) \subseteq Request  BY DEF Charged
<1>3. CASE row[w].status # "APPROVED"
  <2>1. bal[w] = None  BY <1>0, <1>3 DEF ChargesInv, BalanceHeld
  <2>2. balance' = balance  BY <2>1 DEF CancelCommit
  <2>. QED  BY <1>0, <1>1, <1>2, <1>3, <2>2, ChargeKept
<1>4. CASE row[w].status = "APPROVED"
  <2> DEFINE j == KeyOf(row[w])
  <2>1. /\ bal[w] # None /\ bal[w] \in BalanceRow /\ bal[w] = balance[j]
        /\ j \in BalanceKey /\ IsFiniteSet(Charged(j))
        /\ row[w].days \in Nat /\ Days(request, Charged(j) \ {r}) \in Nat
        /\ bal[w].used = row[w].days + Days(request, Charged(j) \ {r})
    BY <1>0, <1>4, RestoredInFull
  <2>2. row[w].days <= bal[w].used /\ bal[w].used - row[w].days = Days(request, Charged(j) \ {r})
    BY <2>1
  <2>3. balance' = [balance EXCEPT ![j] =
                      SavedBalance(bal[w].allocated, bal[w].used - row[w].days)]
    BY <2>1, <2>2 DEF CancelCommit, RestoreBalance
  <2>4. CASE k # j
    <3>1. balance'[k] = balance[k]  BY <2>3, <2>4 DEF SafeInv, TypeInv, TypeOK
    <3>. QED  BY <1>0, <1>1, <1>2, <2>4, <3>1, ChargeKept
  <2>5. CASE k = j
    <3>1. balance'[k] = SavedBalance(bal[w].allocated, Days(request, Charged(k) \ {r}))
      BY <2>2, <2>3, <2>5 DEF SafeInv, TypeInv, TypeOK
    <3>2. balance'[k] \in BalanceRow
      <4>1. bal[w].allocated \in Nat  BY <2>1 DEF BalanceRow
      <4>. QED  BY <2>1, <2>5, <3>1, <4>1, SavedBalanceType
    <3>3. balance'[k] # None /\ balance'[k].used = Days(request, Charged(k) \ {r})
      <4>1. balance'[k] # None  BY <3>2, NoneAssumption
      <4>. QED  BY <3>1, <4>1 DEF SavedBalance
    <3>4. IsFiniteSet(Charged(k) \ {r})  BY <2>1, <2>5, FS_RemoveElement
    <3>5. Days(request', Charged(k) \ {r}) = Days(request, Charged(k) \ {r})
      BY <1>1, <1>2, <3>4, SameDays
    <3>. QED  BY <1>1, <3>3, <3>4, <3>5 DEF ChargeInv
  <2>. QED  BY <2>4, <2>5
<1>. QED  BY <1>3, <1>4

(* A change of the allocation leaves the days used as they are.              *)
LEMMA ChargeAllocated ==
  ASSUME SafeInv, NEW w \in Worker, AllocateCommit(w), NEW k \in BalanceKey, ChargeInv(k)
  PROVE  ChargeInv(k)'
<1>1. /\ pc[w] = "commit" /\ job[w] \in Job /\ JobKey(w) = job[w].key
      /\ bal[w] \in BalanceRow /\ bal[w] # None
  BY NoneAssumption DEF AllocateCommit, At, JobKey, SafeInv, TypeInv, HandlerOK
<1>2. bal[w] = balance[job[w].key]  BY <1>1 DEF SafeInv, WorkerInv
<1>3. request' = request  BY DEF AllocateCommit
<1>4. Charged(k)' = Charged(k)  BY <1>3 DEF Charged, Exists
<1>5. SavedBalance(job[w].allocated, bal[w].used) \in BalanceRow
  <2>1. job[w].allocated \in Nat /\ bal[w].used \in Nat  BY <1>1 DEF Job, BalanceRow
  <2>. QED  BY <2>1, SavedBalanceType
<1>6. /\ balance[k] # None =>
           balance'[k] # None /\ balance'[k].used = balance[k].used
      /\ balance[k] = None => balance'[k] = None
  <2>1. CASE k = job[w].key
    <3>1. balance'[k] = balance[k]
            \/ balance'[k] = SavedBalance(job[w].allocated, bal[w].used)
      BY <2>1 DEF AllocateCommit, SafeInv, TypeInv, TypeOK
    <3>. QED  BY <1>1, <1>2, <1>5, <2>1, <3>1, NoneAssumption DEF SavedBalance
  <2>2. CASE k # job[w].key
    BY <2>2 DEF AllocateCommit, SafeInv, TypeInv, TypeOK
  <2>. QED  BY <2>1, <2>2
<1>. QED  BY <1>3, <1>4, <1>6, ChargeKept

LEMMA ChargeWorker ==
  ASSUME SafeInv, ChargesInv, NEW w \in Worker, WorkerStep(w), NEW k \in BalanceKey
  PROVE  ChargeInv(k)'
<1>0. ChargeInv(k)  BY DEF ChargesInv
<1>1. CASE UNCHANGED <<request, balance>>
  BY <1>0, <1>1, ChargeKept DEF Charged, Exists
<1>2. CASE InsertRequest(w)
  <2>1. Inserts(w)  BY <1>2 DEF InsertRequest, Commit, Inserts
  <2> DEFINE r == job[w].request
  <2>2. /\ r \in Request /\ request[r] = None /\ request'[r] = row[w] /\ pc[w] = "insert"
    BY <2>1, InsertsFreshRow
  <2>3. row[w].status = "PENDING"  BY <2>2 DEF SafeInv, TypeInv, HandlerOK
  <2>4. \A q \in Request : q # r => request'[q] = request[q]
    BY <2>1 DEF Inserts, SafeInv, TypeInv, TypeOK
  <2>5. r \notin Charged(k) /\ ~(r \in Charged(k)')  BY <2>2, <2>3 DEF Charged, Exists
  <2>6. \A q \in Request : q # r => (q \in Charged(k)' <=> q \in Charged(k))
    BY <2>4 DEF Charged, Exists
  <2>7. Charged(k) \subseteq Request /\ Charged(k)' \subseteq Request  BY DEF Charged
  <2>8. Charged(k)' = Charged(k)  BY <2>5, <2>6, <2>7
  <2>9. \A q \in Charged(k) : request'[q].days = request[q].days  BY <2>4, <2>5, <2>7
  <2>10. balance' = balance  BY <2>1 DEF Inserts
  <2>. QED  BY <1>0, <2>8, <2>9, <2>10, ChargeKept
<1>3. CASE RejectCommit(w)
  <2>1. Decides(w, "REJECTED")  BY <1>3, RejectDecides DEF SafeInv
  <2>2. /\ \A q \in Request : request'[q].days = request[q].days
        /\ Charged(k)' = Charged(k) \ {job[w].request}
        /\ job[w].request \notin Charged(k)
    BY <2>1, ChargedAfter
  <2>3. Charged(k) \subseteq Request /\ balance' = balance
    BY <1>3 DEF Charged, RejectCommit
  <2>. QED  BY <1>0, <2>2, <2>3, ChargeKept
<1>4. CASE ApproveCommit(w)
  <2>1. \/ UNCHANGED <<request, balance>>
        \/ /\ Decides(w, "APPROVED")
           /\ balance' = [balance EXCEPT ![KeyOf(row[w])] =
                            SavedBalance(bal[w].allocated, bal[w].used + row[w].days)]
    BY <1>4, ApproveDecides DEF SafeInv
  <2>. QED  BY <1>0, <1>1, <1>4, <2>1, ChargeApproved
<1>5. CASE CancelCommit(w)
  <2>1. Decides(w, "CANCELLED")  BY <1>5, CancelDecides DEF SafeInv
  <2>. QED  BY <1>5, <2>1, ChargeCancelled
<1>6. CASE AllocateCommit(w)  BY <1>0, <1>6, ChargeAllocated
<1>7. CASE Call(w) \/ Acquire(w) \/ DeadlockAbort(w) \/ Crash(w)
  BY <1>1, <1>7, CallBegins DEF Acquire, DeadlockAbort, Crash, dbVars
<1>8. CASE CheckOverlap(w) \/ ReadRequest(w) \/ ReadBalance(w) \/ Notify(w)
  BY <1>1, <1>8 DEF CheckOverlap, ReadRequest, ReadBalance, Notify, dbVars
<1>. QED  BY <1>2, <1>3, <1>4, <1>5, <1>6, <1>7, <1>8 DEF WorkerStep, Proceed

(* A cancellation that needs a balance finds it: there is one wherever leave *)
(* is approved.                                                              *)
LEMMA BalanceHeldStep ==
  ASSUME SafeInv, ChargesInv, NEW w \in Worker, WorkerStep(w), NEW x \in Worker
  PROVE  BalanceHeld(x)'
<1>0. BalanceHeld(x)  BY DEF ChargesInv
<1>1. CASE x # w
  BY <1>0, <1>1, Locality DEF SafeInv, SameHandler, BalanceHeld
<1>2. CASE x = w /\ ReadRequest(w)
  <2> DEFINE req == request[job[w].request]
             k == KeyOf(req)
  <2>. SUFFICES ASSUME job'[w].op = "cancel", pc'[w] \in {"balance", "commit"}
                PROVE  BalanceHeld(w)'
    BY <1>2 DEF BalanceHeld
  <2>1. /\ pc[w] = "request" /\ job[w] \in Job /\ job[w].request \in Request /\ req # None
    <3>1. pc[w] = "request"  BY <1>2 DEF ReadRequest, At
    <3>2. job[w] \in Job /\ job[w].request \in Request  BY <3>1 DEF SafeInv, TypeInv, HandlerOK
    <3>3. req # None  BY <1>2 DEF ReadRequest, Finish, SafeInv, TypeInv, TypeOK
    <3>. QED  BY <3>1, <3>2, <3>3
  <2>2. req \in RequestRow /\ k \in BalanceKey
    <3>1. req \in RequestRow  BY <2>1 DEF SafeInv, TypeInv, TypeOK
    <3>. QED  BY <3>1, KeyOfType
  <2>3. bal[w] = None  BY <2>1 DEF SafeInv, WorkerInv
  <2>4. /\ row' = [row EXCEPT ![w] = req]
        /\ job' = [job EXCEPT ![w].manager = manager[req.employee]]
        /\ IF NeedsBalance(job[w].op, req) /\ balance[k] # None
             THEN Goto(w, "balance", BalanceLocks(k)) ELSE Goto(w, "commit", {})
        /\ bal' = bal
    BY <1>2 DEF ReadRequest, Finish, SafeInv, TypeInv, TypeOK
  <2>5. row'[w] = req /\ bal'[w] = None /\ job'[w].op = job[w].op
    BY <2>1, <2>3, <2>4 DEF Job, SafeInv, TypeInv, TypeOK
  <2>6. req.status = "APPROVED" => balance[k] # None
    <3>1. req.status = "APPROVED" => job[w].request \in Charged(k)
      BY <2>1 DEF Charged, Exists
    <3>. QED  BY <2>2, <3>1 DEF ChargesInv, ChargeInv
  <2>7. IF req.status = "APPROVED" THEN pc'[w] = "balance" ELSE pc'[w] = "commit"
    BY <2>4, <2>5, <2>6 DEF NeedsBalance, Goto, SafeInv, TypeInv, TypeOK
  <2>. QED  BY <2>5, <2>7 DEF BalanceHeld
<1>3. CASE x = w /\ ReadBalance(w)
  <2>. SUFFICES ASSUME job'[w].op = "cancel", pc'[w] \in {"balance", "commit"}
                PROVE  BalanceHeld(w)'
    BY <1>3 DEF BalanceHeld
  <2>1. pc[w] = "balance" /\ balance[JobKey(w)] # None
    BY <1>3 DEF ReadBalance, At, Finish, SafeInv, TypeInv, TypeOK
  <2>2. /\ bal'[w] = balance[JobKey(w)] /\ UNCHANGED <<job, row>> /\ pc'[w] = "commit"
    BY <1>3 DEF ReadBalance, Finish, Goto, SafeInv, TypeInv, TypeOK
  <2>. QED  BY <1>0, <1>3, <2>1, <2>2 DEF BalanceHeld
<1>4. CASE x = w /\ ~ReadRequest(w) /\ ~ReadBalance(w)
  <2>1. UNCHANGED <<pc, job, row, bal>> \/ ~(pc'[w] \in {"balance", "commit"})
          \/ job'[w].op # "cancel"
    <3>1. CASE Call(w)
      <4>1. CASE \E u \in User, k \in BalanceKey, n \in Allocation : AllocateBalance(w, u, k, n)
        BY <4>1 DEF AllocateBalance, Begin, NewJob, SafeInv, TypeInv, TypeOK
      <4>2. CASE ~\E u \in User, k \in BalanceKey, n \in Allocation : AllocateBalance(w, u, k, n)
        BY <3>1, <4>2 DEF Call, CreateRequest, Approve, Reject, Cancel, Begin,
           SafeInv, TypeInv, TypeOK
      <4>. QED  BY <4>1, <4>2
    <3>2. CASE Acquire(w) \/ DeadlockAbort(w) \/ Crash(w)
      BY <3>2 DEF Acquire, DeadlockAbort, Crash, Finish, SafeInv, TypeInv, TypeOK
    <3>3. CASE Proceed(w)
      BY <1>4, <3>3 DEF Proceed, CheckOverlap, InsertRequest, ApproveCommit, RejectCommit,
         CancelCommit, AllocateCommit, Notify, RaiseFromSave, Commit, Goto, Finish,
         SafeInv, TypeInv, TypeOK
    <3>. QED  BY <3>1, <3>2, <3>3 DEF WorkerStep
  <2>. QED  BY <1>0, <1>4, <2>1 DEF BalanceHeld
<1>. QED  BY <1>1, <1>2, <1>3, <1>4

(* The management command opens balances that nothing is charged to.         *)
LEMMA ChargeOrganisation ==
  ASSUME SafeInv, ChargesInv, Organisation \/ UNCHANGED vars
  PROVE  ChargesInv'
<1>1. /\ UNCHANGED <<request, handlerVars>>
      /\ \/ balance' = balance
         \/ \E k \in BalanceKey, a \in Nat :
              balance[k] = None /\ balance' = [balance EXCEPT ![k] = SavedBalance(a, 0)]
  <2>1. CASE Organisation  BY <2>1, OrganisationKeeps DEF SafeInv
  <2>2. CASE UNCHANGED vars  BY <2>2 DEF vars, dbVars
  <2>. QED  BY <2>1, <2>2
<1>2. ASSUME NEW k \in BalanceKey PROVE ChargeInv(k)'
  <2>1. ChargeInv(k) /\ Charged(k)' = Charged(k)
    BY <1>1 DEF ChargesInv, Charged, Exists
  <2>2. \/ balance'[k] = balance[k]
        \/ balance[k] = None /\ \E a \in Nat : balance'[k] = SavedBalance(a, 0)
    BY <1>1 DEF SafeInv, TypeInv, TypeOK
  <2>3. \A a \in Nat : SavedBalance(a, 0).used = 0  BY DEF SavedBalance
  <2>. QED  BY <1>1, <2>1, <2>2, <2>3, ChargeKept
<1>3. ASSUME NEW x \in Worker PROVE BalanceHeld(x)'
  BY <1>1 DEF ChargesInv, BalanceHeld, handlerVars
<1>. QED  BY <1>2, <1>3 DEF ChargesInv

(* A deleted employee takes the balances and all that was charged to them.   *)
LEMMA ChargeDelete ==
  ASSUME SafeInv, ChargesInv, NEW e \in Leaver, DeleteEmployee(e)
  PROVE  ChargesInv'
<1>1. /\ UNCHANGED handlerVars
      /\ \A r \in Request : request'[r] = IF Of(e, r) THEN None ELSE request[r]
      /\ \A k \in BalanceKey : balance'[k] = IF k[1] = e THEN None ELSE balance[k]
  BY DeletionKeeps DEF SafeInv
<1>2. ASSUME NEW k \in BalanceKey, k[1] = e PROVE ChargeInv(k)'
  <2>1. balance'[k] = None  BY <1>1, <1>2
  <2>2. ASSUME NEW r \in Request, r \in Charged(k)' PROVE FALSE
    <3>1. request'[r] # None /\ KeyOf(request'[r]) = k  BY <2>2 DEF Charged, Exists
    <3>2. request'[r] = request[r] /\ ~Of(e, r) /\ request[r] # None  BY <1>1, <3>1
    <3>3. request[r].employee = e  BY <1>2, <3>1, <3>2 DEF KeyOf
    <3>. QED  BY <3>2, <3>3 DEF Of
  <2>3. Charged(k)' \subseteq Request  BY DEF Charged
  <2>4. Charged(k)' = {}  BY <2>2, <2>3
  <2>. QED  BY <2>1, <2>4, FS_EmptySet DEF ChargeInv
<1>3. ASSUME NEW k \in BalanceKey, k[1] # e PROVE ChargeInv(k)'
  <2>1. ASSUME NEW r \in Request PROVE r \in Charged(k)' <=> r \in Charged(k)
    <3>1. CASE ~Of(e, r)
      <4>1. request'[r] = request[r]  BY <1>1, <3>1
      <4>. QED  BY <4>1 DEF Charged, Exists
    <3>2. CASE Of(e, r)
      <4>1. request'[r] = None /\ KeyOf(request[r])[1] = e
        BY <1>1, <3>2 DEF Of, KeyOf
      <4>. QED  BY <1>3, <4>1 DEF Charged, Exists
    <3>. QED  BY <3>1, <3>2
  <2>2. Charged(k)' \subseteq Request /\ Charged(k) \subseteq Request  BY DEF Charged
  <2>3. Charged(k)' = Charged(k)  BY <2>1, <2>2
  <2>4. ASSUME NEW r \in Charged(k) PROVE request'[r].days = request[r].days
    <3>1. r \in Request /\ r \in Charged(k)'  BY <2>3, <2>4 DEF Charged
    <3>2. request'[r] # None  BY <3>1 DEF Charged, Exists
    <3>. QED  BY <1>1, <3>1, <3>2
  <2>5. ChargeInv(k) /\ balance'[k] = balance[k]  BY <1>1, <1>3 DEF ChargesInv
  <2>. QED  BY <2>3, <2>4, <2>5, ChargeKept
<1>4. ASSUME NEW x \in Worker PROVE BalanceHeld(x)'
  BY <1>1 DEF ChargesInv, BalanceHeld, handlerVars
<1>. QED  BY <1>2, <1>3, <1>4 DEF ChargesInv

LEMMA ChargesStep == SafeInv /\ ChargesInv /\ [Next]_vars => ChargesInv'
<1>. SUFFICES ASSUME SafeInv, ChargesInv, [Next]_vars PROVE ChargesInv'  OBVIOUS
<1>1. ASSUME NEW w \in Worker, WorkerStep(w) PROVE ChargesInv'
  BY <1>1, ChargeWorker, BalanceHeldStep DEF ChargesInv
<1>2. Organisation \/ UNCHANGED vars => ChargesInv'  BY ChargeOrganisation
<1>. QED  BY <1>1, <1>2, ChargeDelete DEF Next, WorkerStep

LEMMA ChargesInit == Init => ChargesInv
<1>. SUFFICES ASSUME Init PROVE ChargesInv  OBVIOUS
<1>1. ASSUME NEW k \in BalanceKey PROVE ChargeInv(k)
  <2>1. Charged(k) = {}  BY DEF Init, Charged, Exists
  <2>2. balance[k] # None => balance[k].used = 0  BY DEF Init, SavedBalance
  <2>. QED  BY <2>1, <2>2, NoDays, FS_EmptySet DEF ChargeInv
<1>2. \A w \in Worker : BalanceHeld(w)  BY DEF Init, BalanceHeld
<1>. QED  BY <1>1, <1>2 DEF ChargesInv

LEMMA ChargesHold == Spec => []ChargesInv
BY ChargesInit, ChargesStep, Safe, PTL DEF Spec

(* used_days is the sum of the days of the approved requests, however many   *)
(* there are: no approval is charged twice and no cancellation restored      *)
(* twice.                                                                    *)
THEOREM UsedIsCharged == Spec => []UsedMatchesApproved
<1>1. ChargesInv => UsedMatchesApproved
  BY DEF ChargesInv, ChargeInv, UsedMatchesApproved, Days
<1>. QED  BY <1>1, ChargesHold, PTL

(* min(total_days, used_days) never truncates: the balance that a            *)
(* cancellation restores was charged with all the days of the request.       *)
THEOREM NothingTruncated == Spec => []RestoresInFull
<1>1. ASSUME SafeInv, ChargesInv PROVE RestoresInFull
  <2>. SUFFICES ASSUME NEW w \in Worker, pc[w] = "commit", job[w].op = "cancel",
                       row[w].status = "APPROVED"
                PROVE  bal[w] # None /\ row[w].days <= bal[w].used
    BY DEF RestoresInFull
  <2>1. /\ bal[w] # None /\ row[w].days \in Nat
        /\ Days(request, Charged(KeyOf(row[w])) \ {job[w].request}) \in Nat
        /\ bal[w].used = row[w].days
             + Days(request, Charged(KeyOf(row[w])) \ {job[w].request})
    BY <1>1, RestoredInFull
  <2>. QED  BY <2>1
<1>. QED  BY <1>1, Safe, ChargesHold, PTL

-----------------------------------------------------------------------------
(* The refinement of LeaveLedger.                                            *)

LEMMA EntryType == \A req \in RequestRow : EntryOf(req) \in Ledger!Entry
<1>1. \A req \in RequestRow : KeyOf(req) \in BalanceKey  BY KeyOfType
<1>. QED  BY <1>1 DEF EntryOf, Ledger!Entry, RequestRow, Status

LEMMA AccountType == \A b \in BalanceRow : AccountOf(b) \in Ledger!Balance
BY DEF AccountOf, Ledger!Balance, BalanceRow

LEMMA EntryFacts ==
  ASSUME SafeInv
  PROVE  /\ \A r \in Request : r \in DOMAIN Entries <=> Exists(r)
         /\ DOMAIN Entries \subseteq Request
         /\ \A r \in DOMAIN Entries :
              /\ Entries[r] = EntryOf(request[r]) /\ request[r] \in RequestRow
              /\ Entries[r] \in Ledger!Entry
<1>1. \A r \in Request : Exists(r) => request[r] \in RequestRow
  BY DEF Exists, SafeInv, TypeInv, TypeOK
<1>. QED  BY <1>1, EntryType DEF Entries

LEMMA AccountFacts ==
  ASSUME SafeInv
  PROVE  /\ \A k \in BalanceKey : k \in DOMAIN Accounts <=> balance[k] # None
         /\ DOMAIN Accounts \subseteq BalanceKey
         /\ \A k \in DOMAIN Accounts :
              /\ Accounts[k] = AccountOf(balance[k]) /\ balance[k] \in BalanceRow
              /\ Accounts[k] \in Ledger!Balance
<1>1. \A k \in BalanceKey : balance[k] # None => balance[k] \in BalanceRow
  BY DEF SafeInv, TypeInv, TypeOK
<1>. QED  BY <1>1, AccountType DEF Accounts

(* A step that leaves a table alone leaves its half of the ledger alone.     *)
LEMMA EntriesStay == request' = request => Entries' = Entries
BY DEF Entries, Exists
LEMMA AccountsStay == balance' = balance => Accounts' = Accounts
BY DEF Accounts

(* A decision is that of the ledger.                                         *)
LEMMA LedgerDecision ==
  ASSUME SafeInv, NEW w \in Worker,
         NEW status \in {"APPROVED", "REJECTED", "CANCELLED"}, Decides(w, status)
  PROVE  LET r == job[w].request IN
         /\ r \in Request /\ r \in DOMAIN Entries /\ Ledger!Become(r, status)
         /\ row[w] = request[r] /\ row[w] \in RequestRow
         /\ Entries[r].status = row[w].status /\ Entries[r].days = row[w].days
         /\ Entries[r].account = KeyOf(row[w]) /\ KeyOf(row[w]) \in BalanceKey
         /\ StatusAllows(job[w].op, row[w].status)
<1> DEFINE r == job[w].request
<1>1. /\ r \in Request /\ request[r] # None /\ request[r] \in RequestRow
      /\ request'[r] \in RequestRow /\ request'[r].status = status
      /\ request'[r].employee = request[r].employee
      /\ request'[r].type = request[r].type
      /\ request'[r].start = request[r].start
      /\ request'[r].end = request[r].end
      /\ request'[r].days = request[r].days
      /\ StatusAllows(job[w].op, request[r].status)
  BY DecidesWhatItRead
<1>2. row[w] = request[r]
  <2>1. pc[w] = "commit" /\ job[w].op # "allocate"  BY DEF Decides, At
  <2>. QED  BY <2>1 DEF SafeInv, WorkerInv
<1>3. \A q \in Request : q # r => request'[q] = request[q]
  BY DEF Decides, SafeInv, TypeInv, TypeOK
<1>4. r \in DOMAIN Entries /\ Entries[r] = EntryOf(request[r])
  BY <1>1, EntryFacts DEF Exists
<1>5. \A q \in Request : Exists(q)' <=> Exists(q)
  BY <1>1, <1>3, NoneAssumption DEF Exists
<1>6. KeyOf(request'[r]) = KeyOf(request[r])  BY <1>1 DEF KeyOf
<1>7. EntryOf(request'[r]) = [EntryOf(request[r]) EXCEPT !.status = status]
  BY <1>1, <1>6 DEF EntryOf
<1>8. Entries' = [Entries EXCEPT ![r].status = status]
  <2>1. Entries' = [q \in {p \in Request : Exists(p)} |-> EntryOf(request'[q])]
    BY <1>5 DEF Entries
  <2>2. \A q \in {p \in Request : Exists(p)} : q # r => EntryOf(request'[q]) = EntryOf(request[q])
    BY <1>3
  <2>. QED  BY <1>4, <1>7, <2>1, <2>2 DEF Entries
<1>9. KeyOf(request[r]) \in BalanceKey  BY <1>1, KeyOfType
<1>. QED  BY <1>1, <1>2, <1>4, <1>8, <1>9 DEF EntryOf, Ledger!Become

(* A save of a balance that keeps the allocation is a use of its account.    *)
LEMMA LedgerUse ==
  ASSUME SafeInv, NEW k \in BalanceKey, balance[k] # None, NEW days \in Int,
         balance[k].used + days \in Nat,
         balance' = [balance EXCEPT ![k] =
                       SavedBalance(balance[k].allocated, balance[k].used + days)]
  PROVE  k \in DOMAIN Accounts /\ Ledger!Use(k, days)
<1>1. /\ k \in DOMAIN Accounts /\ Accounts[k] = AccountOf(balance[k])
      /\ balance[k] \in BalanceRow
  BY AccountFacts
<1> DEFINE b == SavedBalance(balance[k].allocated, balance[k].used + days)
<1>2. b \in BalanceRow
  <2>1. balance[k].allocated \in Nat  BY <1>1 DEF BalanceRow
  <2>. QED  BY <2>1, SavedBalanceType
<1>3. b # None  BY <1>2, NoneAssumption
<1>4. balance'[k] = b /\ \A l \in BalanceKey : l # k => balance'[l] = balance[l]
  BY DEF SafeInv, TypeInv, TypeOK
<1>5. AccountOf(b) = [AccountOf(balance[k]) EXCEPT !.used = @ + days]
  BY DEF AccountOf, SavedBalance
<1> HIDE DEF b
<1>6. \A l \in BalanceKey : balance'[l] # None <=> balance[l] # None
  BY <1>3, <1>4
<1>7. Accounts' = [Accounts EXCEPT ![k].used = @ + days]
  <2>1. Accounts' = [l \in {m \in BalanceKey : balance[m] # None} |-> AccountOf(balance'[l])]
    BY <1>6 DEF Accounts
  <2>2. \A l \in BalanceKey : l # k => AccountOf(balance'[l]) = AccountOf(balance[l])
    BY <1>4
  <2>. QED  BY <1>1, <1>4, <1>5, <2>1, <2>2 DEF Accounts
<1>. QED  BY <1>1, <1>7 DEF Ledger!Use

LEMMA LedgerSubmits ==
  ASSUME SafeInv, SafeInv', NEW w \in Worker, InsertRequest(w)
  PROVE  Ledger!Next
<1> DEFINE r == job[w].request
<1>1. Inserts(w)  BY DEF InsertRequest, Commit, Inserts
<1>2. /\ r \in Request /\ request[r] = None /\ request'[r] = row[w] /\ pc[w] = "insert"
      /\ row[w] \in RequestRow /\ OverlappingRequests(row[w]) = {}
  BY <1>1, InsertsFreshRow
<1>3. row[w].status = "PENDING"  BY <1>2 DEF SafeInv, TypeInv, HandlerOK
<1>4. \A q \in Request : q # r => request'[q] = request[q]
  BY <1>1 DEF Inserts, SafeInv, TypeInv, TypeOK
<1>5. request'[r] # None  BY <1>2, NoneAssumption
<1>6. DOMAIN Entries = {q \in Request : Exists(q)}
      /\ DOMAIN Entries' = {q \in Request : Exists(q)}'
  BY DEF Entries
<1>7. DOMAIN Entries' = DOMAIN Entries \cup {r} /\ r \notin DOMAIN Entries
  BY <1>2, <1>4, <1>5, <1>6 DEF Exists
<1>8. \A q \in DOMAIN Entries' : Entries'[q] \in Ledger!Entry /\ Entries'[q] = EntryOf(request'[q])
  <2>1. \A q \in Request : request'[q] # None => request'[q] \in RequestRow
    BY DEF SafeInv, TypeInv, TypeOK
  <2>2. \A q \in DOMAIN Entries' : q \in Request /\ request'[q] # None
    BY <1>6 DEF Exists
  <2>3. Entries' = [q \in DOMAIN Entries' |-> EntryOf(request'[q])]
    BY DEF Entries
  <2>. QED  BY <2>1, <2>2, <2>3, EntryType
<1>9. Entries' \in [DOMAIN Entries \cup {r} -> Ledger!Entry]
  <2>1. Entries' = [q \in DOMAIN Entries' |-> Entries'[q]]  BY DEF Entries
  <2>. QED  BY <1>7, <1>8, <2>1
<1>10. Ledger!Differ(Entries, Entries', r)
  BY <1>4, <1>6, <1>7, <1>8, EntryFacts DEF Ledger!Differ
<1>11. Entries'[r] = EntryOf(row[w])  BY <1>2, <1>7, <1>8
<1>12. ASSUME NEW j \in Request, Ledger!Is(j, "PENDING") \/ Ledger!Is(j, "APPROVED")
       PROVE  ~Ledger!Clash(Entries[j], Entries'[r])
  <2>1. /\ j \in DOMAIN Entries /\ Entries[j] = EntryOf(request[j])
        /\ Entries[j].status \in ActiveStatus
    BY <1>12, EntryFacts DEF Ledger!Is, ActiveStatus
  <2>2. request[j] # None /\ request[j].status \in ActiveStatus
    BY <1>6, <2>1 DEF EntryOf, Exists
  <2>. QED  BY <1>2, <1>11, <2>1, <2>2 DEF OverlappingRequests, EntryOf, Ledger!Clash
<1>13. Entries'[r].status = "PENDING"  BY <1>3, <1>11 DEF EntryOf
<1>14. Accounts' = Accounts  BY <1>1, AccountsStay DEF Inserts
<1>15. Ledger!Submit(r)
  BY <1>7, <1>9, <1>10, <1>12, <1>13, <1>14 DEF Ledger!Submit
<1>. QED  BY <1>2, <1>15 DEF Ledger!Next

LEMMA LedgerApproves ==
  ASSUME SafeInv, NEW w \in Worker, ApproveCommit(w)
  PROVE  Ledger!Next \/ UNCHANGED <<Entries, Accounts>>
<1> DEFINE r == job[w].request
           k == KeyOf(row[w])
<1>1. CASE UNCHANGED <<request, balance, audit>>
  BY <1>1, EntriesStay, AccountsStay
<1>2. CASE /\ Decides(w, "APPROVED")
           /\ balance' = [balance EXCEPT ![KeyOf(row[w])] =
                            SavedBalance(bal[w].allocated, bal[w].used + row[w].days)]
  <2>1. /\ r \in Request /\ r \in DOMAIN Entries /\ Ledger!Become(r, "APPROVED")
        /\ row[w] \in RequestRow
        /\ Entries[r].status = row[w].status /\ Entries[r].days = row[w].days
        /\ Entries[r].account = k /\ k \in BalanceKey
        /\ StatusAllows(job[w].op, row[w].status)
    BY <1>2, LedgerDecision
  <2>2. pc[w] = "commit" /\ job[w].op = "approve" /\ JobKey(w) = k
    BY DEF ApproveCommit, At, JobKey
  <2>3. /\ bal[w] # None /\ bal[w] = balance[k] /\ bal[w] \in BalanceRow
        /\ bal[w].used + row[w].days <= bal[w].allocated
    BY <2>2, NoneAssumption DEF SafeInv, TypeInv, HandlerOK, WorkerInv
  <2>4. row[w].days \in Nat /\ balance[k].used + row[w].days \in Nat
    BY <2>1, <2>3 DEF BalanceRow, RequestRow
  <2>5. k \in DOMAIN Accounts /\ Ledger!Use(k, row[w].days)
    <3>1. balance[k] # None  BY <2>3
    <3>2. balance' = [balance EXCEPT ![k] =
                       SavedBalance(balance[k].allocated, balance[k].used + row[w].days)]
      BY <1>2, <2>3
    <3>3. row[w].days \in Int  BY <2>4
    <3>. HIDE DEF k
    <3>. QED  BY <2>1, <2>4, <3>1, <3>2, <3>3, LedgerUse
  <2>6. Accounts[k].used + row[w].days <= Accounts[k].allocated
    BY <2>3, <2>5, AccountFacts DEF AccountOf
  <2>7. Ledger!Is(r, "PENDING")
    BY <2>1, <2>2 DEF StatusAllows, Ledger!Is
  <2>8. Ledger!Approve(r)
    BY <2>1, <2>5, <2>6, <2>7 DEF Ledger!Approve
  <2>. QED  BY <2>1, <2>8 DEF Ledger!Next
<1>. QED  BY <1>1, <1>2, ApproveDecides DEF SafeInv

LEMMA LedgerRejects ==
  ASSUME SafeInv, NEW w \in Worker, RejectCommit(w)
  PROVE  Ledger!Next
<1> DEFINE r == job[w].request
<1>1. Decides(w, "REJECTED")  BY RejectDecides DEF SafeInv
<1>2. /\ r \in Request /\ r \in DOMAIN Entries /\ Ledger!Become(r, "REJECTED")
      /\ Entries[r].status = row[w].status /\ StatusAllows(job[w].op, row[w].status)
  BY <1>1, LedgerDecision
<1>3. Ledger!Is(r, "PENDING")
  BY <1>2 DEF RejectCommit, StatusAllows, Ledger!Is
<1>4. Accounts' = Accounts  BY AccountsStay DEF RejectCommit
<1>5. Ledger!Reject(r)  BY <1>2, <1>3, <1>4 DEF Ledger!Reject
<1>. QED  BY <1>2, <1>5 DEF Ledger!Next

LEMMA LedgerCancels ==
  ASSUME SafeInv, ChargesInv, NEW w \in Worker, CancelCommit(w)
  PROVE  Ledger!Next
<1> DEFINE r == job[w].request
           k == KeyOf(row[w])
<1>1. Decides(w, "CANCELLED")  BY CancelDecides DEF SafeInv
<1>2. /\ r \in Request /\ r \in DOMAIN Entries /\ Ledger!Become(r, "CANCELLED")
      /\ row[w] \in RequestRow
      /\ Entries[r].status = row[w].status /\ Entries[r].days = row[w].days
      /\ Entries[r].account = k /\ k \in BalanceKey
      /\ StatusAllows(job[w].op, row[w].status)
  BY <1>1, LedgerDecision
<1>3. pc[w] = "commit" /\ job[w].op = "cancel"  BY DEF CancelCommit, At
<1>4. CASE row[w].status # "APPROVED"
  <2>1. bal[w] = None  BY <1>3, <1>4 DEF ChargesInv, BalanceHeld
  <2>2. Accounts' = Accounts  BY <2>1, AccountsStay DEF CancelCommit
  <2>3. Ledger!Is(r, "PENDING")
    BY <1>2, <1>3, <1>4 DEF StatusAllows, ActiveStatus, Ledger!Is
  <2>4. Ledger!Cancel(r)  BY <1>2, <2>2, <2>3 DEF Ledger!Cancel
  <2>. QED  BY <1>2, <2>4 DEF Ledger!Next
<1>5. CASE row[w].status = "APPROVED"
  <2>1. /\ bal[w] # None /\ bal[w] = balance[k] /\ bal[w] \in BalanceRow
        /\ row[w].days \in Nat /\ row[w].days <= bal[w].used
    <3>1. /\ bal[w] # None /\ bal[w] = balance[k] /\ bal[w] \in BalanceRow
          /\ row[w].days \in Nat /\ Days(request, Charged(k) \ {r}) \in Nat
          /\ bal[w].used = row[w].days + Days(request, Charged(k) \ {r})
      BY <1>3, <1>5, RestoredInFull
    <3>. QED  BY <3>1
  <2> DEFINE d == -row[w].days
  <2>2. d \in Int /\ balance[k].used + d \in Nat /\ bal[w].used - row[w].days = balance[k].used + d
    BY <2>1 DEF BalanceRow
  <2>3. balance' = [balance EXCEPT ![k] =
                      SavedBalance(balance[k].allocated, balance[k].used + d)]
    BY <2>1, <2>2 DEF CancelCommit, RestoreBalance
  <2>4. k \in DOMAIN Accounts /\ Ledger!Use(k, d)
    <3>1. balance[k] # None  BY <2>1
    <3>. HIDE DEF k, d
    <3>. QED  BY <1>2, <2>2, <2>3, <3>1, LedgerUse
  <2>5. Ledger!Is(r, "APPROVED")  BY <1>2, <1>5 DEF Ledger!Is
  <2>6. Ledger!Cancel(r)  BY <1>2, <2>4, <2>5 DEF Ledger!Cancel
  <2>. QED  BY <1>2, <2>6 DEF Ledger!Next
<1>. QED  BY <1>4, <1>5

(* A new row of the balance table opens an account, and a saved allocation   *)
(* changes one.                                                              *)
LEMMA LedgerSaves ==
  ASSUME SafeInv, SafeInv', request' = request, NEW k \in BalanceKey,
         NEW a \in Nat, NEW u \in Nat,
         balance' = [balance EXCEPT ![k] = SavedBalance(a, u)],
         IF balance[k] = None THEN u = 0 ELSE u = balance[k].used /\ u <= a
  PROVE  Ledger!Next
<1> DEFINE b == SavedBalance(a, u)
<1>1. b \in BalanceRow /\ b # None /\ AccountOf(b) = [allocated |-> a, used |-> u]
  BY SavedBalanceType, NoneAssumption DEF AccountOf, SavedBalance
<1>2. balance'[k] = b /\ \A l \in BalanceKey : l # k => balance'[l] = balance[l]
  BY DEF SafeInv, TypeInv, TypeOK
<1> HIDE DEF b
<1>3. /\ DOMAIN Accounts = {l \in BalanceKey : balance[l] # None}
      /\ DOMAIN Accounts' = {l \in BalanceKey : balance'[l] # None}
      /\ Accounts' = [l \in DOMAIN Accounts' |-> AccountOf(balance'[l])]
      /\ Accounts = [l \in DOMAIN Accounts |-> AccountOf(balance[l])]
  BY DEF Accounts
<1>4. DOMAIN Accounts' = DOMAIN Accounts \cup {k}  BY <1>1, <1>2, <1>3
<1>5. \A l \in DOMAIN Accounts' : Accounts'[l] \in Ledger!Balance
  <2>1. \A l \in BalanceKey : balance'[l] # None => balance'[l] \in BalanceRow
    BY DEF SafeInv, TypeInv, TypeOK
  <2>. QED  BY <1>3, <2>1, AccountType
<1>6. Ledger!Differ(Accounts, Accounts', k)
  BY <1>2, <1>3, <1>4 DEF Ledger!Differ
<1>7. Accounts'[k].used = u /\ Accounts'[k].allocated = a
  BY <1>1, <1>2, <1>3, <1>4
<1>8. Accounts' \in [DOMAIN Accounts \cup {k} -> Ledger!Balance]  BY <1>3, <1>4, <1>5
<1>9. Entries' = Entries  BY EntriesStay
<1>10. CASE balance[k] = None
  <2>1. k \notin DOMAIN Accounts  BY <1>3, <1>10
  <2>2. Ledger!Open(k)  BY <1>6, <1>7, <1>8, <1>9, <1>10, <2>1 DEF Ledger!Open
  <2>. QED  BY <2>2 DEF Ledger!Next
<1>11. CASE balance[k] # None
  <2>1. k \in DOMAIN Accounts /\ DOMAIN Accounts \cup {k} = DOMAIN Accounts
    BY <1>3, <1>11
  <2>2. Accounts[k].used = u  BY <1>3, <1>11, <2>1 DEF AccountOf
  <2>3. Ledger!Allocate(k)
    BY <1>6, <1>7, <1>8, <1>9, <1>11, <2>1, <2>2 DEF Ledger!Allocate
  <2>. QED  BY <2>3 DEF Ledger!Next
<1>. QED  BY <1>10, <1>11

LEMMA LedgerAllocates ==
  ASSUME SafeInv, SafeInv', NEW w \in Worker, AllocateCommit(w)
  PROVE  Ledger!Next \/ UNCHANGED <<Entries, Accounts>>
<1> DEFINE k == job[w].key
<1>1. /\ pc[w] = "commit" /\ job[w] \in Job /\ JobKey(w) = k /\ k \in BalanceKey
      /\ bal[w] \in BalanceRow /\ bal[w] # None
  BY NoneAssumption DEF AllocateCommit, At, JobKey, SafeInv, TypeInv, HandlerOK
<1>2. /\ bal[w] = balance[k] /\ job[w].allocated \in Nat /\ bal[w].used \in Nat
      /\ bal[w].used <= job[w].allocated
  BY <1>1 DEF AllocateCommit, SafeInv, WorkerInv, Job, BalanceRow
<1>3. request' = request  BY DEF AllocateCommit
<1>4. CASE balance' = balance  BY <1>3, <1>4, EntriesStay, AccountsStay
<1>5. CASE balance' = [balance EXCEPT ![k] = SavedBalance(job[w].allocated, bal[w].used)]
  <2>. HIDE DEF k
  <2>. QED  BY <1>1, <1>2, <1>3, <1>5, LedgerSaves
<1>. QED  BY <1>4, <1>5 DEF AllocateCommit

(* The deletion of an employee closes the accounts and strikes the entries.  *)
LEMMA LedgerLeaves ==
  ASSUME SafeInv, NEW e \in Leaver, DeleteEmployee(e)
  PROVE  Ledger!Next
<1>1. /\ \A r \in Request : request'[r] = IF Of(e, r) THEN None ELSE request[r]
      /\ \A k \in BalanceKey : balance'[k] = IF k[1] = e THEN None ELSE balance[k]
  BY DeletionKeeps DEF SafeInv
<1>2. e \in Employee  BY LeaveAssumption
<1> DEFINE I == {i \in DOMAIN Entries : Entries[i].employee # e}
           A == {a \in DOMAIN Accounts : a[1] # e}
<1>3. Entries' = [i \in I |-> Entries[i]]
  <2>1. ASSUME NEW r \in Request PROVE Exists(r)' <=> r \in I
    <3>1. Exists(r) => Entries[r].employee = request[r].employee
      BY EntryFacts DEF EntryOf
    <3>. QED  BY <1>1, <3>1, EntryFacts DEF Exists, Of
  <2>2. I \subseteq Request  BY EntryFacts
  <2>3. {r \in Request : Exists(r)'} = I  BY <2>1, <2>2
  <2>4. Entries' = [r \in {q \in Request : Exists(q)'} |-> EntryOf(request'[r])]
    BY DEF Entries
  <2>5. \A r \in I : EntryOf(request'[r]) = Entries[r]
    <3>1. ASSUME NEW r \in I PROVE EntryOf(request'[r]) = Entries[r]
      <4>1. r \in Request /\ request'[r] # None  BY <2>1, <2>2 DEF Exists
      <4>2. request'[r] = request[r]  BY <1>1, <4>1
      <4>. QED  BY <4>2, EntryFacts
    <3>. QED  BY <3>1
  <2>. HIDE DEF I
  <2>. QED  BY <2>3, <2>4, <2>5
<1>4. Accounts' = [a \in A |-> Accounts[a]]
  <2>1. ASSUME NEW k \in BalanceKey PROVE balance'[k] # None <=> k \in A
    BY <1>1, AccountFacts
  <2>2. A \subseteq BalanceKey  BY AccountFacts
  <2>3. {k \in BalanceKey : balance'[k] # None} = A  BY <2>1, <2>2
  <2>4. Accounts' = [k \in {b \in BalanceKey : balance'[b] # None} |-> AccountOf(balance'[k])]
    BY DEF Accounts
  <2>5. \A k \in A : AccountOf(balance'[k]) = Accounts[k]
    BY <1>1, <2>2, AccountFacts
  <2>. HIDE DEF A
  <2>. QED  BY <2>3, <2>4, <2>5
<1>5. A = {b \in DOMAIN Accounts : [k \in BalanceKey |-> k[1]][b] # e}
  BY AccountFacts
<1>6. Ledger!Leave(e)
  BY <1>3, <1>4, <1>5 DEF Ledger!Leave
<1>. QED  BY <1>2, <1>6 DEF Ledger!Next

LEMMA LedgerStep ==
  ASSUME SafeInv, SafeInv', ChargesInv, [Next]_vars
  PROVE  Ledger!Next \/ UNCHANGED <<Entries, Accounts>>
<1>1. CASE UNCHANGED <<request, balance>>  BY <1>1, EntriesStay, AccountsStay
<1>2. ASSUME NEW w \in Worker, WorkerStep(w)
      PROVE  Ledger!Next \/ UNCHANGED <<Entries, Accounts>>
  <2>1. CASE Call(w) \/ Acquire(w) \/ DeadlockAbort(w) \/ Crash(w)
    BY <1>1, <2>1, CallBegins DEF Acquire, DeadlockAbort, Crash, dbVars
  <2>2. CASE CheckOverlap(w) \/ ReadRequest(w) \/ ReadBalance(w) \/ Notify(w)
    BY <1>1, <2>2 DEF CheckOverlap, ReadRequest, ReadBalance, Notify, dbVars
  <2>3. CASE InsertRequest(w) \/ RejectCommit(w) \/ CancelCommit(w)
    BY <2>3, LedgerSubmits, LedgerRejects, LedgerCancels
  <2>4. CASE ApproveCommit(w) \/ AllocateCommit(w)
    BY <2>4, LedgerApproves, LedgerAllocates
  <2>. QED  BY <1>2, <2>1, <2>2, <2>3, <2>4 DEF WorkerStep, Proceed
<1>3. CASE Organisation
  <2>1. request' = request  BY <1>3, OrganisationKeeps DEF SafeInv
  <2>2. \/ balance' = balance
        \/ \E k \in BalanceKey, a \in Nat :
             balance[k] = None /\ balance' = [balance EXCEPT ![k] = SavedBalance(a, 0)]
    BY <1>3, OrganisationKeeps DEF SafeInv
  <2>. QED  BY <1>1, <2>1, <2>2, LedgerSaves
<1>4. CASE UNCHANGED vars  BY <1>1, <1>4 DEF vars, dbVars
<1>. QED  BY <1>2, <1>3, <1>4, LedgerLeaves DEF Next, WorkerStep

LEMMA LedgerInit == Init => Ledger!Init
<1>. SUFFICES ASSUME Init PROVE Ledger!Init  OBVIOUS
<1>1. SafeInv  BY SafeInit
<1>2. Entries \in [{} -> Ledger!Entry]
  BY DEF Init, Entries, Exists
<1>3. DOMAIN Accounts \in SUBSET BalanceKey /\ Accounts \in [DOMAIN Accounts -> Ledger!Balance]
  <2>1. Accounts = [k \in DOMAIN Accounts |-> Accounts[k]]  BY DEF Accounts
  <2>. QED  BY <1>1, <2>1, AccountFacts
<1>4. ASSUME NEW k \in DOMAIN Accounts PROVE Accounts[k].used = 0
  <2>1. Accounts[k] = AccountOf(balance[k]) /\ k \in BalanceKey /\ balance[k] # None
    BY <1>1, AccountFacts
  <2>2. balance[k] = SavedBalance(leaveType[k[2]].allowed, 0)  BY <2>1 DEF Init
  <2>. QED  BY <2>1, <2>2 DEF AccountOf, SavedBalance
<1>. QED  BY <1>2, <1>3, <1>4 DEF Ledger!Init

(* The leave service behaves as if every operation happened at one instant:  *)
(* what it decides on is what the tables hold when it commits, and a request *)
(* and its balance change together.                                          *)
THEOREM ImplementsLedger == Spec => DecidedAtOnce
<1>1. SafeInv /\ ChargesInv /\ SafeInv' /\ [Next]_vars
        => [Ledger!Next]_<<Entries, Accounts>>
  BY LedgerStep
<1>. QED  BY <1>1, LedgerInit, Safe, ChargesHold, PTL DEF Spec, DecidedAtOnce, Ledger!Spec
=============================================================================
