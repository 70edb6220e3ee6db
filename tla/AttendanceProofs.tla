-------------------------- MODULE AttendanceProofs --------------------------
(***************************************************************************)
(* Theorems about Attendance, for any employees, workers and operators,    *)
(* any settings, zones, holidays and length of the day.                    *)
(***************************************************************************)
EXTENDS Attendance, FiniteSetTheorems, WellFoundedInduction, TLAPS

(* The status of a check-in from given settings, holidays and leave.        *)
StatusFrom(j, s, holidays, covered) ==
  Calculate(j.date, s, holidays[j.date] = "active", <<j.employee, j.date>> \in covered,
            j.instant, None, None)

(* A call's date is the local one of its instant under settings there      *)
(* were; a check-in that has its status carries one; and a call whose      *)
(* facts have not changed since it began still knows them.                 *)
JobCurrent(j, known, s, holidays, covered) ==
  /\ j.settings \in Setting /\ j.date = LocalDate(j.instant, j.settings)
  /\ j.at \in {"status", "insert"} => j.status \in AttendanceStatus \ {"ABSENT"}
  /\ known => j.settings = s
  /\ known /\ j.at \in {"status", "insert"} => j.status = StatusFrom(j, s, holidays, covered)

JobsCurrent ==
  \A w \in Worker :
    job[w] # None => JobCurrent(job[w], w \in steady, settings, holiday, leave)

(* The instants of a row the admin site never saved fall on its date, each *)
(* under some settings.                                                    *)
Dated(x) ==
  /\ x.checkIn # None => \E s \in Setting : LocalDate(x.checkIn, s) = x.date
  /\ x.checkOut # None => \E s \in Setting : LocalDate(x.checkOut, s) = x.date
RowsDated == \A r \in Existing \ edited : Dated(row[r])

AttendanceInv ==
  /\ TypeOK /\ JobsCurrent /\ OneRowPerDate /\ MinutesMatch /\ RowsDated
  /\ StatusFollowsFacts /\ upToDate \subseteq Existing

-----------------------------------------------------------------------------
(* Values.                                                                  *)

LEMMA CalculateType ==
  ASSUME NEW date, NEW s, NEW isHoliday, NEW isLeave, NEW checkIn, NEW checkOut, NEW minutes
  PROVE  Calculate(date, s, isHoliday, isLeave, checkIn, checkOut, minutes) \in AttendanceStatus
BY DEF Calculate, AttendanceStatus

(* Whoever has checked in is not absent.                                    *)
LEMMA NotAbsent ==
  ASSUME NEW date, NEW s, NEW isHoliday, NEW isLeave, NEW checkIn, NEW checkOut,
         NEW minutes, checkIn # None
  PROVE  Calculate(date, s, isHoliday, isLeave, checkIn, checkOut, minutes) # "ABSENT"
BY DEF Calculate

(* The minutes of a row without a check-out have no part in its status.     *)
LEMMA OpenStatus ==
  ASSUME NEW date, NEW s, NEW isHoliday, NEW isLeave, NEW checkIn, NEW minutes
  PROVE  Calculate(date, s, isHoliday, isLeave, checkIn, None, minutes)
           = Calculate(date, s, isHoliday, isLeave, checkIn, None, None)
BY DEF Calculate

LEMMA InstantFacts ==
  ASSUME NEW i \in Instant
  PROVE  i \in Int /\ i \in Nat /\ i # None
BY NullAssumption, AttendanceAssumption DEF Instant

LEMMA WallFacts ==
  ASSUME NEW i \in Instant, NEW s \in Setting
  PROVE  Offset[s.timezone][i] \in Int /\ Wall(i, s) = i + Offset[s.timezone][i]
<1>1. s.timezone \in Zone
  BY AttendanceAssumption DEF SettingsRow
<1>. QED  BY <1>1, AttendanceAssumption DEF Wall

LEMMA RowFacts ==
  ASSUME TypeOK, NEW r \in Existing
  PROVE  /\ row[r] \in AttendanceRow /\ r \in Row /\ row[r] # None
         /\ row[r].employee \in Employee /\ row[r].date \in Date
         /\ row[r].checkIn \in Maybe(Instant) /\ row[r].checkOut \in Maybe(Instant)
         /\ row[r].minutes \in Maybe(Nat) /\ row[r].status \in AttendanceStatus
BY DEF TypeOK, Existing, Maybe, AttendanceRow

LEMMA JobFacts ==
  ASSUME TypeOK, NEW w \in Worker, job[w] # None
  PROVE  /\ job[w] \in Job /\ job[w].employee \in Employee /\ job[w].settings \in SettingsRow
         /\ job[w].instant \in Instant /\ job[w].date \in Date
         /\ job[w].status \in Maybe(AttendanceStatus)
BY DEF TypeOK, Maybe, Job

-----------------------------------------------------------------------------
(* The four ways to write a row, and what every other step leaves.          *)

CheckedIn(r, j) == [row[r] EXCEPT !.checkIn = j.instant, !.status = j.status]

Inserted(j) ==
  [employee |-> j.employee, date |-> j.date, checkIn |-> j.instant,
   checkOut |-> None, minutes |-> None, status |-> j.status]

Corrected(f) == [f.loaded EXCEPT !.checkIn = f.checkIn, !.checkOut = f.checkOut]

FactsKept == settings' = settings /\ holiday' = holiday /\ leave' = leave

WritesCheckIn(w, r) ==
  /\ At(w, "check_in", "status") /\ r \in RowsOf(job[w].employee, job[w].date)
  /\ row[r].checkIn = None /\ CanSave(r, CheckedIn(r, job[w]))
  /\ Write(r, CheckedIn(r, job[w]), w \in steady /\ row[r].checkOut = None)
  /\ edited' = edited /\ FactsKept

WritesInsert(w, r) ==
  /\ At(w, "check_in", "insert") /\ r \in Row \ Existing
  /\ CanSave(r, Inserted(job[w])) /\ Write(r, Inserted(job[w]), w \in steady)
  /\ edited' = edited /\ FactsKept

WritesCheckOut(w, r) ==
  /\ At(w, "check_out", "context") /\ r \in RowsOf(job[w].employee, job[w].date)
  /\ CanCheckOut(r, job[w]) /\ CanSave(r, CheckedOut(r, job[w]))
  /\ Write(r, CheckedOut(r, job[w]), w \in steady)
  /\ edited' = edited /\ FactsKept

WritesForm(o) ==
  LET r == form[o].row
  IN  /\ form[o] # None /\ form[o].loaded # None /\ job' = job
      /\ CanSave(r, Corrected(form[o])) /\ Write(r, Corrected(form[o]), FALSE)
      /\ edited' = edited \cup {r} /\ FactsKept

NoWrite ==
  /\ row' = row /\ edited' = edited
  /\ upToDate' = {} \/ (upToDate' = upToDate /\ FactsKept)

LEMMA Writes ==
  ASSUME [Next]_vars
  PROVE  \/ NoWrite
         \/ \E w \in Worker, r \in Row :
              WritesCheckIn(w, r) \/ WritesInsert(w, r) \/ WritesCheckOut(w, r)
         \/ \E o \in Operator : WritesForm(o)
<1>. USE DEF factVars, adminVars, FactsKept
<1>1. ASSUME NEW w \in Worker, FindRow(w)
      PROVE  NoWrite \/ \E r \in Row : WritesCheckIn(w, r)
  <2>1. CASE UNCHANGED <<row, upToDate>>
    BY <1>1, <2>1 DEF FindRow, NoWrite
  <2>2. CASE \E r \in RowsOf(job[w].employee, job[w].date) :
               /\ OpenForCheckIn(r) /\ CanSave(r, CheckedIn(r, job[w]))
               /\ Write(r, CheckedIn(r, job[w]), w \in steady /\ row[r].checkOut = None)
    BY <1>1, <2>2 DEF FindRow, WritesCheckIn, OpenForCheckIn, RowsOf, Existing
  <2>. QED  BY <1>1, <2>1, <2>2 DEF FindRow, CheckedIn, Refuse
<1>2. ASSUME NEW w \in Worker, InsertRow(w)
      PROVE  NoWrite \/ \E r \in Row : WritesInsert(w, r)
  <2>1. CASE UNCHANGED <<row, upToDate>>
    BY <1>2, <2>1 DEF InsertRow, NoWrite
  <2>2. CASE \E r \in Row \ Existing :
               CanSave(r, Inserted(job[w])) /\ Write(r, Inserted(job[w]), w \in steady)
    BY <1>2, <2>2 DEF InsertRow, WritesInsert
  <2>. QED  BY <1>2, <2>1, <2>2 DEF InsertRow, Inserted, Refuse
<1>3. ASSUME NEW w \in Worker, CloseRow(w)
      PROVE  NoWrite \/ \E r \in Row : WritesCheckOut(w, r)
  <2>1. CASE UNCHANGED <<row, upToDate>>
    BY <1>3, <2>1 DEF CloseRow, NoWrite
  <2>2. CASE \E r \in RowsOf(job[w].employee, job[w].date) :
               /\ CanCheckOut(r, job[w]) /\ CanSave(r, CheckedOut(r, job[w]))
               /\ Write(r, CheckedOut(r, job[w]), w \in steady)
    BY <1>3, <2>2 DEF CloseRow, WritesCheckOut, RowsOf, Existing
  <2>. QED  BY <1>3, <2>1, <2>2 DEF CloseRow, RowsToClose, Refuse
<1>4. ASSUME NEW w \in Worker, Punch(w)
      PROVE  NoWrite \/ \E r \in Row :
               WritesCheckIn(w, r) \/ WritesInsert(w, r) \/ WritesCheckOut(w, r)
  <2>1. CASE FindRow(w) \/ InsertRow(w) \/ CloseRow(w)
    BY <1>1, <1>2, <1>3, <2>1
  <2>2. CASE \/ \E e \in Employee, op \in {"check_in", "check_out"} : Call(w, e, op)
             \/ DecideStatus(w)
    BY <2>2 DEF Call, DecideStatus, NoWrite
  <2>. QED  BY <1>4, <2>1, <2>2 DEF Punch
<1>5. ASSUME NEW o \in Operator, AdminSite(o) PROVE NoWrite \/ WritesForm(o)
  <2>1. CASE OperatorSaves(o)
    BY <2>1 DEF OperatorSaves, NoWrite, WritesForm, Corrected
  <2>2. CASE \/ \E r \in Row : OperatorOpens(o, r)
             \/ \E checkIn, checkOut \in Maybe(Instant) : OperatorSubmits(o, checkIn, checkOut)
    BY <2>2 DEF OperatorOpens, OperatorSubmits, NoWrite
  <2>. QED  BY <1>5, <2>1, <2>2 DEF AdminSite
<1>6. CASE Calendar
  BY <1>6 DEF Calendar, SaveSettings, CreateHoliday, UpdateHoliday, DeleteHoliday,
              LeaveDecided, FactsChange, NoWrite
<1>7. CASE Tick \/ (\E e \in Employee : EmploymentChanges(e)) \/ UNCHANGED vars
  BY <1>7 DEF Tick, EmploymentChanges, vars, NoWrite
<1>. QED  BY <1>4, <1>5, <1>6, <1>7 DEF Next

-----------------------------------------------------------------------------
(* What is written is a row, so that a write keeps the table's type.        *)

LEMMA CheckedInRow ==
  ASSUME TypeOK, JobsCurrent, NEW w \in Worker, NEW r \in Row, WritesCheckIn(w, r)
  PROVE  CheckedIn(r, job[w]) \in AttendanceRow
<1>1. job[w].instant \in Instant /\ job[w].status \in AttendanceStatus
  BY JobFacts DEF WritesCheckIn, At, JobsCurrent, JobCurrent
<1>2. row[r] \in AttendanceRow
  BY RowFacts DEF WritesCheckIn, RowsOf
<1>. QED  BY <1>1, <1>2 DEF CheckedIn, AttendanceRow, Maybe

LEMMA InsertedRow ==
  ASSUME TypeOK, JobsCurrent, NEW w \in Worker, NEW r \in Row, WritesInsert(w, r)
  PROVE  Inserted(job[w]) \in AttendanceRow
<1>1. /\ job[w].instant \in Instant /\ job[w].status \in AttendanceStatus
      /\ job[w].employee \in Employee /\ job[w].date \in Date
  BY JobFacts DEF WritesInsert, At, JobsCurrent, JobCurrent
<1>. QED  BY <1>1 DEF Inserted, AttendanceRow, Maybe

LEMMA CheckedOutRow ==
  ASSUME TypeOK, NEW w \in Worker, NEW r \in Row, WritesCheckOut(w, r)
  PROVE  /\ CheckedOut(r, job[w]) \in AttendanceRow
         /\ CheckedOut(r, job[w]).minutes = job[w].instant - row[r].checkIn
<1>1. job[w].instant \in Instant /\ job[w].instant \in Nat
  BY JobFacts, InstantFacts DEF WritesCheckOut, At
<1>2. /\ row[r] \in AttendanceRow /\ row[r].checkIn \in Instant /\ row[r].checkIn \in Nat
      /\ job[w].instant >= row[r].checkIn
  BY RowFacts, InstantFacts DEF WritesCheckOut, RowsOf, CanCheckOut, Maybe
<1>. DEFINE minutes == WorkingMinutes(row[r].checkIn, job[w].instant)
            status == Calculate(row[r].date, job[w].settings, HolidayOn(row[r].date),
                        LeaveCoversDate(job[w].employee, row[r].date),
                        row[r].checkIn, job[w].instant, minutes)
<1>3. minutes = job[w].instant - row[r].checkIn /\ minutes \in Nat
  BY <1>1, <1>2 DEF WorkingMinutes
<1>4. status \in AttendanceStatus
  BY CalculateType
<1>5. CheckedOut(r, job[w]) = [row[r] EXCEPT !.checkOut = job[w].instant,
                                             !.minutes = minutes, !.status = status]
  BY DEF CheckedOut
<1>. HIDE DEF minutes, status
<1>. QED  BY <1>1, <1>2, <1>3, <1>4, <1>5 DEF AttendanceRow, Maybe

LEMMA CorrectedRow ==
  ASSUME TypeOK, NEW o \in Operator, WritesForm(o)
  PROVE  Corrected(form[o]) \in AttendanceRow /\ form[o].row \in Row
<1>1. form[o] \in Form /\ form[o].loaded \in AttendanceRow /\ form[o].row \in Row
      /\ form[o].checkIn \in Maybe(Instant) /\ form[o].checkOut \in Maybe(Instant)
  BY DEF WritesForm, TypeOK, Maybe, Form
<1>. QED  BY <1>1 DEF Corrected, AttendanceRow

LEMMA RowType ==
  ASSUME TypeOK, JobsCurrent, [Next]_vars
  PROVE  /\ row' \in [Row -> Maybe(AttendanceRow)] /\ upToDate' \subseteq Row
         /\ edited' \subseteq Row
<1>1. ASSUME NEW r \in Row, NEW new \in AttendanceRow, NEW current, Write(r, new, current)
      PROVE  row' \in [Row -> Maybe(AttendanceRow)] /\ upToDate' \subseteq Row
  BY <1>1 DEF Write, TypeOK, Maybe
<1>2. CASE NoWrite
  BY <1>2 DEF NoWrite, TypeOK
<1>3. ASSUME NEW w \in Worker, NEW r \in Row,
             WritesCheckIn(w, r) \/ WritesInsert(w, r) \/ WritesCheckOut(w, r)
      PROVE  /\ row' \in [Row -> Maybe(AttendanceRow)] /\ upToDate' \subseteq Row
             /\ edited' \subseteq Row
  <2>1. edited' = edited /\ edited \subseteq Row
    BY <1>3 DEF WritesCheckIn, WritesInsert, WritesCheckOut, TypeOK
  <2>2. CASE WritesCheckIn(w, r)
    BY <1>1, <2>1, <2>2, CheckedInRow DEF WritesCheckIn
  <2>3. CASE WritesInsert(w, r)
    BY <1>1, <2>1, <2>3, InsertedRow DEF WritesInsert
  <2>4. CASE WritesCheckOut(w, r)
    BY <1>1, <2>1, <2>4, CheckedOutRow DEF WritesCheckOut
  <2>. QED  BY <1>3, <2>2, <2>3, <2>4
<1>4. ASSUME NEW o \in Operator, WritesForm(o)
      PROVE  /\ row' \in [Row -> Maybe(AttendanceRow)] /\ upToDate' \subseteq Row
             /\ edited' \subseteq Row
  <2>1. Corrected(form[o]) \in AttendanceRow /\ form[o].row \in Row
    BY <1>4, CorrectedRow
  <2>. QED  BY <1>1, <1>4, <2>1 DEF WritesForm, TypeOK
<1>. QED  BY <1>2, <1>3, <1>4, Writes

LEMMA TypeStep == TypeOK /\ JobsCurrent /\ [Next]_vars => TypeOK'
<1>. SUFFICES ASSUME TypeOK, JobsCurrent, [Next]_vars PROVE TypeOK'
  OBVIOUS
<1>. DEFINE Others ==
       /\ clock \in Instant /\ settings \in Setting /\ holiday \in [Date -> HolidayState]
       /\ leave \subseteq Employee \X Date /\ workforce \subseteq Employee
       /\ job \in [Worker -> Maybe(Job)]
       /\ form \in [Operator -> Maybe(Form)] /\ changes \in 0..MaxChanges
       /\ steady \subseteq Worker
<1>. USE DEF Maybe
<1>1. ASSUME NEW w \in Worker, NEW e \in Employee, NEW op \in {"check_in", "check_out"},
             Call(w, e, op)
      PROVE  Others'
  <2>1. settings \in SettingsRow /\ LocalDate(clock, settings) \in Date /\ clock \in Instant
    BY AttendanceAssumption DEF TypeOK
  <2>. DEFINE new == [op |-> op, at |-> "context", employee |-> e, settings |-> settings,
         instant |-> clock, date |-> LocalDate(clock, settings), status |-> None]
  <2>2. new \in Job
    BY <2>1 DEF Job
  <2>3. job' = [job EXCEPT ![w] = new]
    BY <1>1 DEF Call
  <2>. HIDE DEF new
  <2>. QED  BY <1>1, <2>2, <2>3 DEF Call, TypeOK, factVars, adminVars
<1>2. ASSUME NEW w \in Worker, DecideStatus(w) PROVE Others'
  <2>. DEFINE j == job[w]
              status == Calculate(j.date, j.settings, HolidayOn(j.date),
                          LeaveCoversDate(j.employee, j.date), j.instant, None, None)
  <2>1. job[w] \in Job /\ status \in AttendanceStatus
    BY <1>2, JobFacts, CalculateType DEF DecideStatus, At
  <2>2. job' = [job EXCEPT ![w] = [[job[w] EXCEPT !.at = "status"] EXCEPT !.status = status]]
    BY <1>2 DEF DecideStatus, TypeOK
  <2>. HIDE DEF status
  <2>3. [[job[w] EXCEPT !.at = "status"] EXCEPT !.status = status] \in Job
    BY <2>1 DEF Job
  <2>. QED  BY <1>2, <2>2, <2>3 DEF DecideStatus, TypeOK, factVars, adminVars
<1>3. ASSUME NEW w \in Worker, FindRow(w) \/ InsertRow(w) \/ CloseRow(w) PROVE Others'
  <2>1. /\ UNCHANGED <<clock, settings, holiday, leave, workforce, form, changes>>
        /\ \/ Answer(w)
           \/ /\ job' = [job EXCEPT ![w] = [job[w] EXCEPT !.at = "insert"]]
              /\ steady' = steady /\ job[w] # None
    BY <1>3 DEF FindRow, InsertRow, CloseRow, Refuse, At, TypeOK, factVars, adminVars
  <2>2. job[w] # None => [job[w] EXCEPT !.at = "insert"] \in Job
    BY JobFacts DEF Job
  <2>. QED  BY <2>1, <2>2 DEF Answer, TypeOK
<1>4. ASSUME Calendar PROVE Others'
  <2>1. UNCHANGED <<clock, workforce, job, form>> /\ changes' \in 0..MaxChanges /\ steady' = {}
    <3>1. FactsChange
      BY <1>4 DEF Calendar, SaveSettings, CreateHoliday, UpdateHoliday, DeleteHoliday,
                  LeaveDecided
    <3>. QED  BY <3>1, AttendanceAssumption DEF FactsChange, TypeOK, adminVars
  <2>2. settings' \in Setting
    BY <1>4 DEF Calendar, SaveSettings, CreateHoliday, UpdateHoliday, DeleteHoliday,
                LeaveDecided, TypeOK
  <2>3. holiday' \in [Date -> HolidayState]
    BY <1>4 DEF Calendar, SaveSettings, CreateHoliday, UpdateHoliday, DeleteHoliday,
                LeaveDecided, TypeOK, HolidayState
  <2>4. leave' \subseteq Employee \X Date
    <3>1. leave' = leave \/ \E e \in Employee, d \in Date : leave' \subseteq leave \cup {<<e, d>>}
      BY <1>4 DEF Calendar, SaveSettings, CreateHoliday, UpdateHoliday, DeleteHoliday,
                  LeaveDecided
    <3>. QED  BY <3>1 DEF TypeOK
  <2>. QED  BY <2>1, <2>2, <2>3, <2>4 DEF TypeOK
<1>5. ASSUME Tick PROVE Others'
  BY <1>5, AttendanceAssumption DEF Tick, TypeOK, Instant, factVars, adminVars
<1>6. ASSUME NEW o \in Operator, NEW r \in Row, OperatorOpens(o, r) PROVE Others'
  <2>1. row[r] \in AttendanceRow
    BY <1>6, RowFacts DEF OperatorOpens, Existing
  <2>2. [row |-> r, checkIn |-> row[r].checkIn, checkOut |-> row[r].checkOut,
         loaded |-> None] \in Form
    BY <2>1 DEF AttendanceRow, Form
  <2>. QED  BY <1>6, <2>2, AttendanceAssumption DEF OperatorOpens, TypeOK, factVars
<1>7. ASSUME NEW o \in Operator, NEW checkIn \in Maybe(Instant),
             NEW checkOut \in Maybe(Instant), OperatorSubmits(o, checkIn, checkOut)
      PROVE  Others'
  <2>1. form[o] \in Form /\ form[o].row \in Row
    BY <1>7 DEF OperatorSubmits, TypeOK, Form
  <2>. DEFINE new == [[[form[o] EXCEPT !.checkIn = checkIn] EXCEPT !.checkOut = checkOut]
                       EXCEPT !.loaded = row[form[o].row]]
  <2>2. new \in Form
    BY <2>1 DEF Form, TypeOK
  <2>3. form' = [form EXCEPT ![o] = new]
    BY <1>7 DEF OperatorSubmits, TypeOK
  <2>4. UNCHANGED <<clock, settings, holiday, leave, workforce, job, changes, steady>>
    BY <1>7 DEF OperatorSubmits, factVars
  <2>. HIDE DEF new
  <2>5. form' \in [Operator -> Maybe(Form)]
    BY <2>2, <2>3 DEF TypeOK
  <2>. QED  BY <2>4, <2>5 DEF TypeOK
<1>8. ASSUME NEW o \in Operator, OperatorSaves(o) PROVE Others'
  BY <1>8 DEF OperatorSaves, TypeOK, factVars
<1>e. ASSUME NEW e \in Employee, EmploymentChanges(e) PROVE Others'
  <2>1. workforce' \subseteq Employee /\ changes' \in 0..MaxChanges
    BY <1>e, AttendanceAssumption DEF EmploymentChanges, TypeOK
  <2>. QED  BY <1>e, <2>1 DEF EmploymentChanges, TypeOK, factVars, adminVars
<1>9. ASSUME UNCHANGED vars PROVE Others'
  BY <1>9 DEF vars, factVars, adminVars, TypeOK
<1>10. Others'
  BY <1>1, <1>2, <1>3, <1>4, <1>5, <1>6, <1>7, <1>8, <1>e, <1>9 DEF Next, Punch, AdminSite
<1>. QED  BY <1>10, RowType DEF TypeOK

LEMMA TypeInit == Init => TypeOK
BY AttendanceAssumption DEF Init, TypeOK, Maybe, Instant

-----------------------------------------------------------------------------
(* Calls.                                                                   *)

LEMMA JobsStep == TypeOK /\ JobsCurrent /\ [Next]_vars => JobsCurrent'
<1>. DEFINE Current(v) == JobCurrent(job'[v], v \in steady', settings', holiday', leave')
<1>. SUFFICES ASSUME TypeOK, JobsCurrent, [Next]_vars, NEW v \in Worker, job'[v] # None
              PROVE  Current(v)
  BY DEF JobsCurrent
<1>1. ASSUME job'[v] = job[v], FactsKept, steady' \subseteq steady \cup (Worker \ {v})
      PROVE  Current(v)
  BY <1>1 DEF JobsCurrent, JobCurrent, FactsKept
<1>2. ASSUME NEW w \in Worker, NEW e \in Employee, NEW op \in {"check_in", "check_out"},
             Call(w, e, op)
      PROVE  Current(v)
  <2>1. /\ FactsKept /\ steady' = steady \cup {w}
        /\ job' = [job EXCEPT ![w] = [op |-> op, at |-> "context", employee |-> e,
                     settings |-> settings, instant |-> clock,
                     date |-> LocalDate(clock, settings), status |-> None]]
    BY <1>2 DEF Call, FactsKept, factVars
  <2>2. CASE v = w
    <3>1. /\ job'[v].at = "context" /\ job'[v].settings = settings' /\ settings' \in Setting
          /\ job'[v].date = LocalDate(job'[v].instant, job'[v].settings)
      BY <2>1, <2>2 DEF TypeOK, FactsKept
    <3>. QED  BY <3>1 DEF JobCurrent
  <2>3. CASE v # w
    BY <1>1, <2>1, <2>3 DEF TypeOK
  <2>. QED  BY <2>2, <2>3
<1>3. ASSUME NEW w \in Worker, DecideStatus(w) PROVE Current(v)
  <2>. DEFINE status == Calculate(job[w].date, job[w].settings, HolidayOn(job[w].date),
                          LeaveCoversDate(job[w].employee, job[w].date), job[w].instant,
                          None, None)
  <2>1. FactsKept /\ steady' = steady /\ job[w] # None
    BY <1>3 DEF DecideStatus, FactsKept, factVars, At
  <2>2. CASE v = w
    <3>1. job'[v] = [[job[w] EXCEPT !.at = "status"] EXCEPT !.status = status]
      BY <1>3, <2>2 DEF DecideStatus, TypeOK
    <3>2. job[w] \in Job /\ status \in AttendanceStatus \ {"ABSENT"}
      BY <2>1, JobFacts, InstantFacts, CalculateType, NotAbsent
    <3>3. w \in steady => job[w].settings = settings
      BY <2>1 DEF JobsCurrent, JobCurrent
    <3>4. w \in steady => status = StatusFrom(job[w], settings, holiday, leave)
      BY <3>3 DEF StatusFrom, HolidayOn, LeaveCoversDate
    <3>. HIDE DEF status
    <3>5. /\ job'[v].status = status /\ job'[v].settings = job[w].settings
          /\ job'[v].date = job[w].date /\ job'[v].employee = job[w].employee
          /\ job'[v].instant = job[w].instant
      BY <3>1, <3>2 DEF Job
    <3>6. StatusFrom(job'[v], settings, holiday, leave)
            = StatusFrom(job[w], settings, holiday, leave)
      BY <3>5 DEF StatusFrom
    <3>7. job[w].settings \in Setting /\ job[w].date = LocalDate(job[w].instant, job[w].settings)
      BY <2>1 DEF JobsCurrent, JobCurrent
    <3>8. /\ job'[v].settings \in Setting
          /\ job'[v].date = LocalDate(job'[v].instant, job'[v].settings)
      BY <3>5, <3>7
    <3>. QED  BY <2>1, <2>2, <3>2, <3>3, <3>4, <3>5, <3>6, <3>8 DEF FactsKept, JobCurrent
  <2>3. CASE v # w
    BY <1>1, <1>3, <2>1, <2>3 DEF DecideStatus, TypeOK
  <2>. QED  BY <2>2, <2>3
<1>4. ASSUME NEW w \in Worker, FindRow(w) \/ InsertRow(w) \/ CloseRow(w)
      PROVE  Current(v)
  <2>1. CASE Answer(w)
    <3>1. FactsKept /\ steady' = steady \ {w} /\ job' = [job EXCEPT ![w] = None]
      BY <1>4, <2>1 DEF Answer, FindRow, InsertRow, CloseRow, FactsKept, factVars
    <3>2. v # w
      BY <3>1 DEF TypeOK
    <3>. QED  BY <1>1, <3>1, <3>2 DEF TypeOK
  <2>2. CASE ~Answer(w)
    <3>1. /\ FactsKept /\ steady' = steady /\ At(w, "check_in", "status")
          /\ job' = [job EXCEPT ![w] = [job[w] EXCEPT !.at = "insert"]]
      BY <1>4, <2>2 DEF FindRow, InsertRow, CloseRow, Refuse, FactsKept, TypeOK, factVars
    <3>2. CASE v = w
      <4>1. job[w] \in Job /\ job[w].at = "status" /\ job[w] # None
        BY <3>1, JobFacts DEF At
      <4>2. job'[v] = [job[w] EXCEPT !.at = "insert"]
        BY <3>1, <3>2 DEF TypeOK
      <4>3. /\ job'[v].status = job[w].status /\ job'[v].settings = job[w].settings
            /\ job'[v].date = job[w].date /\ job'[v].employee = job[w].employee
            /\ job'[v].instant = job[w].instant
        BY <4>1, <4>2 DEF Job
      <4>4. StatusFrom(job'[v], settings, holiday, leave)
              = StatusFrom(job[w], settings, holiday, leave)
        BY <4>3 DEF StatusFrom
      <4>. QED  BY <3>1, <3>2, <4>1, <4>3, <4>4 DEF JobsCurrent, JobCurrent, FactsKept
    <3>3. CASE v # w
      BY <1>1, <3>1, <3>3 DEF TypeOK
    <3>. QED  BY <3>2, <3>3
  <2>. QED  BY <2>1, <2>2
<1>5. ASSUME Calendar PROVE Current(v)
  <2>1. job' = job /\ steady' = {}
    BY <1>5 DEF Calendar, SaveSettings, CreateHoliday, UpdateHoliday, DeleteHoliday,
                LeaveDecided, FactsChange
  <2>. QED  BY <2>1 DEF JobsCurrent, JobCurrent
<1>6. ASSUME \/ Tick \/ UNCHANGED vars
             \/ \E e \in Employee : EmploymentChanges(e)
             \/ \E o \in Operator : AdminSite(o)
      PROVE  Current(v)
  <2>1. job' = job /\ steady' = steady /\ FactsKept
    BY <1>6 DEF Tick, EmploymentChanges, AdminSite, OperatorOpens, OperatorSubmits,
                OperatorSaves, vars, FactsKept, factVars
  <2>. QED  BY <1>1, <2>1
<1>7. Current(v)
  BY <1>2, <1>3, <1>4, <1>5, <1>6 DEF Next, Punch
<1>. QED  BY <1>7

-----------------------------------------------------------------------------
(* Rows.                                                                    *)

LEMMA WriteOneRow ==
  ASSUME TypeOK, OneRowPerDate, NEW r \in Row, NEW new \in AttendanceRow, NEW current,
         Write(r, new, current), CanSave(r, new)
  PROVE  OneRowPerDate'
<1>. SUFFICES ASSUME NEW x \in Existing', NEW y \in Existing',
                     row'[x].employee = row'[y].employee, row'[x].date = row'[y].date
              PROVE  x = y
  BY DEF OneRowPerDate
<1>1. row' = [row EXCEPT ![r] = new] /\ Unique(r, new)
  BY DEF Write, CanSave
<1>2. \A z \in Existing' \ {r} : z \in Existing /\ row'[z] = row[z]
  BY <1>1 DEF Existing, TypeOK
<1>3. row'[r] = new
  BY <1>1 DEF TypeOK
<1>. QED  BY <1>1, <1>2, <1>3 DEF Unique, OneRowPerDate

LEMMA OneRowStep ==
  ASSUME TypeOK, JobsCurrent, OneRowPerDate, [Next]_vars
  PROVE  OneRowPerDate'
<1>1. CASE NoWrite
  BY <1>1 DEF NoWrite, OneRowPerDate, Existing
<1>2. ASSUME NEW w \in Worker, NEW r \in Row,
             WritesCheckIn(w, r) \/ WritesInsert(w, r) \/ WritesCheckOut(w, r)
      PROVE  OneRowPerDate'
  <2>1. CASE WritesCheckIn(w, r)
    BY <2>1, CheckedInRow, WriteOneRow DEF WritesCheckIn
  <2>2. CASE WritesInsert(w, r)
    BY <2>2, InsertedRow, WriteOneRow DEF WritesInsert
  <2>3. CASE WritesCheckOut(w, r)
    BY <2>3, CheckedOutRow, WriteOneRow DEF WritesCheckOut
  <2>. QED  BY <1>2, <2>1, <2>2, <2>3
<1>3. ASSUME NEW o \in Operator, WritesForm(o) PROVE OneRowPerDate'
  BY <1>3, CorrectedRow, WriteOneRow DEF WritesForm
<1>. QED  BY <1>1, <1>2, <1>3, Writes

(* The minutes of what is written.                                          *)
Timed(new) ==
  /\ new.checkOut # None => new.checkIn # None
  /\ new.minutes # None <=> new.checkOut # None
  /\ new.checkOut # None => new.minutes = new.checkOut - new.checkIn

LEMMA WriteMinutes ==
  ASSUME TypeOK, MinutesMatch, NEW r \in Row, NEW new \in AttendanceRow, NEW current,
         Write(r, new, current), edited' = edited, r \notin edited => Timed(new)
  PROVE  MinutesMatch'
<1>. SUFFICES ASSUME NEW x \in Existing' \ edited' PROVE Timed(row'[x])
  BY DEF MinutesMatch, MinutesOf, Timed
<1>1. row' = [row EXCEPT ![r] = new]
  BY DEF Write
<1>2. CASE x = r
  BY <1>1, <1>2 DEF TypeOK
<1>3. CASE x # r
  BY <1>1, <1>3 DEF TypeOK, Existing, MinutesMatch, MinutesOf, Timed
<1>. QED  BY <1>2, <1>3

LEMMA MinutesStep ==
  ASSUME TypeOK, JobsCurrent, MinutesMatch, [Next]_vars
  PROVE  MinutesMatch'
<1>1. CASE NoWrite
  BY <1>1 DEF NoWrite, MinutesMatch, MinutesOf, Existing
<1>2. ASSUME NEW w \in Worker, NEW r \in Row, WritesCheckIn(w, r) PROVE MinutesMatch'
  <2>1. row[r] \in AttendanceRow /\ r \in Existing /\ row[r].checkIn = None
    BY <1>2, RowFacts DEF WritesCheckIn, RowsOf
  <2>2. r \notin edited => row[r].checkOut = None /\ row[r].minutes = None
    BY <2>1 DEF MinutesMatch, MinutesOf
  <2>3. /\ CheckedIn(r, job[w]).checkOut = row[r].checkOut
        /\ CheckedIn(r, job[w]).minutes = row[r].minutes
    BY <2>1 DEF CheckedIn, AttendanceRow
  <2>. QED  BY <1>2, <2>2, <2>3, CheckedInRow, WriteMinutes DEF WritesCheckIn, Timed
<1>3. ASSUME NEW w \in Worker, NEW r \in Row, WritesInsert(w, r) PROVE MinutesMatch'
  <2>1. Inserted(job[w]).checkOut = None /\ Inserted(job[w]).minutes = None
    BY DEF Inserted
  <2>. QED  BY <1>3, <2>1, InsertedRow, WriteMinutes DEF WritesInsert, Timed
<1>4. ASSUME NEW w \in Worker, NEW r \in Row, WritesCheckOut(w, r) PROVE MinutesMatch'
  <2>1. /\ row[r] \in AttendanceRow /\ row[r].checkIn # None
        /\ row[r].checkIn \in Int /\ job[w].instant \in Int
    BY <1>4, RowFacts, JobFacts, InstantFacts
       DEF WritesCheckOut, RowsOf, CanCheckOut, At, Maybe
  <2>2. /\ CheckedOut(r, job[w]).checkOut = job[w].instant
        /\ CheckedOut(r, job[w]).checkIn = row[r].checkIn
        /\ CheckedOut(r, job[w]).minutes = job[w].instant - row[r].checkIn
    BY <1>4, <2>1, CheckedOutRow DEF CheckedOut, AttendanceRow
  <2>3. Timed(CheckedOut(r, job[w]))
    BY <2>1, <2>2, NullAssumption DEF Timed
  <2>. QED  BY <1>4, <2>3, CheckedOutRow, WriteMinutes DEF WritesCheckOut
<1>5. ASSUME NEW o \in Operator, WritesForm(o) PROVE MinutesMatch'
  BY <1>5, CorrectedRow DEF WritesForm, Write, MinutesMatch, MinutesOf, Existing, TypeOK
<1>. QED  BY <1>1, <1>2, <1>3, <1>4, <1>5, Writes

-----------------------------------------------------------------------------
(* Dates.                                                                   *)

LEMMA WriteDated ==
  ASSUME TypeOK, RowsDated, NEW r \in Row, NEW new \in AttendanceRow, NEW current,
         Write(r, new, current), edited' = edited, r \notin edited => Dated(new)
  PROVE  RowsDated'
<1>. SUFFICES ASSUME NEW x \in Existing' \ edited' PROVE Dated(row'[x])
  BY DEF RowsDated, Dated
<1>1. row' = [row EXCEPT ![r] = new]
  BY DEF Write
<1>2. CASE x = r
  BY <1>1, <1>2 DEF TypeOK
<1>3. CASE x # r
  BY <1>1, <1>3 DEF TypeOK, Existing, RowsDated
<1>. QED  BY <1>2, <1>3

LEMMA DatedStep ==
  ASSUME TypeOK, JobsCurrent, RowsDated, [Next]_vars
  PROVE  RowsDated'
<1>1. CASE NoWrite
  BY <1>1 DEF NoWrite, RowsDated, Existing, Dated
<1>2. ASSUME NEW w \in Worker, job[w] # None
      PROVE  \E s \in Setting : LocalDate(job[w].instant, s) = job[w].date
  BY <1>2 DEF JobsCurrent, JobCurrent
<1>3. ASSUME NEW w \in Worker, NEW r \in Row, WritesCheckIn(w, r) PROVE RowsDated'
  <2>1. /\ row[r] \in AttendanceRow /\ r \in Existing /\ job[w] # None
        /\ row[r].date = job[w].date
    BY <1>3, RowFacts DEF WritesCheckIn, RowsOf, At
  <2>2. /\ CheckedIn(r, job[w]).checkIn = job[w].instant
        /\ CheckedIn(r, job[w]).checkOut = row[r].checkOut
        /\ CheckedIn(r, job[w]).date = job[w].date
    BY <2>1 DEF CheckedIn, AttendanceRow
  <2>3. r \notin edited => Dated(CheckedIn(r, job[w]))
    BY <1>2, <2>1, <2>2 DEF RowsDated, Dated
  <2>. QED  BY <1>3, <2>3, CheckedInRow, WriteDated DEF WritesCheckIn
<1>4. ASSUME NEW w \in Worker, NEW r \in Row, WritesInsert(w, r) PROVE RowsDated'
  <2>1. job[w] # None
    BY <1>4 DEF WritesInsert, At
  <2>2. Dated(Inserted(job[w]))
    BY <1>2, <2>1 DEF Inserted, Dated
  <2>. QED  BY <1>4, <2>2, InsertedRow, WriteDated DEF WritesInsert
<1>5. ASSUME NEW w \in Worker, NEW r \in Row, WritesCheckOut(w, r) PROVE RowsDated'
  <2>1. /\ row[r] \in AttendanceRow /\ r \in Existing /\ job[w] # None
        /\ row[r].date = job[w].date
    BY <1>5, RowFacts DEF WritesCheckOut, RowsOf, At
  <2>2. /\ CheckedOut(r, job[w]).checkOut = job[w].instant
        /\ CheckedOut(r, job[w]).checkIn = row[r].checkIn
        /\ CheckedOut(r, job[w]).date = row[r].date
    BY <2>1 DEF CheckedOut, AttendanceRow
  <2>3. r \notin edited => Dated(CheckedOut(r, job[w]))
    BY <1>2, <2>1, <2>2 DEF RowsDated, Dated
  <2>. QED  BY <1>5, <2>3, CheckedOutRow, WriteDated DEF WritesCheckOut
<1>6. ASSUME NEW o \in Operator, WritesForm(o) PROVE RowsDated'
  BY <1>6, CorrectedRow DEF WritesForm, Write, RowsDated, Dated, Existing, TypeOK
<1>. QED  BY <1>1, <1>3, <1>4, <1>5, <1>6, Writes

(* Two instants of one day are less than a day apart.                       *)
LEMMA SameDay ==
  ASSUME NEW a \in Int, NEW b \in Int, NEW m \in Nat \ {0}, a \div m = b \div m
  PROVE  b - a < m
<1>1. a \div m \in Int /\ a % m \in 0..(m - 1) /\ b % m \in 0..(m - 1)
  OBVIOUS
<1>2. a = m * (a \div m) + (a % m) /\ b = m * (b \div m) + (b % m)
  OBVIOUS
<1>3. PICK q \in Int : q = m * (a \div m)
  BY <1>1
<1>. QED  BY <1>1, <1>2, <1>3

LEMMA ShiftsFit ==
  ASSUME TypeOK, MinutesMatch, RowsDated
  PROVE  WithinOneDay
<1>. SUFFICES ASSUME NEW r \in Existing \ edited, row[r].checkOut # None
              PROVE  \E s, t \in Setting :
                       /\ LocalDate(row[r].checkIn, s) = row[r].date
                       /\ LocalDate(row[r].checkOut, t) = row[r].date
                       /\ row[r].minutes < MinutesPerDay
                            + Offset[s.timezone][row[r].checkIn]
                            - Offset[t.timezone][row[r].checkOut]
  BY DEF WithinOneDay
<1>1. /\ row[r].checkIn # None /\ row[r].minutes = row[r].checkOut - row[r].checkIn
  BY DEF MinutesMatch, MinutesOf
<1>2. /\ row[r].checkIn \in Instant /\ row[r].checkOut \in Instant
  BY <1>1, RowFacts DEF Maybe
<1>3. PICK s \in Setting : LocalDate(row[r].checkIn, s) = row[r].date
  BY <1>1 DEF RowsDated, Dated
<1>4. PICK t \in Setting : LocalDate(row[r].checkOut, t) = row[r].date
  BY DEF RowsDated, Dated
<1>5. row[r].checkIn \in Nat /\ row[r].checkOut \in Nat /\ MinutesPerDay \in Nat \ {0}
  BY <1>2, InstantFacts, AttendanceAssumption
<1>. DEFINE a == Wall(row[r].checkIn, s)
            b == Wall(row[r].checkOut, t)
            ahead == Offset[s.timezone][row[r].checkIn]
            later == Offset[t.timezone][row[r].checkOut]
<1>6. /\ ahead \in Int /\ a = row[r].checkIn + ahead
      /\ later \in Int /\ b = row[r].checkOut + later
  BY <1>2, WallFacts
<1>7. a \div MinutesPerDay = b \div MinutesPerDay
  BY <1>3, <1>4 DEF LocalDate
<1>. HIDE DEF a, b, ahead, later
<1>8. a \in Int /\ b \in Int
  BY <1>5, <1>6
<1>9. b - a < MinutesPerDay
  BY <1>5, <1>7, <1>8, SameDay
<1>10. row[r].minutes < MinutesPerDay + ahead - later
  BY <1>1, <1>5, <1>6, <1>9
<1>. QED  BY <1>3, <1>4, <1>10 DEF ahead, later

-----------------------------------------------------------------------------
(* Statuses.                                                                *)

(* The status that given settings, holidays and leave give to a row.        *)
RowStatus(x, s, holidays, covered) ==
  Calculate(x.date, s, holidays[x.date] = "active", <<x.employee, x.date>> \in covered,
            x.checkIn, x.checkOut, x.minutes)

StatusesHeld ==
  /\ upToDate \subseteq Existing
  /\ \A r \in upToDate : row[r].status = RowStatus(row[r], settings, holiday, leave)

LEMMA StatusesHeldFacts ==
  StatusesHeld <=> StatusFollowsFacts /\ upToDate \subseteq Existing
BY DEF StatusesHeld, StatusFollowsFacts, RowStatus, HolidayOn, LeaveCoversDate

LEMMA WriteStatus ==
  ASSUME TypeOK, StatusesHeld, NEW r \in Row, NEW new \in AttendanceRow, NEW current,
         Write(r, new, current), FactsKept,
         current => new.status = RowStatus(new, settings, holiday, leave)
  PROVE  StatusesHeld'
<1>1. row' = [row EXCEPT ![r] = new] /\ new # None
  BY NullAssumption DEF Write
<1>2. row'[r] = new /\ \A x \in Row \ {r} : row'[x] = row[x]
  BY <1>1 DEF TypeOK
<1>3. upToDate' \subseteq upToDate \cup {r} /\ (r \in upToDate' => current)
  BY DEF Write
<1>4. upToDate' \subseteq Existing'
  BY <1>1, <1>2, <1>3 DEF StatusesHeld, Existing
<1>5. ASSUME NEW x \in upToDate'
      PROVE  row'[x].status = RowStatus(row'[x], settings', holiday', leave')
  <2>1. CASE x = r
    BY <1>2, <1>3, <2>1 DEF FactsKept
  <2>2. CASE x # r
    BY <1>2, <1>3, <2>2 DEF FactsKept, StatusesHeld, Existing
  <2>. QED  BY <2>1, <2>2
<1>. QED  BY <1>4, <1>5 DEF StatusesHeld

LEMMA StatusStep ==
  ASSUME TypeOK, JobsCurrent, StatusesHeld, [Next]_vars
  PROVE  StatusesHeld'
<1>1. CASE NoWrite
  BY <1>1 DEF NoWrite, StatusesHeld, Existing, FactsKept
<1>2. ASSUME NEW w \in Worker, NEW r \in Row, WritesCheckIn(w, r) PROVE StatusesHeld'
  <2>. DEFINE new == CheckedIn(r, job[w])
  <2>1. /\ row[r] \in AttendanceRow /\ row[r].employee = job[w].employee
        /\ row[r].date = job[w].date /\ job[w] # None /\ job[w].at = "status"
    BY <1>2, RowFacts DEF WritesCheckIn, RowsOf, At
  <2>2. /\ new.status = job[w].status /\ new.checkIn = job[w].instant
        /\ new.checkOut = row[r].checkOut /\ new.employee = job[w].employee
        /\ new.date = job[w].date
    BY <2>1 DEF CheckedIn, AttendanceRow
  <2>3. ASSUME w \in steady, row[r].checkOut = None
        PROVE  new.status = RowStatus(new, settings, holiday, leave)
    <3>1. job[w].status = StatusFrom(job[w], settings, holiday, leave)
      BY <2>1, <2>3 DEF JobsCurrent, JobCurrent
    <3>2. RowStatus(new, settings, holiday, leave)
            = StatusFrom(job[w], settings, holiday, leave)
      BY <2>2, <2>3, OpenStatus DEF RowStatus, StatusFrom
    <3>. QED  BY <2>2, <3>1, <3>2
  <2>4. new \in AttendanceRow
    BY <1>2, CheckedInRow
  <2>5. Write(r, new, w \in steady /\ row[r].checkOut = None) /\ FactsKept
    BY <1>2 DEF WritesCheckIn
  <2>. HIDE DEF new
  <2>. QED  BY <2>3, <2>4, <2>5, WriteStatus
<1>3. ASSUME NEW w \in Worker, NEW r \in Row, WritesInsert(w, r) PROVE StatusesHeld'
  <2>. DEFINE new == Inserted(job[w])
  <2>1. job[w] # None /\ job[w].at = "insert"
    BY <1>3 DEF WritesInsert, At
  <2>2. ASSUME w \in steady PROVE new.status = RowStatus(new, settings, holiday, leave)
    BY <2>1, <2>2 DEF JobsCurrent, JobCurrent, Inserted, RowStatus, StatusFrom
  <2>3. new \in AttendanceRow
    BY <1>3, InsertedRow
  <2>4. Write(r, new, w \in steady) /\ FactsKept
    BY <1>3 DEF WritesInsert
  <2>. HIDE DEF new
  <2>. QED  BY <2>2, <2>3, <2>4, WriteStatus
<1>4. ASSUME NEW w \in Worker, NEW r \in Row, WritesCheckOut(w, r) PROVE StatusesHeld'
  <2>. DEFINE new == CheckedOut(r, job[w])
              minutes == WorkingMinutes(row[r].checkIn, job[w].instant)
              status == Calculate(row[r].date, job[w].settings, HolidayOn(row[r].date),
                          LeaveCoversDate(job[w].employee, row[r].date),
                          row[r].checkIn, job[w].instant, minutes)
  <2>1. row[r] \in AttendanceRow /\ row[r].employee = job[w].employee /\ job[w] # None
    BY <1>4, RowFacts DEF WritesCheckOut, RowsOf, At
  <2>2. new = [row[r] EXCEPT !.checkOut = job[w].instant,
                             !.minutes = minutes, !.status = status]
    BY DEF CheckedOut
  <2>3. ASSUME w \in steady PROVE new.status = RowStatus(new, settings, holiday, leave)
    <3>1. job[w].settings = settings
      BY <2>1, <2>3 DEF JobsCurrent, JobCurrent
    <3>2. status = Calculate(row[r].date, settings, holiday[row[r].date] = "active",
                     <<row[r].employee, row[r].date>> \in leave,
                     row[r].checkIn, job[w].instant, minutes)
      BY <2>1, <3>1 DEF HolidayOn, LeaveCoversDate
    <3>. HIDE DEF status, minutes, new
    <3>3. /\ new.status = status /\ new.checkIn = row[r].checkIn
          /\ new.checkOut = job[w].instant /\ new.minutes = minutes
          /\ new.employee = row[r].employee /\ new.date = row[r].date
      BY <2>1, <2>2 DEF AttendanceRow
    <3>. QED  BY <3>2, <3>3 DEF RowStatus
  <2>4. new \in AttendanceRow
    BY <1>4, CheckedOutRow
  <2>5. Write(r, new, w \in steady) /\ FactsKept
    BY <1>4 DEF WritesCheckOut
  <2>. HIDE DEF new
  <2>. QED  BY <2>3, <2>4, <2>5, WriteStatus
<1>5. ASSUME NEW o \in Operator, WritesForm(o) PROVE StatusesHeld'
  <2>1. Write(form[o].row, Corrected(form[o]), FALSE) /\ FactsKept
    BY <1>5 DEF WritesForm
  <2>. QED  BY <1>5, <2>1, CorrectedRow, WriteStatus
<1>. QED  BY <1>1, <1>2, <1>3, <1>4, <1>5, Writes

-----------------------------------------------------------------------------
(* The inductive invariant.                                                 *)

LEMMA InitAttendanceInv == Init => AttendanceInv
<1>. SUFFICES ASSUME Init PROVE AttendanceInv
  OBVIOUS
<1>1. TypeOK
  BY TypeInit
<1>2. /\ Existing = {} /\ upToDate = {} /\ \A w \in Worker : job[w] = None
  BY DEF Init, Existing
<1>. QED
  BY <1>1, <1>2
     DEF AttendanceInv, JobsCurrent, OneRowPerDate, MinutesMatch, RowsDated, StatusFollowsFacts

LEMMA NextAttendanceInv == AttendanceInv /\ [Next]_vars => AttendanceInv'
<1>. SUFFICES ASSUME AttendanceInv, [Next]_vars PROVE AttendanceInv'
  OBVIOUS
<1>1. TypeOK /\ JobsCurrent /\ OneRowPerDate /\ MinutesMatch /\ RowsDated /\ StatusesHeld
  BY StatusesHeldFacts DEF AttendanceInv
<1>2. StatusesHeld'
  BY <1>1, StatusStep
<1>3. StatusFollowsFacts' /\ (upToDate \subseteq Existing)'
  BY <1>2 DEF StatusesHeld, StatusFollowsFacts, RowStatus, HolidayOn, LeaveCoversDate
<1>4. TypeOK' /\ JobsCurrent' /\ OneRowPerDate' /\ MinutesMatch' /\ RowsDated'
  BY <1>1, TypeStep, JobsStep, OneRowStep, MinutesStep, DatedStep
<1>. QED  BY <1>3, <1>4 DEF AttendanceInv

THEOREM Inductive == Spec => []AttendanceInv
BY InitAttendanceInv, NextAttendanceInv, PTL DEF Spec

(* Every variable keeps its type.                                           *)
THEOREM TypeCorrect == Spec => []TypeOK
<1>1. AttendanceInv => TypeOK
  BY DEF AttendanceInv
<1>. QED  BY <1>1, Inductive, PTL

(* An employee has one row per company-local date, whatever check-ins race. *)
THEOREM RowsUnique == Spec => []OneRowPerDate
<1>1. AttendanceInv => OneRowPerDate
  BY DEF AttendanceInv
<1>. QED  BY <1>1, Inductive, PTL

(* On a row the admin site never saved the minutes are those between its    *)
(* two instants, both instants fall on its date, and the shift is shorter   *)
(* than a day and what the clocks went back in between, in their zone or by *)
(* a change of the zone: a check-out closes the row of its own local date   *)
(* (AttendanceService.check_out).                                           *)
THEOREM ShiftsTrue == Spec => []ShiftsRecorded
<1>1. AttendanceInv => ShiftsRecorded
  BY ShiftsFit DEF AttendanceInv, ShiftsRecorded
<1>. QED  BY <1>1, Inductive, PTL

(* A status written from the present facts is the one they give.            *)
THEOREM StatusesTrue == Spec => []StatusFollowsFacts
<1>1. AttendanceInv => StatusFollowsFacts
  BY DEF AttendanceInv
<1>. QED  BY <1>1, Inductive, PTL

-----------------------------------------------------------------------------
(* Calls that end.                                                          *)

LEMMA PunchKeeps ==
  ASSUME TypeOK, JobsCurrent, [Next]_vars, NEW r \in Existing, NEW w \in Worker, Punched(w)
  PROVE  /\ row'[r] # None
         /\ row[r].checkIn # None => row'[r].checkIn = row[r].checkIn
         /\ row[r].checkIn # None /\ row[r].checkOut # None => row'[r] = row[r]
<1>1. row[r] \in AttendanceRow /\ row[r] # None /\ None \notin AttendanceRow
  BY RowFacts, NullAssumption
<1>2. CASE NoWrite
  BY <1>1, <1>2 DEF NoWrite
<1>3. ASSUME NEW v \in Worker, NEW x \in Row, WritesCheckIn(v, x)
      PROVE  /\ row'[r] # None /\ (row[r].checkIn # None => row'[r] = row[r])
  <2>1. row' = [row EXCEPT ![x] = CheckedIn(x, job[v])] /\ row[x].checkIn = None
    BY <1>3 DEF WritesCheckIn, Write
  <2>2. CheckedIn(x, job[v]) # None
    BY <1>3, CheckedInRow, NullAssumption
  <2>. QED  BY <1>1, <2>1, <2>2 DEF TypeOK, Existing
<1>4. ASSUME NEW v \in Worker, NEW x \in Row, WritesInsert(v, x)
      PROVE  row'[r] = row[r]
  BY <1>4 DEF WritesInsert, Write, TypeOK, Existing
<1>5. ASSUME NEW v \in Worker, NEW x \in Row, WritesCheckOut(v, x)
      PROVE  /\ row'[r] # None /\ row'[r].checkIn = row[r].checkIn
             /\ (row[r].checkOut # None => row'[r] = row[r])
  <2>1. /\ row' = [row EXCEPT ![x] = CheckedOut(x, job[v])] /\ row[x].checkOut = None
        /\ CheckedOut(x, job[v]) \in AttendanceRow
    BY <1>5, CheckedOutRow DEF WritesCheckOut, Write, CanCheckOut
  <2>2. x = r => CheckedOut(x, job[v]).checkIn = row[r].checkIn
    BY <1>1 DEF CheckedOut, AttendanceRow
  <2>. QED  BY <1>1, <2>1, <2>2 DEF TypeOK, Existing
<1>6. ASSUME NEW o \in Operator, WritesForm(o) PROVE FALSE
  BY <1>6 DEF WritesForm, Punched
<1>. QED  BY <1>1, <1>2, <1>3, <1>4, <1>5, <1>6, Writes

(* No call rewrites an instant, and none touches a row that is checked out. *)
THEOREM InstantsStay == Spec => InstantsKept
<1>1. ASSUME AttendanceInv, [Next]_vars
      PROVE  \A r \in Existing :
               (\E w \in Worker : Punched(w)) =>
                 /\ row'[r] # None
                 /\ row[r].checkIn # None => row'[r].checkIn = row[r].checkIn
                 /\ row[r].checkIn # None /\ row[r].checkOut # None => row'[r] = row[r]
  BY <1>1, PunchKeeps DEF AttendanceInv
<1>. QED  BY <1>1, Inductive, PTL DEF Spec, InstantsKept

-----------------------------------------------------------------------------
(* The three screens. First, which rows there can be.                       *)

(* A row that only calls wrote has a check-in and is not an absence.        *)
Attended(x) == x.checkIn # None /\ x.status # "ABSENT"
RowsAttended == \A r \in Existing \ edited : Attended(row[r])

LEMMA WriteAttended ==
  ASSUME TypeOK, RowsAttended, NEW r \in Row, NEW new \in AttendanceRow, NEW current,
         Write(r, new, current), edited' = edited, r \notin edited => Attended(new)
  PROVE  RowsAttended'
<1>. SUFFICES ASSUME NEW x \in Existing' \ edited' PROVE Attended(row'[x])
  BY DEF RowsAttended, Attended
<1>1. row' = [row EXCEPT ![r] = new]
  BY DEF Write
<1>2. CASE x = r
  BY <1>1, <1>2 DEF TypeOK
<1>3. CASE x # r
  BY <1>1, <1>3 DEF TypeOK, Existing, RowsAttended
<1>. QED  BY <1>2, <1>3

LEMMA AttendedStep ==
  ASSUME TypeOK, JobsCurrent, RowsAttended, [Next]_vars
  PROVE  RowsAttended'
<1>1. CASE NoWrite
  BY <1>1 DEF NoWrite, RowsAttended, Existing, Attended
<1>2. ASSUME NEW w \in Worker, job[w] # None
      PROVE  /\ job[w].instant # None
             /\ job[w].at \in {"status", "insert"} => job[w].status # "ABSENT"
  BY <1>2, JobFacts, InstantFacts DEF JobsCurrent, JobCurrent
<1>3. ASSUME NEW w \in Worker, NEW r \in Row, WritesCheckIn(w, r) PROVE RowsAttended'
  <2>1. row[r] \in AttendanceRow /\ job[w] # None /\ job[w].at = "status"
    BY <1>3, RowFacts DEF WritesCheckIn, RowsOf, At
  <2>2. /\ CheckedIn(r, job[w]).checkIn = job[w].instant
        /\ CheckedIn(r, job[w]).status = job[w].status
    BY <2>1 DEF CheckedIn, AttendanceRow
  <2>3. Attended(CheckedIn(r, job[w]))
    BY <1>2, <2>1, <2>2 DEF Attended
  <2>. QED  BY <1>3, <2>3, CheckedInRow, WriteAttended DEF WritesCheckIn
<1>4. ASSUME NEW w \in Worker, NEW r \in Row, WritesInsert(w, r) PROVE RowsAttended'
  <2>1. job[w] # None /\ job[w].at = "insert"
    BY <1>4 DEF WritesInsert, At
  <2>2. Attended(Inserted(job[w]))
    BY <1>2, <2>1 DEF Inserted, Attended
  <2>. QED  BY <1>4, <2>2, InsertedRow, WriteAttended DEF WritesInsert
<1>5. ASSUME NEW w \in Worker, NEW r \in Row, WritesCheckOut(w, r) PROVE RowsAttended'
  <2>1. row[r] \in AttendanceRow /\ row[r].checkIn # None
    BY <1>5, RowFacts DEF WritesCheckOut, RowsOf, CanCheckOut
  <2>2. PICK minutes, holidayNow, leaveNow :
          CheckedOut(r, job[w]) =
            [row[r] EXCEPT !.checkOut = job[w].instant, !.minutes = minutes,
               !.status = Calculate(row[r].date, job[w].settings, holidayNow, leaveNow,
                            row[r].checkIn, job[w].instant, minutes)]
    BY DEF CheckedOut
  <2>3. Attended(CheckedOut(r, job[w]))
    BY <2>1, <2>2, NotAbsent DEF Attended, AttendanceRow
  <2>. QED  BY <1>5, <2>3, CheckedOutRow, WriteAttended DEF WritesCheckOut
<1>6. ASSUME NEW o \in Operator, WritesForm(o) PROVE RowsAttended'
  BY <1>6, CorrectedRow DEF WritesForm, Write, RowsAttended, Attended, Existing, TypeOK
<1>. QED  BY <1>1, <1>3, <1>4, <1>5, <1>6, Writes

LEMMA Attending == Spec => []RowsAttended
<1>1. Init => RowsAttended
  BY DEF Init, RowsAttended, Existing
<1>2. AttendanceInv /\ RowsAttended /\ [Next]_vars => RowsAttended'
  BY AttendedStep DEF AttendanceInv
<1>. QED  BY <1>1, <1>2, Inductive, PTL DEF Spec

-----------------------------------------------------------------------------
(* Counting. A set has as many elements as an injection gives it images.    *)
ImageOf(f, S) == {f[x] : x \in S}

LEMMA Images ==
  ASSUME NEW S, NEW T, IsFiniteSet(T), NEW f \in Injection(S, T)
  PROVE  IsFiniteSet(S) /\ Cardinality(ImageOf(f, S)) = Cardinality(S)
<1>. USE DEF ImageOf
<1>1. f \in [S -> T]
  BY DEF Injection
<1>2. IsFiniteSet(S)
  BY FS_Injection
<1>3. f \in Bijection(S, {f[x] : x \in S})
  <2>1. f = [x \in S |-> f[x]] /\ \A x \in S : f[x] \in {f[y] : y \in S}
    BY <1>1
  <2>2. f \in [S -> {f[x] : x \in S}]
    BY <2>1
  <2>. QED  BY <2>2 DEF Bijection, Injection, Surjection
<1>. QED  BY <1>2, <1>3, FS_Bijection DEF ExistsBijection

(* The rows of a range stand for different pairs of employee and date.      *)
LEMMA RowsArePairs ==
  ASSUME AttendanceInv, NEW E \in SUBSET Employee, NEW D \in SUBSET Date,
         NEW X \in SUBSET RowsIn(E, D)
  PROVE  /\ IsFiniteSet(E \X D) /\ Cardinality(E \X D) = Cardinality(E) * Cardinality(D)
         /\ IsFiniteSet(X)
         /\ {<<row[r].employee, row[r].date>> : r \in X} \subseteq E \X D
         /\ Cardinality({<<row[r].employee, row[r].date>> : r \in X}) = Cardinality(X)
<1>1. /\ IsFiniteSet(E \X D) /\ Cardinality(E \X D) = Cardinality(E) * Cardinality(D)
  <2>1. IsFiniteSet(E) /\ IsFiniteSet(D)
    BY AttendanceAssumption, FS_Subset
  <2>. QED  BY <2>1, FS_Product
<1>. DEFINE f == [r \in X |-> <<row[r].employee, row[r].date>>]
<1>2. f \in [X -> E \X D]
  BY DEF RowsIn
<1>3. f \in Injection(X, E \X D)
  BY <1>2 DEF Injection, IsInjective, AttendanceInv, OneRowPerDate, RowsIn
<1>4. ImageOf(f, X) = {<<row[r].employee, row[r].date>> : r \in X}
  BY DEF ImageOf
<1>5. IsFiniteSet(X) /\ Cardinality(ImageOf(f, X)) = Cardinality(X)
  <2>. HIDE DEF f
  <2>. QED  BY <1>1, <1>3, Images
<1>6. ImageOf(f, X) \subseteq E \X D
  BY <1>2 DEF ImageOf
<1>. QED  BY <1>1, <1>4, <1>5, <1>6

(* The pairs of one date are as many as its employees.                      *)
LEMMA PairsOfDate ==
  ASSUME NEW A \in SUBSET Employee, NEW date
  PROVE  Cardinality({<<e, date>> : e \in A}) = Cardinality(A)
<1>. DEFINE f == [e \in A |-> <<e, date>>]
<1>1. IsFiniteSet(A) /\ IsFiniteSet(A \X {date})
  <2>1. IsFiniteSet(A)
    BY AttendanceAssumption, FS_Subset
  <2>. QED  BY <2>1, FS_Singleton, FS_Product
<1>2. f \in Injection(A, A \X {date})
  BY DEF Injection, IsInjective
<1>3. ImageOf(f, A) = {<<e, date>> : e \in A}
  BY DEF ImageOf
<1>. HIDE DEF f
<1>. QED  BY <1>1, <1>2, <1>3, Images

-----------------------------------------------------------------------------
(* What the present facts say of a date.                                    *)

LEMMA StatusWithRow ==
  ASSUME AttendanceInv, NEW e, NEW date, NEW r \in RowsOf(e, date)
  PROVE  /\ RowsOf(e, date) = {r}
         /\ StatusNow(e, date) = Calculate(date, settings, HolidayOn(date),
              LeaveCoversDate(e, date), row[r].checkIn, row[r].checkOut, row[r].minutes)
<1>1. RowsOf(e, date) = {r}
  BY DEF AttendanceInv, OneRowPerDate, RowsOf
<1>2. (CHOOSE x \in RowsOf(e, date) : TRUE) = r
  BY <1>1
<1>. QED  BY <1>1, <1>2 DEF StatusNow

LEMMA StatusWithoutRow ==
  ASSUME NEW e, NEW date, RowsOf(e, date) = {}
  PROVE  StatusNow(e, date) = Calculate(date, settings, HolidayOn(date),
           LeaveCoversDate(e, date), None, None, None)
BY DEF StatusNow

(* The summary's condition for an absence is the dashboard's.               *)
Missed(e, date) ==
  /\ IsWorkingDay(date, settings) /\ ~HolidayOn(date) /\ ~LeaveCoversDate(e, date)
  /\ \A r \in RowsOf(e, date) : row[r].checkIn = None

LEMMA AbsentMeans ==
  ASSUME AttendanceInv, NEW e, NEW date
  PROVE  StatusNow(e, date) = "ABSENT" <=> Missed(e, date)
<1>1. CASE RowsOf(e, date) = {}
  BY <1>1, StatusWithoutRow DEF Missed, Calculate
<1>2. ASSUME NEW r \in RowsOf(e, date)
      PROVE  StatusNow(e, date) = "ABSENT" <=> Missed(e, date)
  BY <1>2, StatusWithRow DEF Missed, Calculate
<1>. QED  BY <1>1, <1>2

LEMMA AbsencesAgree ==
  ASSUME AttendanceInv, NEW E, NEW D
  PROVE  AbsentDays(E, D) = Cardinality({p \in E \X D : IsAbsentOn(p[1], p[2])})
<1>1. {p \in E \X D : IsAbsentOn(p[1], p[2])} = {p \in E \X D : Missed(p[1], p[2])}
  BY AbsentMeans DEF IsAbsentOn
<1>. QED  BY <1>1 DEF AbsentDays, Missed

(* The rows of a date with one of these statuses as stored, and the         *)
(* employees with one of them as computed now.                              *)
StoredWith(E, date, statuses) == {r \in RowsIn(E, {date}) : row[r].status \in statuses}
NowWith(E, date, statuses) == {e \in E : StatusNow(e, date) \in statuses}

(* The employees of a date with a status that a check-in gives are those of *)
(* the rows that have it, while the rows are up to date.                    *)
LEMMA StoredCounts ==
  ASSUME AttendanceInv, NEW E \in SUBSET Employee, NEW date \in Date,
         RowsIn(E, {date}) \subseteq upToDate, NEW statuses
  PROVE  /\ IsFiniteSet(StoredWith(E, date, statuses))
         /\ IsFiniteSet(NowWith(E, date, statuses))
         /\ Cardinality(StoredWith(E, date, statuses)) <= Cardinality(NowWith(E, date, statuses))
         /\ statuses \subseteq {"PRESENT", "HALF_DAY", "LATE"}
              => Cardinality(StoredWith(E, date, statuses)) = Cardinality(NowWith(E, date, statuses))
<1>. DEFINE X == {r \in RowsIn(E, {date}) : row[r].status \in statuses}
            A == {e \in E : StatusNow(e, date) \in statuses}
            P == {<<row[r].employee, row[r].date>> : r \in X}
            Q == {<<e, date>> : e \in A}
<1>1. IsFiniteSet(X) /\ Cardinality(P) = Cardinality(X) /\ IsFiniteSet(E \X {date})
  <2>1. X \in SUBSET RowsIn(E, {date}) /\ {date} \in SUBSET Date
    OBVIOUS
  <2>. HIDE DEF X
  <2>. QED  BY <2>1, RowsArePairs
<1>2. A \in SUBSET Employee /\ IsFiniteSet(A) /\ Cardinality(Q) = Cardinality(A)
  <2>1. A \in SUBSET Employee
    OBVIOUS
  <2>. HIDE DEF A
  <2>2. IsFiniteSet(A)
    BY <2>1, AttendanceAssumption, FS_Subset
  <2>. QED  BY <2>1, <2>2, PairsOfDate
<1>3. ASSUME NEW r \in RowsIn(E, {date})
      PROVE  /\ row[r].employee \in E /\ row[r].date = date /\ r \in RowsOf(row[r].employee, date)
             /\ row[r].status = StatusNow(row[r].employee, date)
  <2>1. /\ r \in Existing /\ row[r].employee \in E /\ row[r].date = date /\ r \in upToDate
    BY DEF RowsIn
  <2>2. r \in RowsOf(row[r].employee, date)
    BY <2>1 DEF RowsOf
  <2>3. row[r].status = Calculate(date, settings, HolidayOn(date),
          LeaveCoversDate(row[r].employee, date),
          row[r].checkIn, row[r].checkOut, row[r].minutes)
    BY <2>1 DEF AttendanceInv, StatusFollowsFacts
  <2>. QED  BY <2>1, <2>2, <2>3, StatusWithRow
<1>4. P \subseteq Q
  BY <1>3
<1>5. IsFiniteSet(Q)
  <2>1. Q \subseteq E \X {date}
    OBVIOUS
  <2>. QED  BY <1>1, <2>1, FS_Subset
<1>6. Cardinality(X) <= Cardinality(A)
  BY <1>1, <1>2, <1>4, <1>5, FS_Subset
<1>7. ASSUME statuses \subseteq {"PRESENT", "HALF_DAY", "LATE"} PROVE Q \subseteq P
  <2>. SUFFICES ASSUME NEW e \in A PROVE <<e, date>> \in P
    OBVIOUS
  <2>1. RowsOf(e, date) # {}
    BY <1>7, StatusWithoutRow DEF Calculate
  <2>2. PICK r \in RowsOf(e, date) : TRUE
    BY <2>1
  <2>3. r \in RowsIn(E, {date}) /\ row[r].employee = e /\ row[r].date = date
    BY DEF RowsOf, RowsIn
  <2>. QED  BY <1>3, <2>3
<1>8. X = StoredWith(E, date, statuses) /\ A = NowWith(E, date, statuses)
  BY DEF StoredWith, NowWith
<1>9. statuses \subseteq {"PRESENT", "HALF_DAY", "LATE"} => P = Q
  BY <1>4, <1>7
<1>. HIDE DEF X, A, P, Q
<1>. QED  BY <1>1, <1>2, <1>6, <1>8, <1>9

(* The summary's absences of a date are the employees absent now.           *)
LEMMA AbsentNow ==
  ASSUME AttendanceInv, NEW E \in SUBSET Employee, NEW date \in Date
  PROVE  /\ AbsentDays(E, {date}) = Cardinality(NowWith(E, date, {"ABSENT"}))
         /\ IsFiniteSet(NowWith(E, date, {"ABSENT"}))
<1>. DEFINE A == {e \in E : StatusNow(e, date) \in {"ABSENT"}}
<1>1. A = NowWith(E, date, {"ABSENT"})
  BY DEF NowWith
<1>2. {<<e, date>> : e \in A} = {p \in E \X {date} : IsAbsentOn(p[1], p[2])}
  BY DEF IsAbsentOn
<1>3. Cardinality({<<e, date>> : e \in A}) = Cardinality(A)
  BY PairsOfDate
<1>4. A \in SUBSET Employee
  OBVIOUS
<1>. HIDE DEF A
<1>5. IsFiniteSet(A)
  BY <1>4, AttendanceAssumption, FS_Subset
<1>. QED  BY <1>1, <1>2, <1>3, <1>5, AbsencesAgree

LEMMA CountsHold ==
  ASSUME AttendanceInv, NEW Some \in SUBSET Employee, NEW date \in Date
  PROVE  CountsAgree(Some, date)
<1>. DEFINE E == Some \cap workforce
            Rest == Some \ workforce
            count(statuses) == Cardinality(NowWith(E, date, statuses))
<1>e. E \in SUBSET Employee /\ Rest \in SUBSET Employee
  OBVIOUS
<1>1. AbsentDays(Some, {date}) = count({"ABSENT"}) + AbsentDays(Rest, {date})
  <2>. DEFINE A == NowWith(E, date, {"ABSENT"})
              B == NowWith(Rest, date, {"ABSENT"})
  <2>1. NowWith(Some, date, {"ABSENT"}) = A \cup B /\ A \cap B = {}
    BY DEF NowWith
  <2>. HIDE DEF E, Rest
  <2>2. /\ IsFiniteSet(A) /\ IsFiniteSet(B) /\ AbsentDays(Rest, {date}) = Cardinality(B)
        /\ AbsentDays(Some, {date}) = Cardinality(NowWith(Some, date, {"ABSENT"}))
    BY <1>e, AbsentNow
  <2>. HIDE DEF A, B
  <2>3. Cardinality(A \cup B) = Cardinality(A) + Cardinality(B) - Cardinality(A \cap B)
    BY <2>2, FS_Union
  <2>4. /\ Cardinality(A \cap B) = 0
        /\ Cardinality(A) \in Nat /\ Cardinality(B) \in Nat
    BY <2>1, <2>2, FS_EmptySet, FS_CardinalityType
  <2>5. Cardinality(A \cup B) = Cardinality(A) + Cardinality(B)
    BY <2>3, <2>4
  <2>. QED  BY <2>1, <2>2, <2>5 DEF A
<1>2. ASSUME RowsIn(E, {date}) \subseteq upToDate
      PROVE  /\ count({"PRESENT", "HALF_DAY"})
                  = StatusCount(E, {date}, "PRESENT") + StatusCount(E, {date}, "HALF_DAY")
             /\ count({"LATE"}) = StatusCount(E, {date}, "LATE")
             /\ count({"LEAVE"}) >= StatusCount(E, {date}, "LEAVE")
  <2>. DEFINE X(statuses) == StoredWith(E, date, statuses)
  <2>1. \A s : X({s}) = {r \in RowsIn(E, {date}) : row[r].status = s}
    BY DEF StoredWith
  <2>c. ASSUME NEW statuses
        PROVE  /\ IsFiniteSet(X(statuses)) /\ count(statuses) \in Nat
               /\ Cardinality(X(statuses)) \in Nat
               /\ Cardinality(X(statuses)) <= count(statuses)
               /\ statuses \subseteq {"PRESENT", "HALF_DAY", "LATE"}
                    => count(statuses) = Cardinality(X(statuses))
    <3>. HIDE DEF E
    <3>. QED  BY <1>2, <1>e, StoredCounts, FS_CardinalityType
  <2>2. count({"LATE"}) = Cardinality(X({"LATE"}))
    <3>. HIDE DEF X, count
    <3>. QED  BY <2>c
  <2>3. Cardinality(X({"LEAVE"})) <= count({"LEAVE"}) /\ Cardinality(X({"LEAVE"})) \in Nat
        /\ count({"LEAVE"}) \in Nat
    <3>. HIDE DEF X, count
    <3>. QED  BY <2>c
  <2>4. count({"PRESENT", "HALF_DAY"}) = Cardinality(X({"PRESENT", "HALF_DAY"}))
    <3>. HIDE DEF X, count
    <3>. QED  BY <2>c
  <2>5. IsFiniteSet(X({"PRESENT"})) /\ IsFiniteSet(X({"HALF_DAY"}))
    <3>. HIDE DEF X, count
    <3>. QED  BY <2>c
  <2>6. /\ X({"PRESENT", "HALF_DAY"}) = X({"PRESENT"}) \cup X({"HALF_DAY"})
        /\ X({"PRESENT"}) \cap X({"HALF_DAY"}) = {}
    BY DEF StoredWith
  <2>7. Cardinality(X({"PRESENT", "HALF_DAY"}))
          = Cardinality(X({"PRESENT"})) + Cardinality(X({"HALF_DAY"}))
    <3>. HIDE DEF X
    <3>1. Cardinality({}) = 0 /\ Cardinality(X({"PRESENT"})) \in Nat
          /\ Cardinality(X({"HALF_DAY"})) \in Nat
      BY <2>5, FS_EmptySet, FS_CardinalityType
    <3>. DEFINE Y == X({"PRESENT"})
                Z == X({"HALF_DAY"})
    <3>2. Cardinality(Y \cup Z) = Cardinality(Y) + Cardinality(Z) - Cardinality(Y \cap Z)
      BY <2>5, FS_Union
    <3>3. Cardinality(Y \cap Z) = 0
      BY <2>6, <3>1
    <3>4. Cardinality(Y \cup Z) = Cardinality(Y) + Cardinality(Z)
      BY <3>1, <3>2, <3>3
    <3>. QED  BY <2>6, <3>4
  <2>. QED  BY <2>1, <2>2, <2>3, <2>4, <2>7 DEF StatusCount
<1>. QED  BY <1>1, <1>2 DEF CountsAgree, TodayCounts, NowWith

-----------------------------------------------------------------------------
(* Adding up. MapThenSumSet chooses a table of the sums over the subsets of *)
(* a set; that there is one, and that it grows with its entries, is shown   *)
(* by a least counterexample.                                               *)

(* A set of natural numbers that is not empty has a least one.              *)
LEMMA LeastNat ==
  ASSUME NEW T \in SUBSET Nat, T # {}
  PROVE  \E n \in T : \A m \in T : n <= m
<1>. DEFINE R == OpToRel(<, Nat)
<1>1. IsWellFoundedOn(R, Nat)
  BY NatLessThanWellFounded, Zenon
<1>2. \A m, n \in Nat : m < n => <<m, n>> \in R
  BY DEF OpToRel
<1>. HIDE DEF R
<1>3. PICK n \in T : \A m \in T : ~(<<m, n>> \in R)
  BY <1>1, WFMin
<1>4. ASSUME NEW m \in T PROVE n <= m
  <2>1. m \in Nat /\ n \in Nat /\ ~(m < n)
    BY <1>2, <1>3
  <2>. QED  BY <2>1
<1>. QED  BY <1>4

(* MapThenSumSet picks an element, and sums from a table of smaller sets.    *)
Element(s) == CHOOSE x \in s : TRUE
Sum(e, g, s) == IF s = {} THEN 0 ELSE e[Element(s)] + g[s \ {Element(s)}]
IsTable(e, S, g) == g = [s \in SUBSET S |-> Sum(e, g, s)]

LEMMA Smaller ==
  ASSUME NEW S, IsFiniteSet(S), NEW s \in SUBSET S, s # {}
  PROVE  /\ Element(s) \in s /\ Cardinality(s) \in Nat
         /\ s \ {Element(s)} \in SUBSET S
         /\ Cardinality(s \ {Element(s)}) = Cardinality(s) - 1
<1>1. Element(s) \in s
  BY DEF Element
<1>2. IsFiniteSet(s)
  BY FS_Subset
<1>. QED  BY <1>1, <1>2, FS_RemoveElement, FS_CardinalityType

LEMMA TableExists ==
  ASSUME NEW e, NEW S, IsFiniteSet(S)
  PROVE  \E g : IsTable(e, S, g)
<1>. DEFINE Upto(n, g) == \A s \in SUBSET S : Cardinality(s) <= n => g[s] = Sum(e, g, s)
            Has(n) == \E g : g = [s \in SUBSET S |-> g[s]] /\ Upto(n, g)
            T == {n \in Nat : ~Has(n)}
<1>1. \A s \in SUBSET S : IsFiniteSet(s) /\ Cardinality(s) \in Nat
  BY FS_Subset, FS_CardinalityType
<1>2. Has(0)
  <2>. DEFINE g == [s \in SUBSET S |-> 0]
  <2>1. \A s \in SUBSET S : Cardinality(s) <= 0 => s = {}
    BY <1>1, FS_EmptySet
  <2>2. Upto(0, g)
    BY <2>1 DEF Sum
  <2>3. g = [s \in SUBSET S |-> g[s]]
    OBVIOUS
  <2>. QED  BY <2>2, <2>3
<1>3. ASSUME NEW n \in Nat, Has(n) PROVE Has(n + 1)
  <2>1. PICK g : g = [s \in SUBSET S |-> g[s]] /\ Upto(n, g)
    BY <1>3
  <2>. DEFINE h == [s \in SUBSET S |-> IF Cardinality(s) <= n THEN g[s] ELSE Sum(e, g, s)]
  <2>2. ASSUME NEW s \in SUBSET S, Cardinality(s) <= n + 1 PROVE h[s] = Sum(e, h, s)
    <3>1. h[s] = Sum(e, g, s)
      BY <2>1, <2>2
    <3>2. CASE s = {}
      BY <3>1, <3>2 DEF Sum
    <3>3. CASE s # {}
      <4>1. s \ {Element(s)} \in SUBSET S /\ Cardinality(s \ {Element(s)}) <= n
        BY <2>2, <3>3, Smaller
      <4>2. h[s \ {Element(s)}] = g[s \ {Element(s)}]
        BY <4>1
      <4>. QED  BY <3>1, <3>3, <4>2 DEF Sum
    <3>. QED  BY <3>2, <3>3
  <2>3. h = [s \in SUBSET S |-> h[s]]
    OBVIOUS
  <2>4. Upto(n + 1, h)
    BY <2>2
  <2>. QED  BY <2>3, <2>4
<1>4. \A n \in Nat : Has(n)
  <2>. SUFFICES ASSUME T # {} PROVE FALSE
    OBVIOUS
  <2>. HIDE DEF Has
  <2>1. PICK n \in T : \A m \in T : n <= m
    BY LeastNat
  <2>2. n # 0
    BY <1>2, <2>1
  <2>3. n - 1 \in Nat /\ n - 1 \notin T
    BY <2>1, <2>2
  <2>. QED  BY <1>3, <2>1, <2>3
<1>5. PICK g : g = [s \in SUBSET S |-> g[s]] /\ Upto(Cardinality(S), g)
  BY <1>1, <1>4
<1>6. \A s \in SUBSET S : g[s] = Sum(e, g, s)
  <2>1. \A s \in SUBSET S : Cardinality(s) <= Cardinality(S)
    BY FS_Subset
  <2>. QED  BY <1>5, <2>1
<1>. QED  BY <1>5, <1>6 DEF IsTable

(* Greater entries have the greater sum.                                    *)
LEMMA SumsGrow ==
  ASSUME NEW S, IsFiniteSet(S), NEW e \in [S -> Int], NEW f \in [S -> Int],
         \A r \in S : e[r] <= f[r],
         NEW g, IsTable(e, S, g), NEW h, IsTable(f, S, h)
  PROVE  g[S] <= h[S]
<1>. DEFINE Good(s) == g[s] \in Int /\ h[s] \in Int /\ g[s] <= h[s]
            Bad == {s \in SUBSET S : ~Good(s)}
            T == {Cardinality(s) : s \in Bad}
<1>. SUFFICES ASSUME Bad # {} PROVE FALSE
  OBVIOUS
<1>1. \A s \in SUBSET S : Cardinality(s) \in Nat
  BY FS_Subset, FS_CardinalityType
<1>2. PICK s \in Bad : \A t \in Bad : Cardinality(s) <= Cardinality(t)
  <2>1. T \in SUBSET Nat /\ T # {}
    BY <1>1
  <2>2. PICK n \in T : \A m \in T : n <= m
    BY <2>1, LeastNat
  <2>. QED  BY <2>2
<1>3. s # {}
  BY DEF IsTable, Sum
<1>. DEFINE x == Element(s)
<1>4. /\ x \in s /\ s \ {x} \in SUBSET S /\ Cardinality(s) \in Nat
      /\ Cardinality(s \ {x}) = Cardinality(s) - 1
  BY <1>3, Smaller
<1>5. g[s] = e[x] + g[s \ {x}] /\ h[s] = f[x] + h[s \ {x}]
  BY <1>3 DEF IsTable, Sum
<1>. HIDE DEF x
<1>6. Good(s \ {x})
  BY <1>2, <1>4
<1>7. x \in S /\ e[x] \in Int /\ f[x] \in Int /\ e[x] <= f[x]
  BY <1>4
<1>8. Good(s)
  BY <1>5, <1>6, <1>7
<1>. QED  BY <1>8

(* The two totals of a summary.                                             *)
Overtime(r) == OvertimeMinutes(settings, row[r].date, row[r].checkOut)
Worked(r) == IF row[r].minutes = None THEN 0 ELSE row[r].minutes

OvertimeTable(S, g) ==
  g = [s \in SUBSET S |-> IF s = {} THEN 0 ELSE Overtime(Element(s)) + g[s \ {Element(s)}]]
WorkedTable(S, g) ==
  g = [s \in SUBSET S |-> IF s = {} THEN 0 ELSE Worked(Element(s)) + g[s \ {Element(s)}]]

LEMMA OvertimeTotal ==
  ASSUME NEW E, NEW D, IsFiniteSet(RowsIn(E, D))
  PROVE  LET S == RowsIn(E, D)
         IN  \E g : IsTable([r \in S |-> Overtime(r)], S, g) /\ TotalOvertime(E, D) = g[S]
<1>. DEFINE S == RowsIn(E, D)
            e == [r \in S |-> Overtime(r)]
<1>1. TotalOvertime(E, D) = (CHOOSE g : OvertimeTable(S, g))[S]
  BY DEF TotalOvertime, OvertimeTable, Overtime, Element, MapThenSumSet, MapThenFoldSet
<1>2. \A s \in SUBSET S : s # {} => e[Element(s)] = Overtime(Element(s))
  BY Smaller
<1>3. \A g : IsTable(e, S, g) <=> OvertimeTable(S, g)
  <2>. HIDE DEF S, e
  <2>. QED  BY <1>2 DEF IsTable, OvertimeTable, Sum
<1>. HIDE DEF S, e
<1>4. \E g : IsTable(e, S, g)
  BY TableExists DEF S
<1>5. PICK g : OvertimeTable(S, g) /\ TotalOvertime(E, D) = g[S]
  BY <1>1, <1>3, <1>4
<1>. QED  BY <1>3, <1>5 DEF S, e

LEMMA WorkedTotal ==
  ASSUME NEW E, NEW D, IsFiniteSet(RowsIn(E, D))
  PROVE  LET S == RowsIn(E, D)
         IN  \E g : /\ IsTable([r \in S |-> Worked(r)], S, g)
                    /\ TotalWorkingMinutes(E, D) = g[S]
<1>. DEFINE S == RowsIn(E, D)
            e == [r \in S |-> Worked(r)]
<1>1. TotalWorkingMinutes(E, D) = (CHOOSE g : WorkedTable(S, g))[S]
  BY DEF TotalWorkingMinutes, WorkedTable, Worked, Element, MapThenSumSet, MapThenFoldSet
<1>2. \A s \in SUBSET S : s # {} => e[Element(s)] = Worked(Element(s))
  BY Smaller
<1>3. \A g : IsTable(e, S, g) <=> WorkedTable(S, g)
  <2>. HIDE DEF S, e
  <2>. QED  BY <1>2 DEF IsTable, WorkedTable, Sum
<1>. HIDE DEF S, e
<1>4. \E g : IsTable(e, S, g)
  BY TableExists DEF S
<1>5. PICK g : WorkedTable(S, g) /\ TotalWorkingMinutes(E, D) = g[S]
  BY <1>1, <1>3, <1>4
<1>. QED  BY <1>3, <1>5 DEF S, e

(* A shift that began within working hours earns no more than it lasted, if *)
(* the clocks were not put forward during it.                               *)
LEMMA OvertimeBounded ==
  ASSUME AttendanceInv, NEW r \in Existing \ edited, BegunInHours(r), ClocksKept(r)
  PROVE  Overtime(r) \in Int /\ Worked(r) \in Int /\ Overtime(r) <= Worked(r)
<1>1. /\ row[r].date \in Nat /\ row[r].checkIn \in Instant
      /\ row[r].checkOut \in Maybe(Instant) /\ row[r].minutes \in Maybe(Nat)
  BY RowFacts, AttendanceAssumption DEF AttendanceInv, BegunInHours, Maybe
<1>2. settings \in Setting /\ settings.end \in Nat /\ MinutesPerDay \in Nat
  BY AttendanceAssumption DEF AttendanceInv, TypeOK, SettingsRow
<1>3. PICK close \in Int : close = row[r].date * MinutesPerDay + settings.end
  BY <1>1, <1>2
<1>4. Worked(r) \in Nat
  BY <1>1 DEF Worked, Maybe
<1>5. CASE row[r].checkOut = None
  BY <1>4, <1>5 DEF Overtime, OvertimeMinutes
<1>6. CASE row[r].checkOut # None
  <2>1. /\ row[r].checkOut \in Instant /\ row[r].checkIn # None
        /\ row[r].checkOut \in Nat /\ row[r].checkIn \in Nat
    BY <1>1, <1>6, InstantFacts DEF Maybe
  <2>2. Worked(r) = row[r].checkOut - row[r].checkIn
    BY <1>6 DEF Worked, AttendanceInv, MinutesMatch, MinutesOf
  <2>. DEFINE ahead == Offset[settings.timezone][row[r].checkIn]
              later == Offset[settings.timezone][row[r].checkOut]
  <2>3. later <= ahead
    BY <1>6, <2>1 DEF ClocksKept
  <2>4. /\ ahead \in Int /\ Wall(row[r].checkIn, settings) = row[r].checkIn + ahead
        /\ later \in Int /\ Wall(row[r].checkOut, settings) = row[r].checkOut + later
    BY <1>1, <1>2, <2>1, WallFacts
  <2>. HIDE DEF ahead, later
  <2>5. row[r].checkIn + ahead <= close
    BY <1>3, <2>4 DEF BegunInHours
  <2>6. Overtime(r) = 0 \/ Overtime(r) = row[r].checkOut + later - close
    <3>1. \/ Overtime(r) = 0
          \/ Overtime(r) = Wall(row[r].checkOut, settings)
                             - (row[r].date * MinutesPerDay + settings.end)
      BY Zenon DEF Overtime, OvertimeMinutes
    <3>2. row[r].date * MinutesPerDay + settings.end = close
      BY <1>3
    <3>3. Overtime(r) = 0 \/ Overtime(r) = Wall(row[r].checkOut, settings) - close
      BY <3>1, <3>2, Zenon
    <3>4. Wall(row[r].checkOut, settings) - close = row[r].checkOut + later - close
      BY <2>1, <2>4
    <3>. QED  BY <3>3, <3>4, Zenon
  <2>. QED  BY <1>4, <2>1, <2>2, <2>3, <2>4, <2>5, <2>6
<1>. QED  BY <1>5, <1>6

LEMMA OvertimeAtMost ==
  ASSUME AttendanceInv, NEW E \in SUBSET Employee, NEW D \in SUBSET Date,
         RowsIn(E, D) \cap edited = {},
         \A r \in RowsIn(E, D) : BegunInHours(r) /\ ClocksKept(r)
  PROVE  TotalOvertime(E, D) <= TotalWorkingMinutes(E, D)
<1>. DEFINE S == RowsIn(E, D)
            e == [r \in S |-> Overtime(r)]
            f == [r \in S |-> Worked(r)]
<1>1. IsFiniteSet(S)
  BY RowsArePairs
<1>2. \A r \in S : Overtime(r) \in Int /\ Worked(r) \in Int /\ Overtime(r) <= Worked(r)
  BY OvertimeBounded DEF RowsIn
<1>3. PICK g : IsTable(e, S, g) /\ TotalOvertime(E, D) = g[S]
  BY <1>1, OvertimeTotal
<1>4. PICK h : IsTable(f, S, h) /\ TotalWorkingMinutes(E, D) = h[S]
  BY <1>1, WorkedTotal
<1>5. e \in [S -> Int] /\ f \in [S -> Int] /\ \A r \in S : e[r] <= f[r]
  BY <1>2
<1>. HIDE DEF S, e, f
<1>6. g[S] <= h[S]
  BY <1>1, <1>3, <1>4, <1>5, SumsGrow
<1>. QED  BY <1>3, <1>4, <1>6

-----------------------------------------------------------------------------
LEMMA SummaryHolds == AttendanceInv /\ RowsAttended => SummaryConsistent
<1>. SUFFICES ASSUME AttendanceInv, RowsAttended, NEW E \in SUBSET Employee
              PROVE  /\ \A d \in Date : CountsAgree(E, d)
                     /\ \A days \in Ranges : RangeAddsUp(E, days)
  BY DEF SummaryConsistent
<1>2. \A d \in Date : CountsAgree(E, d)
  BY CountsHold
<1>. SUFFICES ASSUME NEW D \in Ranges
              PROVE  RangeAddsUp(E, D)
  BY <1>2
<1>1. D \in SUBSET Date
  BY DEF Ranges
<1>3. ASSUME RowsIn(E, D) \cap edited = {}
      PROVE  /\ AbsentDays(E, D) + Cardinality(RowsIn(E, D)) <= Cardinality(E) * Cardinality(D)
             /\ StatusCount(E, D, "ABSENT") = 0
  <2>. DEFINE A == {p \in E \X D : Missed(p[1], p[2])}
              P == {<<row[r].employee, row[r].date>> : r \in RowsIn(E, D)}
  <2>1. \A r \in RowsIn(E, D) : row[r].checkIn # None /\ row[r].status # "ABSENT"
    BY <1>3 DEF RowsIn, RowsAttended, Attended
  <2>2. StatusCount(E, D, "ABSENT") = 0
    <3>1. {r \in RowsIn(E, D) : row[r].status = "ABSENT"} = {}
      BY <2>1
    <3>. QED  BY <3>1, FS_EmptySet DEF StatusCount
  <2>3. A \cap P = {}
    BY <2>1 DEF Missed, RowsIn, RowsOf
  <2>4. /\ IsFiniteSet(E \X D) /\ Cardinality(E \X D) = Cardinality(E) * Cardinality(D)
        /\ P \subseteq E \X D /\ Cardinality(P) = Cardinality(RowsIn(E, D))
    BY <1>1, RowsArePairs
  <2>5. AbsentDays(E, D) = Cardinality(A)
    BY DEF AbsentDays, Missed
  <2>6. A \subseteq E \X D
    OBVIOUS
  <2>. HIDE DEF A, P
  <2>7. /\ IsFiniteSet(A) /\ IsFiniteSet(P)
        /\ Cardinality(A \cup P) <= Cardinality(E \X D)
    <3>1. A \cup P \in SUBSET (E \X D)
      BY <2>4, <2>6
    <3>. QED  BY <2>4, <2>6, <3>1, FS_Subset
  <2>8. Cardinality(A \cup P) = Cardinality(A) + Cardinality(P)
    <3>1. Cardinality(A \cup P) = Cardinality(A) + Cardinality(P) - Cardinality(A \cap P)
      BY <2>7, FS_Union
    <3>2. Cardinality(A \cap P) = 0
      BY <2>3, FS_EmptySet
    <3>. QED  BY <2>7, <3>1, <3>2, FS_CardinalityType
  <2>. QED  BY <2>2, <2>4, <2>5, <2>7, <2>8
<1>. QED  BY <1>1, <1>3, AbsencesAgree, OvertimeAtMost DEF RangeAddsUp

(* The summary of a range and the dashboard of each of its dates count the  *)
(* same absences and attendance of the workforce, the summary those of the  *)
(* other employees besides, whatever is called and changed in between       *)
(* (AttendanceService.summarize, DashboardService._workforce_ids).          *)
THEOREM ScreensAgree == Spec => []SummaryConsistent
BY Inductive, Attending, SummaryHolds, PTL
=============================================================================
