----------------------------- MODULE Attendance -----------------------------
(***************************************************************************)
(* Check-in, check-out and holidays of one company (backend/apps/          *)
(* attendance), with the company settings they read.                       *)
(*                                                                         *)
(* A Worker serves one call at a time. It reads the settings and the clock *)
(* before it opens its transaction; a check-in has its status by then, and *)
(* a check-out works it out under the row's lock. An instant is a number   *)
(* of minutes of the server's clock, a date a number of local days; what   *)
(* the clocks of a zone show may go back or forward, so that a date can    *)
(* last longer or shorter than a day. An Operator edits a row in the       *)
(* Django admin: the form shows one reading of the row, the submitted      *)
(* request loads the row again without a lock, and the save writes every   *)
(* column back.                                                            *)
(***************************************************************************)
EXTENDS Integers, FiniteSets, FiniteSetsExt

CONSTANTS
  Employee,       \* employees of the company, each linked to a user account
  Row,            \* bound: ids available for Attendance rows
  Worker,         \* server processes
  Operator,       \* bound: concurrent requests of platform operators
  MinutesPerDay,  \* length of a day on a clock that is not put back or forward
  LastInstant,    \* bound: the clock stops here
  Zone,           \* the zones companies can choose
  Offset,         \* what each zone's clocks are ahead by, at each instant
  Date,           \* the local dates that instants up to LastInstant fall on
  Setting,        \* bound: the settings administrators save
  FirstSetting,   \* the settings at the start
  FirstHoliday,   \* the holidays at the start
  MaxChanges,     \* bound: changes of settings, holidays, leave, employment;
                  \*        admin forms
  None            \* absent row, null column, empty local variable

VARIABLES
  clock,    \* the server's clock
  settings, \* the CompanySettings row
  holiday,  \* Holiday rows, unique per date
  leave,    \* the dates approved leave covers (LeaveRequest rows, see Leave)
  workforce, \* employees whose status is ACTIVE or ON_LEAVE
  row,      \* Attendance rows
  job,      \* per worker: the call being served
  form,     \* per operator: the admin form or the submitted request
  changes,  \* how often any of these changed, or a form was opened
  steady,   \* history variable: calls begun since the last such change
  upToDate, \* history variable: rows written from the present facts
  edited    \* history variable: rows the admin site has saved

factVars  == <<settings, holiday, leave>>
adminVars == <<form, edited>>
vars == <<clock, factVars, workforce, changes, row, job, adminVars, steady, upToDate>>

-----------------------------------------------------------------------------
(* Rows and their types.                                                   *)

Instant == 0..LastInstant
Maybe(S) == S \cup {None}

AttendanceStatus ==
  {"PRESENT", "ABSENT", "LATE", "HALF_DAY", "LEAVE", "HOLIDAY", "WEEKEND"}
SettingsRow ==
  [timezone : Zone, start : Nat, end : Nat, grace : Nat, minimum : Nat,
   overtime : BOOLEAN, workingDays : SUBSET (0..6)]
AttendanceRow ==
  [employee : Employee, date : Date, checkIn : Maybe(Instant),
   checkOut : Maybe(Instant), minutes : Maybe(Nat), status : AttendanceStatus]
HolidayState == {"none", "active", "inactive"}

Job ==
  [op : {"check_in", "check_out"}, at : {"context", "status", "insert"},
   employee : Employee, settings : SettingsRow, instant : Instant,
   date : Date, status : Maybe(AttendanceStatus)]
Form ==
  [row : Row, checkIn : Maybe(Instant), checkOut : Maybe(Instant),
   loaded : Maybe(AttendanceRow)]

(* CompanySettings.clean                                                   *)
SettingsClean(s) ==
  /\ s.start < s.end
  /\ s.minimum >= 1
  /\ s.workingDays # {}

(* What the company's clocks show, counted from midnight of date 0, and    *)
(* the date they show (CompanyClock.local_date). Two readings in one zone  *)
(* are compared and subtracted as shown, whatever happened to the clocks   *)
(* in between.                                                             *)
Wall(instant, s) == instant + Offset[s.timezone][instant]
LocalDate(instant, s) == Wall(instant, s) \div MinutesPerDay

ASSUME AttendanceAssumption ==
  /\ MinutesPerDay \in Nat \ {0} /\ LastInstant \in Nat
  /\ Offset \in [Zone -> [Instant -> Int]]
  /\ Date \subseteq Nat /\ IsFiniteSet(Date) /\ IsFiniteSet(Employee)
  /\ Setting \subseteq SettingsRow /\ FirstSetting \in Setting
  /\ \A s \in Setting : SettingsClean(s)
  /\ \A s \in Setting, i \in Instant : LocalDate(i, s) \in Date
  /\ MaxChanges \in Nat /\ FirstHoliday \in [Date -> HolidayState]

ASSUME NullAssumption ==
  None \notin Int \cup AttendanceStatus \cup AttendanceRow \cup Job \cup Form

TypeOK ==
  /\ clock \in Instant
  /\ settings \in Setting
  /\ holiday \in [Date -> HolidayState]
  /\ leave \subseteq Employee \X Date
  /\ workforce \subseteq Employee
  /\ row \in [Row -> Maybe(AttendanceRow)]
  /\ job \in [Worker -> Maybe(Job)]
  /\ form \in [Operator -> Maybe(Form)]
  /\ changes \in 0..MaxChanges
  /\ steady \subseteq Worker
  /\ upToDate \subseteq Row
  /\ edited \subseteq Row

-----------------------------------------------------------------------------
(* Status, minutes and overtime.                                           *)

IsWorkingDay(date, s) == date % 7 \in s.workingDays
HolidayOn(date) == holiday[date] = "active"
LeaveCoversDate(e, date) == <<e, date>> \in leave

(* AttendanceStatusService._is_late                                        *)
IsLate(s, date, checkIn) ==
  Wall(checkIn, s) > date * MinutesPerDay + s.start + s.grace

(* AttendanceStatusService.calculate                                       *)
Calculate(date, s, isHoliday, isLeave, checkIn, checkOut, minutes) ==
  IF ~IsWorkingDay(date, s) THEN "WEEKEND"
  ELSE IF isHoliday THEN "HOLIDAY"
  ELSE IF isLeave THEN "LEAVE"
  ELSE IF checkIn = None THEN "ABSENT"
  ELSE IF checkOut # None /\ minutes # None /\ minutes < s.minimum THEN "HALF_DAY"
  ELSE IF IsLate(s, date, checkIn) THEN "LATE" ELSE "PRESENT"

(* Variant with a bug: the operands are swapped.                            *)
WorkingMinutesSwapped(checkIn, checkOut) == checkIn - checkOut

WorkingMinutes(checkIn, checkOut) ==
  IF checkOut >= checkIn THEN checkOut - checkIn ELSE 0

OvertimeMinutes(s, date, checkOut) ==
  IF ~s.overtime \/ checkOut = None THEN 0
  ELSE LET over == Wall(checkOut, s) - (date * MinutesPerDay + s.end)
       IN  IF over > 0 THEN over ELSE 0

-----------------------------------------------------------------------------
(* Reading the table.                                                      *)

Existing == {r \in Row : row[r] # None}

(* The filter of check_in, check_out and attendance_for_employee_date      *)
RowsOf(e, date) == {r \in Existing : row[r].employee = e /\ row[r].date = date}

(* The status that the present facts give to an employee's date            *)
StatusNow(e, date) ==
  LET found    == RowsOf(e, date)
      r        == row[CHOOSE x \in found : TRUE]
      checkIn  == IF found = {} THEN None ELSE r.checkIn
      checkOut == IF found = {} THEN None ELSE r.checkOut
      minutes  == IF found = {} THEN None ELSE r.minutes
  IN  Calculate(date, settings, HolidayOn(date), LeaveCoversDate(e, date),
                checkIn, checkOut, minutes)

(* AttendanceService.is_absent_on                                          *)
IsAbsentOn(e, date) == StatusNow(e, date) = "ABSENT"

(* The dashboards' counts of a date: DashboardService decides each status  *)
(* anew, does not look at the stored one, and leaves out employees whose   *)
(* own status is neither ACTIVE nor ON_LEAVE.                              *)
TodayCounts(employees, date) ==
  LET count(statuses) ==
        Cardinality({e \in employees \cap workforce : StatusNow(e, date) \in statuses})
  IN  [present |-> count({"PRESENT", "HALF_DAY"}), absent |-> count({"ABSENT"}),
       late |-> count({"LATE"}), onLeave |-> count({"LEAVE"})]

RowsIn(employees, days) ==
  {r \in Existing : row[r].employee \in employees /\ row[r].date \in days}

(* AttendanceService.summarize: the counts come from the stored statuses,  *)
(* the absences from the calendar.                                         *)
StatusCount(employees, days, status) ==
  Cardinality({r \in RowsIn(employees, days) : row[r].status = status})

(* Variant with a bug: approved leave counts as absence.                   *)
AbsentDaysOnLeave(employees, days) ==
  Cardinality({p \in employees \X days :
     /\ IsWorkingDay(p[2], settings) /\ ~HolidayOn(p[2])
     /\ \A r \in RowsOf(p[1], p[2]) : row[r].checkIn = None})

AbsentDays(employees, days) ==
  Cardinality({p \in employees \X days :
     /\ IsWorkingDay(p[2], settings) /\ ~HolidayOn(p[2])
     /\ ~LeaveCoversDate(p[1], p[2])
     /\ \A r \in RowsOf(p[1], p[2]) : row[r].checkIn = None})

TotalWorkingMinutes(employees, days) ==
  MapThenSumSet(LAMBDA r : IF row[r].minutes = None THEN 0 ELSE row[r].minutes,
                RowsIn(employees, days))
TotalOvertime(employees, days) ==
  MapThenSumSet(LAMBDA r : OvertimeMinutes(settings, row[r].date, row[r].checkOut),
                RowsIn(employees, days))

-----------------------------------------------------------------------------
(* Writing the table. Every save runs Attendance.full_clean and meets the  *)
(* unique and the check constraint.                                        *)

(* Variant with a bug: no unique constraint on (company, employee, date).  *)
UniqueUnchecked(r, new) == TRUE

Unique(r, new) ==
  \A x \in Existing \ {r} :
    ~(row[x].employee = new.employee /\ row[x].date = new.date)

InOrder(new) ==
  new.checkIn # None /\ new.checkOut # None => new.checkOut >= new.checkIn

CanSave(r, new) == Unique(r, new) /\ InOrder(new)

Write(r, new, current) ==
  /\ row' = [row EXCEPT ![r] = new]
  /\ upToDate' = IF current THEN upToDate \cup {r} ELSE upToDate \ {r}

Answer(w) ==
  /\ job' = [job EXCEPT ![w] = None]
  /\ steady' = steady \ {w}

Refuse(w) == Answer(w) /\ UNCHANGED <<row, upToDate>>

-----------------------------------------------------------------------------
(* check_in and check_out.                                                 *)

(* The request's employee, settings and clock are read before any          *)
(* transaction.                                                            *)
Call(w, e, op) ==
  /\ job[w] = None
  /\ job' = [job EXCEPT ![w] =
       [op |-> op, at |-> "context", employee |-> e, settings |-> settings,
        instant |-> clock, date |-> LocalDate(clock, settings), status |-> None]]
  /\ steady' = steady \cup {w}
  /\ UNCHANGED <<clock, factVars, workforce, changes, row, adminVars, upToDate>>

At(w, op, at) == job[w] # None /\ job[w].op = op /\ job[w].at = at

(* The status of a check-in, from the holiday and the leave read now.      *)
DecideStatus(w) ==
  /\ At(w, "check_in", "context")
  /\ LET j == job[w]
     IN  job' = [job EXCEPT
           ![w].at = "status",
           ![w].status = Calculate(j.date, j.settings, HolidayOn(j.date),
               LeaveCoversDate(j.employee, j.date), j.instant, None, None)]
  /\ UNCHANGED <<clock, factVars, workforce, changes, row, adminVars, steady, upToDate>>

(* Variant with a bug: the columns of a second check-in are written.       *)
OpenForCheckInAlways(r) == TRUE

OpenForCheckIn(r) == row[r].checkIn = None

(* SELECT ... FOR UPDATE: a row that is found is updated under its lock,   *)
(* a row that is not found locks nothing.                                  *)
FindRow(w) ==
  /\ At(w, "check_in", "status")
  /\ LET j     == job[w]
         found == RowsOf(j.employee, j.date)
     IN  \/ /\ found = {}
            /\ job' = [job EXCEPT ![w].at = "insert"]
            /\ UNCHANGED <<row, steady, upToDate>>
         \/ \E r \in found :
              LET new == [row[r] EXCEPT !.checkIn = j.instant, !.status = j.status]
              IN  IF OpenForCheckIn(r) /\ CanSave(r, new)
                  THEN Write(r, new, w \in steady /\ row[r].checkOut = None)
                       /\ Answer(w)
                  ELSE Refuse(w)
  /\ UNCHANGED <<clock, factVars, workforce, changes, adminVars>>

InsertRow(w) ==
  /\ At(w, "check_in", "insert")
  /\ LET j   == job[w]
         new == [employee |-> j.employee, date |-> j.date, checkIn |-> j.instant,
                 checkOut |-> None, minutes |-> None, status |-> j.status]
     IN  \E r \in Row \ Existing :
           IF CanSave(r, new)
           THEN Write(r, new, w \in steady) /\ Answer(w)
           ELSE Refuse(w)
  /\ UNCHANGED <<clock, factVars, workforce, changes, adminVars>>

(* Variants with a bug: a row of any date that has no check-out; the       *)
(* status is left as the check-in computed it.                             *)
RowsToCloseOfAnyDate(j) ==
  {r \in Existing : row[r].employee = j.employee /\ row[r].checkOut = None}
CheckedOutKeepingStatus(r, j) ==
  [row[r] EXCEPT !.checkOut = j.instant,
     !.minutes = WorkingMinutes(row[r].checkIn, j.instant)]

RowsToClose(j) == RowsOf(j.employee, j.date)

CheckedOut(r, j) ==
  LET minutes == WorkingMinutes(row[r].checkIn, j.instant)
  IN  [row[r] EXCEPT
         !.checkOut = j.instant,
         !.minutes  = minutes,
         !.status   = Calculate(row[r].date, j.settings, HolidayOn(row[r].date),
                        LeaveCoversDate(j.employee, row[r].date),
                        row[r].checkIn, j.instant, minutes)]

(* Variant with a bug: a second check-out is accepted.                     *)
CanCheckOutAgain(r, j) == row[r].checkIn # None /\ j.instant >= row[r].checkIn

CanCheckOut(r, j) ==
  /\ row[r].checkIn # None
  /\ row[r].checkOut = None
  /\ j.instant >= row[r].checkIn

CloseRow(w) ==
  /\ At(w, "check_out", "context")
  /\ LET j     == job[w]
         found == RowsToClose(j)
     IN  \/ found = {} /\ Refuse(w)
         \/ \E r \in found :
              IF CanCheckOut(r, j) /\ CanSave(r, CheckedOut(r, j))
              THEN Write(r, CheckedOut(r, j), w \in steady) /\ Answer(w)
              ELSE Refuse(w)
  /\ UNCHANGED <<clock, factVars, workforce, changes, adminVars>>

-----------------------------------------------------------------------------
(* The calendar: PATCH of the settings, the holiday API, the leave module. *)

FactsChange ==
  /\ changes < MaxChanges
  /\ changes' = changes + 1
  /\ steady' = {}
  /\ upToDate' = {}
  /\ UNCHANGED <<clock, workforce, row, job, adminVars>>

SaveSettings(s) ==
  /\ s # settings /\ SettingsClean(s)
  /\ settings' = s
  /\ FactsChange
  /\ UNCHANGED <<holiday, leave>>

CreateHoliday(date, state) ==
  /\ holiday[date] = "none"
  /\ holiday' = [holiday EXCEPT ![date] = state]
  /\ FactsChange
  /\ UNCHANGED <<settings, leave>>

(* A new date must not have a holiday of its own.                          *)
UpdateHoliday(from, date, state) ==
  /\ holiday[from] # "none"
  /\ date = from \/ holiday[date] = "none"
  /\ holiday' = [holiday EXCEPT ![from] = "none", ![date] = state]
  /\ holiday' # holiday
  /\ FactsChange
  /\ UNCHANGED <<settings, leave>>

DeleteHoliday(date) ==
  /\ holiday[date] # "none"
  /\ holiday' = [holiday EXCEPT ![date] = "none"]
  /\ FactsChange
  /\ UNCHANGED <<settings, leave>>

(* Leave is approved, or an approved request is cancelled.                 *)
LeaveDecided(e, date) ==
  /\ leave' = IF <<e, date>> \in leave THEN leave \ {<<e, date>>}
              ELSE leave \cup {<<e, date>>}
  /\ FactsChange
  /\ UNCHANGED <<settings, holiday>>

(* An employee's status enters or leaves ACTIVE and ON_LEAVE.              *)
EmploymentChanges(e) ==
  /\ changes < MaxChanges
  /\ changes' = changes + 1
  /\ workforce' = IF e \in workforce THEN workforce \ {e} ELSE workforce \cup {e}
  /\ UNCHANGED <<clock, factVars, row, job, adminVars, steady, upToDate>>

Tick ==
  /\ clock < LastInstant
  /\ clock' = clock + 1
  /\ UNCHANGED <<factVars, workforce, changes, row, job, adminVars, steady, upToDate>>

-----------------------------------------------------------------------------
(* The Django admin: check_in and check_out can be edited, total_minutes   *)
(* and status cannot.                                                      *)

OperatorOpens(o, r) ==
  /\ form[o] = None /\ row[r] # None /\ changes < MaxChanges
  /\ form' = [form EXCEPT ![o] =
       [row |-> r, checkIn |-> row[r].checkIn, checkOut |-> row[r].checkOut,
        loaded |-> None]]
  /\ changes' = changes + 1
  /\ UNCHANGED <<clock, factVars, workforce, row, job, edited, steady, upToDate>>

OperatorSubmits(o, checkIn, checkOut) ==
  /\ form[o] # None /\ form[o].loaded = None
  /\ checkIn \in {form[o].checkIn, None}
  /\ checkOut \in {form[o].checkOut, None, clock}
  /\ form' = [form EXCEPT ![o].checkIn = checkIn, ![o].checkOut = checkOut,
                          ![o].loaded = row[form[o].row]]
  /\ UNCHANGED <<clock, factVars, workforce, changes, row, job, edited, steady, upToDate>>

OperatorSaves(o) ==
  /\ form[o] # None /\ form[o].loaded # None
  /\ LET r   == form[o].row
         new == [form[o].loaded EXCEPT !.checkIn = form[o].checkIn,
                                       !.checkOut = form[o].checkOut]
     IN  IF CanSave(r, new)
         THEN Write(r, new, FALSE) /\ edited' = edited \cup {r}
         ELSE UNCHANGED <<row, upToDate, edited>>
  /\ form' = [form EXCEPT ![o] = None]
  /\ UNCHANGED <<clock, factVars, workforce, changes, job, steady>>

-----------------------------------------------------------------------------
Init ==
  /\ clock = 0
  /\ settings = FirstSetting
  /\ holiday = FirstHoliday
  /\ leave = {}
  /\ workforce = Employee
  /\ row = [r \in Row |-> None]
  /\ job = [w \in Worker |-> None]
  /\ form = [o \in Operator |-> None]
  /\ changes = 0
  /\ steady = {} /\ upToDate = {} /\ edited = {}

Punch(w) ==
  \/ \E e \in Employee, op \in {"check_in", "check_out"} : Call(w, e, op)
  \/ DecideStatus(w)
  \/ FindRow(w)
  \/ InsertRow(w)
  \/ CloseRow(w)

Calendar ==
  \/ \E s \in Setting : SaveSettings(s)
  \/ \E d \in Date, h \in {"active", "inactive"} : CreateHoliday(d, h)
  \/ \E d1, d2 \in Date, h \in {"active", "inactive"} : UpdateHoliday(d1, d2, h)
  \/ \E d \in Date : DeleteHoliday(d)
  \/ \E e \in Employee, d \in Date : LeaveDecided(e, d)

AdminSite(o) ==
  \/ \E r \in Row : OperatorOpens(o, r)
  \/ \E checkIn, checkOut \in Maybe(Instant) : OperatorSubmits(o, checkIn, checkOut)
  \/ OperatorSaves(o)

Next ==
  \/ \E w \in Worker : Punch(w)
  \/ Calendar
  \/ \E e \in Employee : EmploymentChanges(e)
  \/ Tick
  \/ \E o \in Operator : AdminSite(o)

Spec == Init /\ [][Next]_vars

-----------------------------------------------------------------------------
(* Properties.                                                             *)

(* An employee has one row per company-local date, also when two check-ins *)
(* found no row to lock (AttendanceService.check_in).                      *)
OneRowPerDate ==
  \A r, x \in Existing :
    row[r].employee = row[x].employee /\ row[r].date = row[x].date => r = x

(* A call never rewrites an instant a row already has, and never touches a *)
(* row that is checked out, however its requests were repeated or raced.   *)
Punched(w) == job[w] # None /\ job'[w] = None
InstantsKept ==
  [][\A r \in Existing :
       (\E w \in Worker : Punched(w)) =>
         /\ row'[r] # None
         /\ row[r].checkIn # None => row'[r].checkIn = row[r].checkIn
         /\ row[r].checkIn # None /\ row[r].checkOut # None => row'[r] = row[r]]_vars

(* A stored status is the one the present settings, holidays and leave     *)
(* give, unless one of them changed after the writing call read them.      *)
StatusFollowsFacts ==
  \A r \in upToDate :
    row[r].status = Calculate(row[r].date, settings, HolidayOn(row[r].date),
                      LeaveCoversDate(row[r].employee, row[r].date),
                      row[r].checkIn, row[r].checkOut, row[r].minutes)

(* On a row the admin site never saved, the minutes are those between the  *)
(* two instants, and they are there exactly when both are.                 *)
MinutesOf(r) ==
  /\ row[r].checkOut # None => row[r].checkIn # None
  /\ row[r].minutes # None <=> row[r].checkOut # None
  /\ row[r].checkOut # None => row[r].minutes = row[r].checkOut - row[r].checkIn
MinutesMatch == \A r \in Existing \ edited : MinutesOf(r)

(* A shift does not cross midnight: a check-out closes the row of its own  *)
(* local date, so the minutes stay below a day and what the clocks went    *)
(* back in between, in their zone or because the company changed its zone. *)
WithinOneDay ==
  \A r \in Existing \ edited :
    row[r].checkOut # None =>
      \E s, t \in Setting :
        /\ LocalDate(row[r].checkIn, s) = row[r].date
        /\ LocalDate(row[r].checkOut, t) = row[r].date
        /\ row[r].minutes < MinutesPerDay + Offset[s.timezone][row[r].checkIn]
                                          - Offset[t.timezone][row[r].checkOut]

(* What the calls record of a shift holds together.                        *)
ShiftsRecorded == MinutesMatch /\ WithinOneDay

(* The summary counts absences from the calendar and the rest from stored  *)
(* statuses; the dashboard decides every status anew, for the workforce.   *)
(* On each date the summary's absences are the dashboard's and those of    *)
(* the employees outside the workforce, and of the workforce both count    *)
(* the same attendance while no fact has changed since the rows were       *)
(* written; in a range only calls wrote to, no day is counted twice and no *)
(* row is ABSENT; and shifts that began within working hours do not earn   *)
(* more overtime than they lasted, unless the clocks were put forward      *)
(* meanwhile: overtime is the difference of two readings of the clock.     *)
Ranges == {{d \in Date : a <= d /\ d <= b} : a, b \in Date}
BegunInHours(r) ==
  /\ row[r].checkIn # None
  /\ Wall(row[r].checkIn, settings) <= row[r].date * MinutesPerDay + settings.end
ClocksKept(r) ==
  row[r].checkIn # None /\ row[r].checkOut # None =>
    Offset[settings.timezone][row[r].checkOut] <= Offset[settings.timezone][row[r].checkIn]
CountsAgree(employees, date) ==
  LET working   == employees \cap workforce
      today     == TodayCounts(employees, date)
      stored(s) == StatusCount(working, {date}, s)
  IN  /\ AbsentDays(employees, {date})
           = today.absent + AbsentDays(employees \ workforce, {date})
      /\ RowsIn(working, {date}) \subseteq upToDate =>
           /\ today.present = stored("PRESENT") + stored("HALF_DAY")
           /\ today.late = stored("LATE")
           /\ today.onLeave >= stored("LEAVE")
RangeAddsUp(employees, days) ==
  /\ AbsentDays(employees, days) =
       Cardinality({p \in employees \X days : IsAbsentOn(p[1], p[2])})
  /\ RowsIn(employees, days) \cap edited = {} =>
       /\ AbsentDays(employees, days) + Cardinality(RowsIn(employees, days))
            <= Cardinality(employees) * Cardinality(days)
       /\ StatusCount(employees, days, "ABSENT") = 0
       /\ (\A r \in RowsIn(employees, days) : BegunInHours(r) /\ ClocksKept(r)) =>
            TotalOvertime(employees, days) <= TotalWorkingMinutes(employees, days)
SummaryConsistent ==
  \A employees \in SUBSET Employee :
    /\ \A d \in Date : CountsAgree(employees, d)
    /\ \A days \in Ranges : RangeAddsUp(employees, days)

(* What docs/attendance-management.md says of the summary: its overtime is *)
(* always 0 (AttendanceService.summarize adds up the rows' overtime).      *)
OvertimeIsZero ==
  \A employees \in SUBSET Employee, days \in Ranges : TotalOvertime(employees, days) = 0
=============================================================================
