------------------------------ MODULE Settings ------------------------------
(***************************************************************************)
(* The settings of one company: the row, the logo object it names, the     *)
(* PATCH that changes them under a row lock and tells the audit log        *)
(* (apps/companies/services.py), and the save of the same row in the       *)
(* Django admin, which takes no lock, tells nobody and deletes nothing     *)
(* from the store (apps/companies/admin.py).                               *)
(*                                                                         *)
(* The columns are the company's name, the work hours and the logo; the    *)
(* time zone, the minutes and the working days are checked one by one when *)
(* a request is read and have no part in the properties.                   *)
(***************************************************************************)
EXTENDS Integers, FiniteSets

CONSTANTS
  Worker,     \* server processes
  Name,       \* company names
  Hours,      \* times of day
  Request,    \* the PATCH requests that clients send
  MaxLogos,   \* bound: logo objects
  MaxSaves,   \* bound: forms an operator opens in the admin site
  MaxFaults,  \* bound: crashes and failed calls of the store
  Keep,       \* a column that a request does not name
  None        \* no form, no call

NoLogo == 0
NewLogo == -1
Columns == {"name", "start", "end", "logo"}
Row == [name : Name, start : Hours, end : Hours, logo : 0..MaxLogos]
Patch == [name : Name \cup {Keep}, start : Hours \cup {Keep}, end : Hours \cup {Keep},
          logo : {NoLogo, NewLogo, Keep}]

ASSUME SettingsAssumption ==
  /\ Hours \subseteq Int /\ Keep \notin Name \cup Hours
  /\ Request \subseteq Patch
  /\ MaxLogos \in Nat /\ MaxSaves \in Nat /\ MaxFaults \in Nat

Call == [patch : Request, name : Name]
Form == [stage : {"open", "submitted"}, row : Row]

ASSUME NoneAssumption == None \notin Row \cup Call \cup Form

VARIABLES
  row,          \* the committed settings and the company's name
  store,        \* the logo objects in the store
  issued,       \* names given to logo objects
  told,         \* history variable: per column, the value the audit log tells
  byOperator,   \* history variable: columns the admin site was last to change
  torn,         \* history variable: a PATCH that failed or was killed left the
                \* row's logo deleted
  pc, call,     \* per worker: where its handler is; the request being served
  copy, before, \* per worker: the row it changes, and as it was when locked
  form,         \* the operator's form in the admin site
  saves, faults \* forms opened; crashes and failed calls

workerVars == <<pc, call, copy, before>>
operatorVars == <<form, saves, byOperator>>
vars == <<row, store, issued, told, torn, workerVars, operatorVars, faults>>

Steps == {"idle", "lock", "save", "erase", "commit"}
Locking == {"save", "erase", "commit"}

Uploads(w) == call[w].patch.logo = NewLogo

TypeOK ==
  /\ row \in Row /\ told \in Row
  /\ issued \in 0..MaxLogos /\ store \subseteq 1..MaxLogos
  /\ byOperator \subseteq Columns /\ torn \in BOOLEAN
  /\ pc \in [Worker -> Steps]
  /\ call \in [Worker -> Call \cup {None}]
  /\ copy \in [Worker -> Row \cup {None}] /\ before \in [Worker -> Row \cup {None}]
  /\ form \in Form \cup {None}
  /\ saves \in 0..MaxSaves /\ faults \in 0..MaxFaults
  /\ \A w \in Worker : /\ pc[w] = "idle" <=> call[w] = None
                       /\ pc[w] \in Locking <=> copy[w] # None
                       /\ pc[w] = "save" /\ Uploads(w) => copy[w].logo # NoLogo
                       /\ pc[w] \in Locking => \A v \in Worker \ {w} : pc[v] \notin Locking

-----------------------------------------------------------------------------
(* What a save of the row checks: the hours, and the size of the logo,     *)
(* which asks the store for the object unless it is yet to be written.     *)
Readable(logo) == logo \in {NoLogo} \cup store

Clean(r, logo) == r.start < r.end /\ (logo = NewLogo \/ Readable(r.logo))

(* What the request's serializer checks: only hours given together.         *)
PatchValid(p) == Keep \notin {p.start, p.end} => p.start < p.end

Chosen(new, old) == IF new = Keep THEN old ELSE new

(* A new logo gets a name that no other object has.                        *)
ChosenLogo(new, old) == IF new = NewLogo THEN issued + 1 ELSE Chosen(new, old)

Named(logo) == issued' = IF logo = NewLogo THEN issued + 1 ELSE issued

(* The row with the request's columns; the name is left alone when it is   *)
(* the one the company had when the request was read.                      *)
Patched(r, c) ==
  [name  |-> IF c.patch.name = c.name THEN r.name ELSE Chosen(c.patch.name, r.name),
   start |-> Chosen(c.patch.start, r.start),
   end   |-> Chosen(c.patch.end, r.end),
   logo  |-> ChosenLogo(c.patch.logo, r.logo)]

(* Variant with a bug: the previous logo is deleted whatever the new one.   *)
SupersededAlways(old, new) == {old.logo} \ {NoLogo}

(* The object that a PATCH deletes after the row was saved.                 *)
Superseded(old, new) == IF old.logo # new.logo THEN {old.logo} \ {NoLogo} ELSE {}

(* Variant with a bug: the snapshot of the settings forgets the name.       *)
ChangedFieldsOfRow(old, new) == {c \in Columns \ {"name"} : old[c] # new[c]}

ChangedFields(old, new) == {c \in Columns : old[c] # new[c]}

(* Variant with a bug: the row is read without FOR UPDATE.                  *)
UnlockedUnchecked == TRUE

Unlocked == \A w \in Worker : pc[w] \notin Locking

Release(w) ==
  /\ pc' = [pc EXCEPT ![w] = "idle"]
  /\ call' = [call EXCEPT ![w] = None]
  /\ copy' = [copy EXCEPT ![w] = None]
  /\ before' = [before EXCEPT ![w] = None]

-----------------------------------------------------------------------------
(* PATCH settings: the view reads the company and validates the request,   *)
(* before any lock.                                                        *)
ReadRequest(w, p) ==
  /\ pc[w] = "idle" /\ PatchValid(p)
  /\ p.logo = NewLogo => issued < MaxLogos
  /\ pc' = [pc EXCEPT ![w] = "lock"]
  /\ call' = [call EXCEPT ![w] = [patch |-> p, name |-> row.name]]
  /\ UNCHANGED <<row, store, issued, told, torn, copy, before, operatorVars, faults>>

(* Locks the row and the company, applies the request and checks the       *)
(* result; a refusal rolls back.                                           *)
LockRow(w) ==
  /\ pc[w] = "lock" /\ Unlocked
  /\ Uploads(w) => issued < MaxLogos
  /\ LET changed == Patched(row, call[w])
     IN IF Clean(changed, call[w].patch.logo)
        THEN /\ copy' = [copy EXCEPT ![w] = changed]
             /\ before' = [before EXCEPT ![w] = row]
             /\ pc' = [pc EXCEPT ![w] = "save"]
             /\ Named(call[w].patch.logo)
             /\ UNCHANGED call
        ELSE Release(w) /\ UNCHANGED issued
  /\ UNCHANGED <<row, store, told, torn, operatorVars, faults>>

(* The UPDATE, which writes a new logo to the store first.                  *)
SaveRow(w) ==
  /\ pc[w] = "save"
  /\ store' = IF Uploads(w) THEN store \cup {copy[w].logo} ELSE store
  /\ pc' = [pc EXCEPT ![w] = "erase"]
  /\ UNCHANGED <<row, issued, told, torn, call, copy, before, operatorVars, faults>>

(* Deletes the previous logo while the transaction is still open.           *)
EraseLogo(w) ==
  /\ pc[w] = "erase"
  /\ store' = store \ Superseded(before[w], copy[w])
  /\ pc' = [pc EXCEPT ![w] = "commit"]
  /\ UNCHANGED <<row, issued, told, torn, call, copy, before, operatorVars, faults>>

(* The audit entry with the changed fields, and the commit.                 *)
Commit(w) ==
  /\ pc[w] = "commit"
  /\ row' = copy[w]
  /\ LET changed == ChangedFields(before[w], copy[w])
     IN /\ told' = [c \in Columns |-> IF c \in changed THEN copy[w][c] ELSE told[c]]
        /\ byOperator' = byOperator \ changed
        /\ torn' = (torn /\ "logo" \notin changed)
  /\ Release(w)
  /\ UNCHANGED <<store, issued, form, saves, faults>>

(* The upload or the deletion fails, with or without having taken effect:  *)
(* the exception rolls the transaction back, but not the store.            *)
StoreFails(w) ==
  /\ faults < MaxFaults /\ faults' = faults + 1
  /\ \/ /\ pc[w] = "save" /\ Uploads(w)
        /\ store' \in {store, store \cup {copy[w].logo}}
        /\ UNCHANGED torn
     \/ /\ pc[w] = "erase" /\ Superseded(before[w], copy[w]) # {}
        /\ \/ UNCHANGED <<store, torn>>
           \/ store' = store \ Superseded(before[w], copy[w]) /\ torn' = TRUE
  /\ Release(w)
  /\ UNCHANGED <<row, issued, told, operatorVars>>

(* The process is killed; the database rolls back, the store does not.      *)
Crash(w) ==
  /\ faults < MaxFaults /\ faults' = faults + 1
  /\ pc[w] \in Locking
  /\ torn' = (torn \/ (pc[w] = "commit" /\ Superseded(before[w], copy[w]) # {}))
  /\ Release(w)
  /\ UNCHANGED <<row, store, issued, told, operatorVars>>

-----------------------------------------------------------------------------
(* The admin site. The page shows the hours of the row; submitting it      *)
(* reads the row again, puts the shown hours into it, checks it and writes *)
(* a new logo to the store.                                                *)
OpenForm ==
  /\ form = None /\ saves < MaxSaves
  /\ form' = [stage |-> "open", row |-> row]
  /\ saves' = saves + 1
  /\ UNCHANGED <<row, store, issued, told, torn, workerVars, byOperator, faults>>

SubmitForm(start, end, logo) ==
  /\ form # None /\ form.stage = "open"
  /\ logo = NewLogo => issued < MaxLogos
  /\ LET changed == [row EXCEPT !.start = Chosen(start, form.row.start),
                                !.end = Chosen(end, form.row.end),
                                !.logo = ChosenLogo(logo, row.logo)]
     IN IF Clean(changed, logo)
        THEN /\ form' = [stage |-> "submitted", row |-> changed]
             /\ Named(logo)
             /\ store' = IF logo = NewLogo THEN store \cup {changed.logo} ELSE store
        ELSE form' = None /\ UNCHANGED <<issued, store>>
  /\ UNCHANGED <<row, told, torn, workerVars, saves, byOperator, faults>>

(* Every column of the settings is written, unchecked since the form was   *)
(* submitted, once no PATCH holds the row.                                  *)
SaveForm ==
  /\ form # None /\ form.stage = "submitted" /\ Unlocked
  /\ form' = None
  /\ row' = [form.row EXCEPT !.name = row.name]
  /\ byOperator' = byOperator \cup ChangedFields(row, row')
  /\ torn' = (torn /\ row'.logo = row.logo)
  /\ UNCHANGED <<store, issued, told, workerVars, saves, faults>>

-----------------------------------------------------------------------------
Init ==
  /\ row \in {r \in Row : r.start < r.end /\ r.logo = NoLogo}
  /\ store = {} /\ issued = 0
  /\ told = row
  /\ byOperator = {} /\ torn = FALSE
  /\ pc = [w \in Worker |-> "idle"]
  /\ call = [w \in Worker |-> None]
  /\ copy = [w \in Worker |-> None] /\ before = copy
  /\ form = None
  /\ saves = 0 /\ faults = 0

Next ==
  \/ \E w \in Worker : \/ \E p \in Request : ReadRequest(w, p)
                       \/ LockRow(w) \/ SaveRow(w) \/ EraseLogo(w) \/ Commit(w)
                       \/ StoreFails(w) \/ Crash(w)
  \/ OpenForm
  \/ \E start, end \in Hours \cup {Keep}, 
       logo \in {NoLogo, NewLogo, Keep} : SubmitForm(start, end, logo)
  \/ SaveForm

Spec == Init /\ [][Next]_vars

-----------------------------------------------------------------------------
(* The stored row passes the check of its own save, so that a later PATCH  *)
(* of another column is not refused for what it left alone: the hours are  *)
(* in order, whatever requests named one of them each, and the logo's      *)
(* object is in the store. The exceptions are a PATCH that has deleted the *)
(* logo and is about to commit, one that was killed at that point or whose *)
(* deletion reported a failure after its effect (services.py:146), and a   *)
(* logo that the admin site wrote.                                         *)
Saveable ==
  /\ row.start < row.end
  /\ \/ row.logo \in {NoLogo} \cup store
     \/ torn \/ "logo" \in byOperator
     \/ \E w \in Worker : pc[w] = "commit" /\ copy[w].logo # row.logo

(* The audit log tells the current value of every column that the admin    *)
(* site was not the last to change: no PATCH undoes another's unseen.      *)
SettingsAudited == \A c \in Columns \ byOperator : row[c] = told[c]

=============================================================================
