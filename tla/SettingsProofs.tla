--------------------------- MODULE SettingsProofs ---------------------------
(***************************************************************************)
(* Theorems about Settings, for any set of workers, requests, names and    *)
(* times of day, and any number of logos, forms and faults.                *)
(***************************************************************************)
EXTENDS Settings, TLAPS

(* What a worker that holds the row has read is the row until it commits.   *)
ReadsCurrent == \A w \in Worker : pc[w] \in Locking => before[w] = row

(* The row a worker or the operator is about to save has its hours in order.*)
HoursInOrder ==
  /\ \A w \in Worker : pc[w] \in Locking => copy[w].start < copy[w].end
  /\ form # None /\ form.stage = "submitted" => form.row.start < form.row.end

(* The logo a worker is about to save is in the store or will be uploaded.  *)
LogoReady ==
  \A w \in Worker :
    /\ pc[w] = "save" => copy[w].logo \in {NoLogo} \cup store \/ Uploads(w)
    /\ pc[w] \in {"erase", "commit"} => copy[w].logo \in {NoLogo} \cup store

SettingsInv ==
  TypeOK /\ ReadsCurrent /\ HoursInOrder /\ LogoReady /\ Saveable /\ SettingsAudited

-----------------------------------------------------------------------------
(* The columns of a row.                                                    *)

LEMMA RowColumns ==
  ASSUME NEW r \in Row
  PROVE  /\ r.name \in Name /\ r.start \in Hours /\ r.end \in Hours
         /\ r.start \in Int /\ r.end \in Int /\ r.logo \in Int
         /\ r.logo \in 0..MaxLogos
         /\ r["name"] = r.name /\ r["start"] = r.start /\ r["end"] = r.end /\ r["logo"] = r.logo
BY SettingsAssumption DEF Row

(* A row is put together from its columns.                                  *)
LEMMA RowFromColumns ==
  ASSUME NEW r \in Row, NEW s \in Row, NEW changed \in SUBSET Columns
  PROVE  [c \in Columns |-> IF c \in changed THEN r[c] ELSE s[c]] \in Row
BY DEF Row, Columns

(* A request's columns are put into the row, with a fresh logo if it has    *)
(* one.                                                                     *)
LEMMA PatchedRow ==
  ASSUME TypeOK, NEW c \in Call, c.patch.logo = NewLogo => issued < MaxLogos
  PROVE  Patched(row, c) \in Row
<1>1. /\ c.patch \in Patch /\ c.patch.name \in Name \cup {Keep}
      /\ c.patch.start \in Hours \cup {Keep} /\ c.patch.end \in Hours \cup {Keep}
      /\ c.patch.logo \in {NoLogo, NewLogo, Keep}
  BY SettingsAssumption DEF Call, Patch
<1>2. /\ row.name \in Name /\ row.start \in Hours /\ row.end \in Hours
      /\ row.logo \in 0..MaxLogos
  BY DEF TypeOK, Row
<1>3. issued \in Nat /\ MaxLogos \in Nat /\ issued + 1 > 0
  BY SettingsAssumption DEF TypeOK
<1>4. ChosenLogo(c.patch.logo, row.logo) \in 0..MaxLogos
  BY <1>1, <1>2, <1>3 DEF ChosenLogo, Chosen, NoLogo
<1>5. /\ Chosen(c.patch.start, row.start) \in Hours
      /\ Chosen(c.patch.end, row.end) \in Hours
      /\ (IF c.patch.name = c.name THEN row.name ELSE Chosen(c.patch.name, row.name)) \in Name
  BY <1>1, <1>2 DEF Chosen
<1>. QED  BY <1>4, <1>5 DEF Patched, Row

(* The names of logos stay within their bound, and a new one is among them. *)
LEMMA NamedLogo ==
  ASSUME TypeOK, NEW logo, logo = NewLogo => issued < MaxLogos, Named(logo)
  PROVE  /\ issued' \in 0..MaxLogos
         /\ logo = NewLogo => \A old : ChosenLogo(logo, old) \in 1..MaxLogos
BY SettingsAssumption DEF TypeOK, Named, ChosenLogo

(* Handing the row back leaves no worker with a row of its own it does not  *)
(* hold.                                                                    *)
LEMMA ReleaseType ==
  ASSUME TypeOK, NEW w \in Worker, Release(w)
  PROVE  /\ pc' \in [Worker -> Steps]
         /\ call' \in [Worker -> Call \cup {None}]
         /\ copy' \in [Worker -> Row \cup {None}] /\ before' \in [Worker -> Row \cup {None}]
         /\ \A u \in Worker :
              /\ pc'[u] = "idle" <=> call'[u] = None
              /\ pc'[u] \in Locking <=> copy'[u] # None
              /\ pc'[u] = "save" /\ Uploads(u)' => copy'[u].logo # NoLogo
              /\ pc'[u] \in Locking => \A v \in Worker \ {u} : pc'[v] \notin Locking
         /\ pc'[w] \notin Locking
         /\ \A u \in Worker \ {w} : pc'[u] = pc[u] /\ call'[u] = call[u]
                                      /\ copy'[u] = copy[u] /\ before'[u] = before[u]
BY DEF Release, TypeOK, Steps, Locking, Uploads

-----------------------------------------------------------------------------
(* Type correctness.                                                        *)

(* What a worker uploads is a new logo.                                     *)
LEMMA UploadedTyped ==
  ASSUME TypeOK, NEW w \in Worker, pc[w] = "save", Uploads(w)
  PROVE  copy[w].logo \in 1..MaxLogos
<1>1. copy[w] \in Row /\ copy[w].logo # NoLogo
  BY DEF TypeOK, Locking
<1>. QED  BY <1>1, SettingsAssumption DEF Row, NoLogo

LEMMA TypeStep == TypeOK /\ [Next]_vars => TypeOK'
<1>. SUFFICES ASSUME TypeOK, [Next]_vars PROVE TypeOK'
  OBVIOUS
<1>. USE DEF Steps, Locking, Uploads
<1>1. ASSUME NEW w \in Worker, NEW p \in Request, ReadRequest(w, p) PROVE TypeOK'
  <2>1. [patch |-> p, name |-> row.name] \in Call
    BY DEF TypeOK, Row, Call
  <2>2. [patch |-> p, name |-> row.name] # None
    BY <2>1, NoneAssumption
  <2>. QED  BY <1>1, <2>1, <2>2 DEF ReadRequest, TypeOK, operatorVars
<1>2. ASSUME NEW w \in Worker, LockRow(w) PROVE TypeOK'
  <2>. DEFINE changed == Patched(row, call[w])
  <2>1. call[w] \in Call
    BY <1>2 DEF LockRow, TypeOK
  <2>2. changed \in Row
    BY <1>2, <2>1, PatchedRow DEF LockRow, Uploads
  <2>3. row # None /\ changed # None /\ row \in Row
    BY <2>2, NoneAssumption DEF TypeOK
  <2>4. CASE Clean(changed, call[w].patch.logo)
    <3>1. /\ copy' = [copy EXCEPT ![w] = changed]
          /\ before' = [before EXCEPT ![w] = row]
          /\ pc' = [pc EXCEPT ![w] = "save"]
          /\ UNCHANGED call
          /\ issued' \in 0..MaxLogos
          /\ Uploads(w) => changed.logo # NoLogo
      BY <1>2, <2>4, NamedLogo DEF LockRow, Uploads, Patched, NoLogo
    <3>. HIDE DEF changed
    <3>. QED  BY <1>2, <2>1, <2>2, <2>3, <3>1 DEF LockRow, TypeOK, Unlocked, operatorVars
  <2>5. CASE ~Clean(changed, call[w].patch.logo)
    BY <1>2, <2>5, ReleaseType DEF LockRow, TypeOK, operatorVars
  <2>. QED  BY <2>4, <2>5
<1>3. ASSUME NEW w \in Worker, SaveRow(w) PROVE TypeOK'
  BY <1>3, UploadedTyped DEF SaveRow, TypeOK, operatorVars
<1>4. ASSUME NEW w \in Worker, EraseLogo(w) PROVE TypeOK'
  BY <1>4 DEF EraseLogo, TypeOK, operatorVars
<1>5. ASSUME NEW w \in Worker, Commit(w) PROVE TypeOK'
  <2>. DEFINE changed == ChangedFields(before[w], copy[w])
  <2>1. copy[w] \in Row /\ told \in Row /\ changed \in SUBSET Columns
    BY <1>5 DEF Commit, TypeOK, ChangedFields
  <2>2. told' \in Row
    <3>1. told' = [c \in Columns |-> IF c \in changed THEN copy[w][c] ELSE told[c]]
      BY <1>5 DEF Commit
    <3>. HIDE DEF changed
    <3>. QED  BY <2>1, <3>1, RowFromColumns
  <2>3. row' \in Row /\ byOperator' \subseteq Columns /\ torn' \in BOOLEAN
    BY <1>5, <2>1 DEF Commit, TypeOK
  <2>4. Release(w) /\ UNCHANGED <<store, issued, form, saves, faults>>
    BY <1>5 DEF Commit
  <2>. QED  BY <2>2, <2>3, <2>4, ReleaseType DEF TypeOK
<1>6. ASSUME NEW w \in Worker, StoreFails(w) PROVE TypeOK'
  <2>1. store' \subseteq 1..MaxLogos /\ torn' \in BOOLEAN
    BY <1>6, UploadedTyped DEF StoreFails, TypeOK
  <2>. QED
    BY <1>6, <2>1, ReleaseType, SettingsAssumption DEF StoreFails, TypeOK, operatorVars
<1>7. ASSUME NEW w \in Worker, Crash(w) PROVE TypeOK'
  BY <1>7, ReleaseType, SettingsAssumption DEF Crash, TypeOK, operatorVars
<1>8. ASSUME OpenForm PROVE TypeOK'
  <2>1. [stage |-> "open", row |-> row] \in Form
    BY DEF TypeOK, Form
  <2>. QED  BY <1>8, <2>1, SettingsAssumption DEF OpenForm, TypeOK, workerVars
<1>9. ASSUME NEW start \in Hours \cup {Keep}, NEW end \in Hours \cup {Keep},
             NEW logo \in {NoLogo, NewLogo, Keep}, SubmitForm(start, end, logo)
      PROVE  TypeOK'
  <2>. DEFINE changed == [row EXCEPT !.start = Chosen(start, form.row.start),
                                     !.end = Chosen(end, form.row.end),
                                     !.logo = ChosenLogo(logo, row.logo)]
  <2>1. form \in Form /\ form.row \in Row
    BY <1>9 DEF SubmitForm, TypeOK, Form
  <2>2. /\ Chosen(start, form.row.start) \in Hours /\ Chosen(end, form.row.end) \in Hours
        /\ ChosenLogo(logo, row.logo) \in 0..MaxLogos
    BY <1>9, <2>1, SettingsAssumption
       DEF SubmitForm, ChosenLogo, Chosen, Row, TypeOK, NoLogo
  <2>3. changed \in Row /\ changed.logo = ChosenLogo(logo, row.logo)
    BY <2>2 DEF TypeOK, Row
  <2>4. CASE Clean(changed, logo)
    <3>1. /\ form' = [stage |-> "submitted", row |-> changed]
          /\ Named(logo) /\ (logo = NewLogo => issued < MaxLogos)
          /\ store' = IF logo = NewLogo THEN store \cup {changed.logo} ELSE store
      BY <1>9, <2>4 DEF SubmitForm
    <3>2. issued' \in 0..MaxLogos /\ (logo = NewLogo => changed.logo \in 1..MaxLogos)
      BY <2>3, <3>1, NamedLogo
    <3>. HIDE DEF changed
    <3>3. form' \in Form /\ store' \subseteq 1..MaxLogos
      BY <2>3, <3>1, <3>2 DEF Form, TypeOK
    <3>. QED  BY <1>9, <3>2, <3>3 DEF SubmitForm, TypeOK, workerVars
  <2>5. CASE ~Clean(changed, logo)
    <3>1. form' = None /\ UNCHANGED <<issued, store>>
      BY <1>9, <2>5 DEF SubmitForm
    <3>. QED  BY <1>9, <3>1 DEF SubmitForm, TypeOK, workerVars
  <2>. QED  BY <2>4, <2>5
<1>10. ASSUME SaveForm PROVE TypeOK'
  <2>1. form.row \in Row
    BY <1>10 DEF SaveForm, TypeOK, Form
  <2>2. row' \in Row
    BY <1>10, <2>1 DEF SaveForm, TypeOK, Row
  <2>. QED  BY <1>10, <2>2 DEF SaveForm, TypeOK, workerVars, ChangedFields
<1>11. CASE UNCHANGED vars
  BY <1>11 DEF vars, workerVars, operatorVars, TypeOK
<1>. QED
  BY <1>1, <1>2, <1>3, <1>4, <1>5, <1>6, <1>7, <1>8, <1>9, <1>10, <1>11 DEF Next

LEMMA TypeInit == Init => TypeOK
<1>. SUFFICES ASSUME Init PROVE TypeOK
  OBVIOUS
<1>1. row \in Row /\ told \in Row /\ issued = 0 /\ store = {} /\ byOperator = {} /\ torn = FALSE
  BY DEF Init
<1>2. /\ pc = [w \in Worker |-> "idle"] /\ call = [w \in Worker |-> None]
      /\ copy = [w \in Worker |-> None] /\ before = [w \in Worker |-> None]
      /\ form = None /\ saves = 0 /\ faults = 0
  BY DEF Init
<1>3. saves \in 0..MaxSaves /\ faults \in 0..MaxFaults /\ issued \in 0..MaxLogos
  BY <1>1, <1>2, SettingsAssumption
<1>4. /\ pc \in [Worker -> Steps]
      /\ call \in [Worker -> Call \cup {None}]
      /\ copy \in [Worker -> Row \cup {None}] /\ before \in [Worker -> Row \cup {None}]
  BY <1>2 DEF Steps
<1>5. \A w \in Worker : pc[w] = "idle" /\ call[w] = None /\ copy[w] = None
  BY <1>2
<1>. QED  BY <1>1, <1>2, <1>3, <1>4, <1>5 DEF TypeOK, Locking

(* Every variable keeps its type, and at most one worker holds the row.     *)
THEOREM TypeCorrect == Spec => []TypeOK
BY TypeInit, TypeStep, PTL DEF Spec

-----------------------------------------------------------------------------
(* The handler that holds the row holds what is committed, and saves a row  *)
(* with its hours in order.                                                 *)

(* At most one worker holds the row.                                        *)
LEMMA Alone ==
  ASSUME TypeOK, NEW w \in Worker, pc[w] \in Locking, NEW v \in Worker, pc[v] \in Locking
  PROVE  v = w
BY DEF TypeOK

LEMMA ReadsStep == TypeOK /\ ReadsCurrent /\ [Next]_vars => ReadsCurrent'
<1>. SUFFICES ASSUME TypeOK, ReadsCurrent, [Next]_vars,
                     NEW u \in Worker, pc'[u] \in Locking
              PROVE  before'[u] = row'
  BY DEF ReadsCurrent
<1>1. ASSUME NEW w \in Worker, NEW p \in Request, ReadRequest(w, p) PROVE before'[u] = row'
  <2>1. pc[u] \in Locking
    BY <1>1 DEF ReadRequest, TypeOK, Locking
  <2>. QED  BY <1>1, <2>1 DEF ReadRequest, ReadsCurrent
<1>2. ASSUME NEW w \in Worker, LockRow(w) PROVE before'[u] = row'
  <2>1. CASE Clean(Patched(row, call[w]), call[w].patch.logo)
    <3>1. pc' = [pc EXCEPT ![w] = "save"] /\ before' = [before EXCEPT ![w] = row] /\ row' = row
      BY <1>2, <2>1 DEF LockRow
    <3>2. u = w
      BY <1>2, <3>1 DEF LockRow, Unlocked, TypeOK
    <3>. QED  BY <3>1, <3>2 DEF TypeOK
  <2>2. CASE ~Clean(Patched(row, call[w]), call[w].patch.logo)
    BY <1>2, <2>2, ReleaseType DEF LockRow, Unlocked
  <2>. QED  BY <2>1, <2>2
<1>3. ASSUME NEW w \in Worker, SaveRow(w) PROVE before'[u] = row'
  BY <1>3 DEF SaveRow, ReadsCurrent, TypeOK, Locking
<1>4. ASSUME NEW w \in Worker, EraseLogo(w) PROVE before'[u] = row'
  BY <1>4 DEF EraseLogo, ReadsCurrent, TypeOK, Locking
<1>5. ASSUME NEW w \in Worker, Commit(w) PROVE before'[u] = row'
  <2>1. Release(w) /\ pc[w] \in Locking
    BY <1>5 DEF Commit, Locking
  <2>2. u # w /\ pc[u] \in Locking
    BY <2>1, ReleaseType
  <2>. QED  BY <2>1, <2>2, Alone
<1>6. ASSUME NEW w \in Worker, StoreFails(w) \/ Crash(w) PROVE before'[u] = row'
  <2>1. Release(w) /\ row' = row
    BY <1>6 DEF StoreFails, Crash
  <2>. QED  BY <2>1, ReleaseType DEF ReadsCurrent
<1>7. ASSUME SaveForm PROVE before'[u] = row'
  BY <1>7 DEF SaveForm, Unlocked, workerVars
<1>8. ASSUME row' = row, pc' = pc, before' = before PROVE before'[u] = row'
  BY <1>8 DEF ReadsCurrent
<1>. QED
  BY <1>1, <1>2, <1>3, <1>4, <1>5, <1>6, <1>7, <1>8
     DEF Next, vars, workerVars, operatorVars, OpenForm, SubmitForm

LEMMA HoursStep == TypeOK /\ HoursInOrder /\ [Next]_vars => HoursInOrder'
<1>. SUFFICES ASSUME TypeOK, HoursInOrder, [Next]_vars PROVE HoursInOrder'
  OBVIOUS
<1>1. ASSUME NEW w \in Worker, NEW p \in Request, ReadRequest(w, p) PROVE HoursInOrder'
  BY <1>1 DEF ReadRequest, HoursInOrder, TypeOK, Locking, operatorVars
<1>2. ASSUME NEW w \in Worker, LockRow(w) PROVE HoursInOrder'
  <2>. DEFINE changed == Patched(row, call[w])
  <2>1. CASE Clean(changed, call[w].patch.logo)
    <3>1. /\ pc' = [pc EXCEPT ![w] = "save"] /\ copy' = [copy EXCEPT ![w] = changed]
          /\ form' = form
      BY <1>2, <2>1 DEF LockRow, operatorVars
    <3>2. changed.start < changed.end
      BY <2>1 DEF Clean
    <3>. HIDE DEF changed
    <3>. QED  BY <3>1, <3>2 DEF HoursInOrder, TypeOK
  <2>2. CASE ~Clean(changed, call[w].patch.logo)
    BY <1>2, <2>2, ReleaseType DEF LockRow, HoursInOrder, operatorVars
  <2>. QED  BY <2>1, <2>2
<1>3. ASSUME NEW w \in Worker, SaveRow(w) \/ EraseLogo(w) PROVE HoursInOrder'
  BY <1>3 DEF SaveRow, EraseLogo, HoursInOrder, TypeOK, Locking, operatorVars
<1>4. ASSUME NEW w \in Worker, Commit(w) \/ StoreFails(w) \/ Crash(w) PROVE HoursInOrder'
  <2>1. Release(w) /\ form' = form
    BY <1>4 DEF Commit, StoreFails, Crash, operatorVars
  <2>. QED  BY <2>1, ReleaseType DEF HoursInOrder
<1>5. ASSUME OpenForm PROVE HoursInOrder'
  BY <1>5 DEF OpenForm, HoursInOrder, workerVars
<1>6. ASSUME NEW start \in Hours \cup {Keep}, NEW end \in Hours \cup {Keep},
             NEW logo \in {NoLogo, NewLogo, Keep}, SubmitForm(start, end, logo)
      PROVE  HoursInOrder'
  <2>. DEFINE changed == [row EXCEPT !.start = Chosen(start, form.row.start),
                                     !.end = Chosen(end, form.row.end),
                                     !.logo = ChosenLogo(logo, row.logo)]
  <2>1. /\ form' = IF Clean(changed, logo) THEN [stage |-> "submitted", row |-> changed] ELSE None
        /\ pc' = pc /\ copy' = copy
    BY <1>6 DEF SubmitForm, workerVars, ChosenLogo
  <2>2. Clean(changed, logo) => changed.start < changed.end
    BY DEF Clean
  <2>. HIDE DEF changed
  <2>. QED  BY <2>1, <2>2 DEF HoursInOrder
<1>7. ASSUME SaveForm PROVE HoursInOrder'
  BY <1>7 DEF SaveForm, HoursInOrder, workerVars
<1>8. CASE UNCHANGED vars
  BY <1>8 DEF vars, workerVars, operatorVars, HoursInOrder
<1>. QED  BY <1>1, <1>2, <1>3, <1>4, <1>5, <1>6, <1>7, <1>8 DEF Next

-----------------------------------------------------------------------------
(* The logo.                                                                *)

LEMMA LogoStep == TypeOK /\ LogoReady /\ [Next]_vars => LogoReady'
<1>. SUFFICES ASSUME TypeOK, LogoReady, [Next]_vars PROVE LogoReady'
  OBVIOUS
<1>1. ASSUME NEW w \in Worker, NEW p \in Request, ReadRequest(w, p) PROVE LogoReady'
  BY <1>1 DEF ReadRequest, LogoReady, TypeOK, Uploads
<1>2. ASSUME NEW w \in Worker, LockRow(w) PROVE LogoReady'
  <2>. DEFINE changed == Patched(row, call[w])
  <2>1. store' = store
    BY <1>2 DEF LockRow
  <2>2. CASE Clean(changed, call[w].patch.logo)
    <3>1. /\ pc' = [pc EXCEPT ![w] = "save"] /\ copy' = [copy EXCEPT ![w] = changed]
          /\ call' = call
      BY <1>2, <2>2 DEF LockRow
    <3>2. ~Uploads(w) => changed.logo \in {NoLogo} \cup store
      BY <2>2 DEF Clean, Readable, Uploads
    <3>. HIDE DEF changed
    <3>. QED  BY <2>1, <3>1, <3>2 DEF LogoReady, TypeOK, Uploads
  <2>3. CASE ~Clean(changed, call[w].patch.logo)
    <3>1. Release(w)
      BY <1>2, <2>3 DEF LockRow
    <3>. QED  BY <2>1, <3>1, ReleaseType DEF LogoReady, Locking, Uploads
  <2>. QED  BY <2>2, <2>3
<1>3. ASSUME NEW w \in Worker, SaveRow(w) PROVE LogoReady'
  <2>1. copy[w].logo \in {NoLogo} \cup store \/ Uploads(w)
    BY <1>3 DEF SaveRow, LogoReady
  <2>2. copy[w].logo \in {NoLogo} \cup store'
    BY <1>3, <2>1 DEF SaveRow
  <2>3. pc' = [pc EXCEPT ![w] = "erase"] /\ copy' = copy /\ pc[w] \in Locking
    BY <1>3 DEF SaveRow, Locking
  <2>4. \A u \in Worker \ {w} : pc[u] \notin Locking
    BY <2>3, Alone
  <2>. QED  BY <2>2, <2>3, <2>4 DEF LogoReady, TypeOK, Locking
<1>4. ASSUME NEW w \in Worker, EraseLogo(w) PROVE LogoReady'
  <2>1. copy[w].logo \in {NoLogo} \cup store
    BY <1>4 DEF EraseLogo, LogoReady
  <2>2. copy[w].logo \in {NoLogo} \cup store'
    BY <1>4, <2>1 DEF EraseLogo, Superseded
  <2>3. pc' = [pc EXCEPT ![w] = "commit"] /\ copy' = copy /\ pc[w] \in Locking
    BY <1>4 DEF EraseLogo, Locking
  <2>4. \A u \in Worker \ {w} : pc[u] \notin Locking
    BY <2>3, Alone
  <2>. QED  BY <2>2, <2>3, <2>4 DEF LogoReady, TypeOK, Locking
<1>5. ASSUME NEW w \in Worker, Commit(w) \/ StoreFails(w) \/ Crash(w) PROVE LogoReady'
  <2>1. Release(w) /\ pc[w] \in Locking
    BY <1>5 DEF Commit, StoreFails, Crash, Locking
  <2>2. \A u \in Worker : pc'[u] \notin Locking
    BY <2>1, Alone, ReleaseType
  <2>. QED  BY <2>2 DEF LogoReady, Locking
<1>6. CASE UNCHANGED <<pc, call, copy>> /\ store \subseteq store'
  BY <1>6 DEF LogoReady, Uploads
<1>. QED
  BY <1>1, <1>2, <1>3, <1>4, <1>5, <1>6
     DEF Next, OpenForm, SubmitForm, SaveForm, vars, workerVars

(* The first step is what all but the commit and the admin save come to.   *)
LEMMA SaveableStep ==
  ASSUME TypeOK, ReadsCurrent, HoursInOrder, LogoReady, Saveable, [Next]_vars
  PROVE  Saveable'
<1>1. ASSUME row' = row, store \subseteq store', torn => torn', byOperator' = byOperator,
             \A w \in Worker :
               pc[w] = "commit" /\ copy[w].logo # row.logo
               => pc'[w] = "commit" /\ copy'[w].logo # row.logo
      PROVE  Saveable'
  BY <1>1 DEF Saveable
<1>2. ASSUME NEW w \in Worker, NEW p \in Request, ReadRequest(w, p) PROVE Saveable'
  BY <1>1, <1>2 DEF ReadRequest, TypeOK, operatorVars
<1>3. ASSUME NEW w \in Worker, LockRow(w) PROVE Saveable'
  <2>1. /\ row' = row /\ store' = store /\ torn' = torn /\ byOperator' = byOperator
        /\ \A u \in Worker : pc[u] # "commit"
    BY <1>3 DEF LockRow, Unlocked, Locking, operatorVars
  <2>. QED  BY <1>1, <2>1
<1>4. ASSUME NEW w \in Worker, SaveRow(w) PROVE Saveable'
  <2>1. /\ row' = row /\ store \subseteq store' /\ torn' = torn /\ byOperator' = byOperator
        /\ pc' = [pc EXCEPT ![w] = "erase"] /\ copy' = copy /\ pc[w] = "save"
    BY <1>4 DEF SaveRow, operatorVars
  <2>. QED  BY <1>1, <2>1 DEF TypeOK
<1>5. ASSUME NEW w \in Worker, EraseLogo(w) PROVE Saveable'
  <2>1. /\ row' = row /\ store' = store \ Superseded(before[w], copy[w])
        /\ torn' = torn /\ byOperator' = byOperator
        /\ pc' = [pc EXCEPT ![w] = "commit"] /\ copy' = copy /\ pc[w] = "erase"
        /\ before[w] = row
    BY <1>5 DEF EraseLogo, operatorVars, ReadsCurrent, Locking
  <2>2. CASE row.logo \in Superseded(before[w], copy[w])
    <3>1. copy'[w].logo # row'.logo /\ pc'[w] = "commit"
      BY <2>1, <2>2 DEF Superseded, TypeOK
    <3>. QED  BY <2>1, <3>1 DEF Saveable
  <2>3. CASE row.logo \notin Superseded(before[w], copy[w])
    <3>1. \A u \in Worker : pc[u] = "commit" => pc'[u] = "commit"
      BY <2>1 DEF TypeOK
    <3>. QED  BY <2>1, <2>3, <3>1 DEF Saveable
  <2>. QED  BY <2>2, <2>3
<1>6. ASSUME NEW w \in Worker, Commit(w) PROVE Saveable'
  <2>1. row' = copy[w] /\ store' = store /\ pc[w] = "commit"
    BY <1>6 DEF Commit
  <2>2. copy[w].start < copy[w].end /\ copy[w].logo \in {NoLogo} \cup store
    BY <2>1 DEF HoursInOrder, LogoReady, Locking
  <2>. QED  BY <2>1, <2>2 DEF Saveable
<1>7. ASSUME NEW w \in Worker, StoreFails(w) PROVE Saveable'
  <2>1. Release(w) /\ row' = row /\ byOperator' = byOperator /\ pc[w] # "commit"
    BY <1>7 DEF StoreFails, operatorVars
  <2>2. (store \subseteq store' /\ torn' = torn) \/ torn'
    BY <1>7 DEF StoreFails
  <2>3. CASE torn'
    BY <2>1, <2>3 DEF Saveable
  <2>4. CASE store \subseteq store' /\ torn' = torn
    BY <1>1, <2>1, <2>4, ReleaseType
  <2>. QED  BY <2>2, <2>3, <2>4
<1>8. ASSUME NEW w \in Worker, Crash(w) PROVE Saveable'
  <2>1. /\ Release(w) /\ row' = row /\ store' = store /\ byOperator' = byOperator
        /\ torn' = (torn \/ (pc[w] = "commit" /\ Superseded(before[w], copy[w]) # {}))
        /\ before[w] = row
    BY <1>8 DEF Crash, operatorVars, ReadsCurrent
  <2>2. CASE pc[w] = "commit" /\ copy[w].logo # row.logo
    <3>1. Superseded(before[w], copy[w]) = {row.logo} \ {NoLogo}
      BY <2>1, <2>2 DEF Superseded
    <3>2. torn' \/ row.logo = NoLogo
      BY <2>1, <2>2, <3>1
    <3>. QED  BY <2>1, <3>2 DEF Saveable
  <2>3. CASE ~(pc[w] = "commit" /\ copy[w].logo # row.logo)
    <3>1. torn => torn'
      BY <2>1
    <3>2. ASSUME NEW u \in Worker, pc[u] = "commit", copy[u].logo # row.logo
          PROVE  pc'[u] = "commit" /\ copy'[u].logo # row.logo
      BY <2>1, <2>3, <3>2, ReleaseType
    <3>. QED  BY <1>1, <2>1, <3>1, <3>2
  <2>. QED  BY <2>2, <2>3
<1>9. ASSUME SaveForm PROVE Saveable'
  <2>1. /\ row' = [form.row EXCEPT !.name = row.name] /\ store' = store
        /\ byOperator' = byOperator \cup ChangedFields(row, row')
        /\ torn' = (torn /\ row'.logo = row.logo)
        /\ form.row \in Row /\ form.row.start < form.row.end
        /\ \A u \in Worker : pc[u] # "commit"
    BY <1>9 DEF SaveForm, TypeOK, Form, HoursInOrder, Unlocked, Locking
  <2>2. row'.start < row'.end /\ row' \in Row
    BY <2>1 DEF Row, TypeOK
  <2>3. CASE row'.logo = row.logo
    BY <2>1, <2>2, <2>3 DEF Saveable
  <2>4. CASE row'.logo # row.logo
    <3>1. row'["logo"] # row["logo"]
      BY <2>4
    <3>2. "logo" \in ChangedFields(row, row')
      BY <3>1 DEF ChangedFields, Columns
    <3>3. "logo" \in byOperator'
      BY <2>1, <3>2
    <3>. QED  BY <2>2, <3>3 DEF Saveable
  <2>. QED  BY <2>3, <2>4
<1>10. CASE UNCHANGED <<row, torn, byOperator, workerVars>> /\ store \subseteq store'
  BY <1>1, <1>10 DEF workerVars
<1>. QED
  BY <1>2, <1>3, <1>4, <1>5, <1>6, <1>7, <1>8, <1>9, <1>10
     DEF Next, OpenForm, SubmitForm, vars, workerVars, operatorVars

-----------------------------------------------------------------------------
(* The audit log.                                                           *)

LEMMA AuditStep ==
  ASSUME TypeOK, ReadsCurrent, SettingsAudited, [Next]_vars
  PROVE  SettingsAudited'
<1>1. ASSUME NEW w \in Worker, Commit(w) PROVE SettingsAudited'
  <2>. DEFINE changed == ChangedFields(before[w], copy[w])
  <2>1. /\ row' = copy[w] /\ byOperator' = byOperator \ changed
        /\ told' = [c \in Columns |-> IF c \in changed THEN copy[w][c] ELSE told[c]]
        /\ before[w] = row
    BY <1>1 DEF Commit, ReadsCurrent, Locking
  <2>2. ASSUME NEW c \in Columns \ byOperator' PROVE row'[c] = told'[c]
    <3>1. CASE c \in changed
      BY <2>1, <3>1
    <3>2. CASE c \notin changed
      <4>1. told'[c] = told[c] /\ c \in Columns \ byOperator
        BY <2>1, <2>2, <3>2
      <4>2. row[c] = copy[w][c]
        BY <2>1, <3>2 DEF ChangedFields
      <4>. QED  BY <2>1, <4>1, <4>2 DEF SettingsAudited
    <3>. QED  BY <3>1, <3>2
  <2>. QED  BY <2>2 DEF SettingsAudited
<1>2. ASSUME SaveForm PROVE SettingsAudited'
  BY <1>2 DEF SaveForm, SettingsAudited, ChangedFields
<1>3. CASE row' = row /\ told' = told /\ byOperator' = byOperator
  BY <1>3 DEF SettingsAudited
<1>. QED
  BY <1>1, <1>2, <1>3
     DEF Next, ReadRequest, LockRow, SaveRow, EraseLogo, StoreFails, Crash, OpenForm,
         SubmitForm, vars, operatorVars

-----------------------------------------------------------------------------
(* The inductive invariant and the theorems.                                *)

LEMMA InitSettingsInv == Init => SettingsInv
<1>. SUFFICES ASSUME Init PROVE SettingsInv
  OBVIOUS
<1>1. TypeOK
  BY TypeInit
<1>2. /\ row.start < row.end /\ row.logo = NoLogo /\ told = row /\ form = None
      /\ \A w \in Worker : pc[w] = "idle"
  BY DEF Init
<1>. QED
  BY <1>1, <1>2
     DEF SettingsInv, ReadsCurrent, HoursInOrder, LogoReady, Saveable, SettingsAudited, Locking

LEMMA NextSettingsInv == SettingsInv /\ [Next]_vars => SettingsInv'
BY TypeStep, ReadsStep, HoursStep, LogoStep, SaveableStep, AuditStep DEF SettingsInv

THEOREM Inductive == Spec => []SettingsInv
BY InitSettingsInv, NextSettingsInv, PTL DEF Spec

(* The stored row passes the check of its own save, whatever requests and   *)
(* forms overlap, but for a logo deleted by a PATCH that has not committed, *)
(* failed or was killed, or written by the admin site.                      *)
THEOREM RowSaveable == Spec => []Saveable
<1>1. SettingsInv => Saveable
  BY DEF SettingsInv
<1>. QED  BY <1>1, Inductive, PTL

(* The audit log tells the value of every column that the admin site was    *)
(* not the last to change.                                                  *)
THEOREM AuditTruthful == Spec => []SettingsAudited
<1>1. SettingsInv => SettingsAudited
  BY DEF SettingsInv
<1>. QED  BY <1>1, Inductive, PTL

=============================================================================
