---------------------------- MODULE Notifications ----------------------------
(***************************************************************************)
(* The inbox and the push registrations (backend/apps/notifications).      *)
(*                                                                         *)
(* After the commit of a leave or device change its handler announces it:  *)
(* for each recipient it checks the membership, looks the event key up,    *)
(* validates and inserts the row, and pushes it to the recipient's         *)
(* registered phones. These are separate statements in autocommit, so two  *)
(* announcements, the calls that mark rows as read and the calls that      *)
(* (re)register phones interleave between them.                            *)
(***************************************************************************)
EXTENDS Integers, Sequences, FiniteSets, SequencesExt

CONSTANTS
  User,        \* accounts, each linked to an employee
  Company,     \* companies
  EmployerOf,  \* company of each user's employee row
  ManagerOf,   \* the manager of each user's employee row, or None
  AdminRole,   \* users whose membership has the role COMPANY_ADMIN
  LeaveRequest,\* ids of leave requests
  OwnerOf,     \* the employee a leave request belongs to
  Device,      \* ids of devices
  FcmToken,    \* values of push tokens
  Worker,      \* server processes
  Backend,     \* "disabled" (the default), or "fcm": one that sends and reports
  MaxCalls,    \* bound: calls served
  MaxMoves,    \* bound: changes of memberships
  None         \* no company, no manager, no row

VARIABLES
  member,     \* company of each user's active membership, or None
  inbox,      \* Notification rows, in the order of their insertion
  token,      \* DeviceToken rows, in the order of their insertion
  announced,  \* the leave events that have happened: each happens once
  job,        \* per worker: the call being served
  calls,      \* how many calls were served
  moves       \* how often memberships changed

vars == <<member, inbox, token, announced, job, calls, moves>>

-----------------------------------------------------------------------------
LeaveEvent  == {"submitted", "approved", "rejected", "cancelled"}
DeviceEvent == {"assigned", "returned"}
(* event_key; the recipient is a column of its own                         *)
Key == (LeaveEvent \X LeaveRequest) \cup (DeviceEvent \X Device \X User)

Stamp == 0..MaxCalls
Notification ==
  [company : Company, recipient : User, key : Key, read : BOOLEAN, readAt : Stamp]
DeviceToken ==
  [company : Company, user : User, token : FcmToken, active : BOOLEAN]

Announcement ==
  [op : {"announce"}, at : {"lookup", "clean", "save", "tokens", "push", "drop"},
   company : Company, key : Key, to : SUBSET User, due : SUBSET User,
   skipped : SUBSET User, targets : SUBSET Nat, reported : Nat]
Reading == [op : {"mark_read"}, at : {"update"}, row : Nat \ {0}, now : Stamp]
Registration ==
  [op : {"register"}, at : {"find", "clean", "save"}, user : User,
   company : Company, token : FcmToken]
Change ==
  [op : {"update", "deactivate"}, at : {"write"}, user : User,
   company : Company, token : FcmToken, row : Nat \ {0}]

ASSUME NotificationsAssumption ==
  /\ EmployerOf \in [User -> Company]
  /\ ManagerOf \in [User -> User \cup {None}] /\ \A u \in User : ManagerOf[u] # u
  /\ AdminRole \subseteq User /\ OwnerOf \in [LeaveRequest -> User]
  /\ Backend \in {"disabled", "fcm"}
  /\ MaxCalls \in Nat /\ MaxMoves \in Nat
  /\ None \notin User \cup Company \cup Announcement \cup Reading
                  \cup Registration \cup Change

TypeOK ==
  /\ member \in [User -> Company \cup {None}]
  /\ inbox \in Seq(Notification)
  /\ token \in Seq(DeviceToken)
  /\ announced \subseteq LeaveEvent \X LeaveRequest
  /\ job = [w \in Worker |-> job[w]]
  /\ \A w \in Worker :
       \/ job[w] = None
       \/ /\ job[w] \in Announcement
          /\ job[w].due \subseteq job[w].to /\ job[w].skipped \subseteq job[w].to
          /\ job[w].targets \subseteq DOMAIN token
          /\ job[w].due # {} \/ job[w].at = "lookup"
          /\ job[w].reported \in DOMAIN token \/ job[w].at # "drop"
       \/ job[w] \in Registration
       \/ job[w] \in Reading /\ job[w].row \in DOMAIN inbox
       \/ job[w] \in Change /\ job[w].row \in DOMAIN token
  /\ calls \in 0..MaxCalls /\ moves \in 0..MaxMoves

-----------------------------------------------------------------------------
At(w, op, at) == job[w] # None /\ job[w].op = op /\ job[w].at = at
Answer(w) == job' = [job EXCEPT ![w] = None]
Step(w, j) == job' = [job EXCEPT ![w] = j]

Serve(w, j) ==
  /\ job[w] = None /\ calls < MaxCalls
  /\ calls' = calls + 1
  /\ Step(w, j)
  /\ UNCHANGED <<member, inbox, token, moves>>

-----------------------------------------------------------------------------
(* Whom an event concerns (integration.py). Nobody hears of an act of      *)
(* his own.                                                                *)

Approvers(company, owner, actor) ==
  LET manager == ManagerOf[owner]
  IN  IF manager # None /\ manager # actor THEN {manager}
      ELSE {u \in AdminRole : member[u] = company} \ {actor}

LeaveRecipients(event, owner, actor) ==
  IF event = "submitted" \/ (event = "cancelled" /\ owner = actor)
  THEN Approvers(EmployerOf[owner], owner, actor)
  ELSE {owner} \ {actor}

NewAnnouncement(company, key, due) ==
  [op |-> "announce", at |-> "lookup", company |-> company, key |-> key,
   to |-> due, due |-> due, skipped |-> {}, targets |-> {}, reported |-> 0]

(* A leave request is submitted, decided or cancelled: at most once each,  *)
(* and an approval excludes a rejection (see Leave).                       *)
AnnounceLeave(w, event, request, actor) ==
  LET owner == OwnerOf[request]
  IN  /\ <<event, request>> \notin announced
      /\ event # "submitted" => <<"submitted", request>> \in announced
      /\ event = "submitted" => actor = owner
      /\ event \in {"approved", "rejected"} =>
           actor # owner /\ {<<"approved", request>>, <<"rejected", request>>,
                             <<"cancelled", request>>} \cap announced = {}
      /\ event = "cancelled" => <<"rejected", request>> \notin announced
      /\ announced' = announced \cup {<<event, request>>}
      /\ Serve(w, NewAnnouncement(EmployerOf[owner], <<event, request>>,
                                  LeaveRecipients(event, owner, actor)))

(* A device passes to an employee or comes back, any number of times.      *)
AnnounceDevice(w, event, device, employee, actor) ==
  /\ Serve(w, NewAnnouncement(EmployerOf[employee], <<event, device, employee>>,
                              {employee} \ {actor}))
  /\ UNCHANGED announced

-----------------------------------------------------------------------------
(* create_notifications_for_users, one recipient after the other.          *)

Rows(company, user, key) ==
  {i \in DOMAIN inbox : /\ inbox[i].company = company
                        /\ inbox[i].recipient = user
                        /\ inbox[i].key = key}

Recipient(w) == CHOOSE u \in job[w].due : TRUE

(* Variant with a bug: the next recipient starts where this one ended.     *)
ToldWithoutLookup(w) == [job[w] EXCEPT !.due = @ \ {Recipient(w)}]

Told(w) == [job[w] EXCEPT !.due = @ \ {Recipient(w)}, !.at = "lookup",
                          !.targets = {}]

Frame == UNCHANGED <<member, announced, calls, moves>>
RowFrame == UNCHANGED <<inbox, token>>

(* The membership of the recipient, then the row of the event key          *)
LookUp(w) ==
  /\ At(w, "announce", "lookup")
  /\ LET j == job[w]
         u == Recipient(w)
     IN  IF j.due = {} THEN Answer(w)
         ELSE IF member[u] # j.company
         THEN Step(w, [Told(w) EXCEPT !.skipped = @ \cup {u}])
         ELSE IF Rows(j.company, u, j.key) # {} THEN Step(w, Told(w))
         ELSE Step(w, [j EXCEPT !.at = "clean"])
  /\ RowFrame /\ Frame

(* full_clean validates the unique constraint as well: a row inserted      *)
(* meanwhile fails the call, which ends the loop over the recipients.      *)
Clean(w) ==
  /\ At(w, "announce", "clean")
  /\ IF Rows(job[w].company, Recipient(w), job[w].key) # {}
     THEN Answer(w)
     ELSE Step(w, [job[w] EXCEPT !.at = "save"])
  /\ RowFrame /\ Frame

(* Variant with a bug: no unique constraint on the event key.              *)
KeyFreeUnchecked(w) == TRUE

KeyFree(w) == Rows(job[w].company, Recipient(w), job[w].key) = {}

(* The unique constraint refuses a row inserted after the validation; the  *)
(* existing one is returned and not pushed again.                          *)
Save(w) ==
  /\ At(w, "announce", "save")
  /\ IF KeyFree(w)
     THEN /\ inbox' = Append(inbox,
               [company |-> job[w].company, recipient |-> Recipient(w),
                key |-> job[w].key, read |-> FALSE, readAt |-> 0])
          /\ Step(w, [job[w] EXCEPT !.at = "tokens"])
     ELSE Step(w, Told(w)) /\ UNCHANGED inbox
  /\ UNCHANGED token /\ Frame

(* PushNotificationService.notify: the recipient's active registrations    *)
ReadTokens(w) ==
  /\ At(w, "announce", "tokens")
  /\ LET own == {i \in DOMAIN token : /\ token[i].company = job[w].company
                                      /\ token[i].user = Recipient(w)
                                      /\ token[i].active}
     IN  Step(w, [job[w] EXCEPT !.at = "push", !.targets = own])
  /\ RowFrame /\ Frame

(* Variant with a bug: an error of the backend ends the announcement.      *)
AfterFailureAborts(w, i) == None

AfterFailure(w, i) == [job[w] EXCEPT !.targets = @ \ {i}]

(* The disabled backend skips; a real one delivers, fails, or reports that *)
(* the token is invalid.                                                   *)
Push(w) ==
  /\ At(w, "announce", "push")
  /\ \/ job[w].targets = {} /\ Step(w, Told(w))
     \/ \E i \in job[w].targets :
          \/ Step(w, [job[w] EXCEPT !.targets = @ \ {i}])
          \/ Backend = "fcm" /\ Step(w, AfterFailure(w, i))
          \/ /\ Backend = "fcm"
             /\ Step(w, [job[w] EXCEPT !.at = "drop", !.targets = @ \ {i},
                                       !.reported = i])
  /\ RowFrame /\ Frame

(* row.save(update_fields=["is_active"]) of the row that was read          *)
DropToken(w) ==
  /\ At(w, "announce", "drop")
  /\ token' = [token EXCEPT ![job[w].reported].active = FALSE]
  /\ Step(w, [job[w] EXCEPT !.at = "push", !.reported = 0])
  /\ UNCHANGED inbox /\ Frame

-----------------------------------------------------------------------------
(* mark_read and mark_all_read.                                            *)

(* get_object: the own inbox in the company of the membership              *)
MarkRead(w, u, i) ==
  /\ inbox[i].recipient = u /\ inbox[i].company = member[u]
  /\ calls' = calls + 1
  /\ Serve(w, IF inbox[i].read THEN None
              ELSE [op |-> "mark_read", at |-> "update", row |-> i, now |-> calls'])
  /\ UNCHANGED announced

(* Variant with a bug: the update is not restricted to unread rows.        *)
StillUnreadUnchecked(i) == TRUE

StillUnread(i) == ~inbox[i].read

WriteRead(w) ==
  /\ At(w, "mark_read", "update")
  /\ inbox' = IF StillUnread(job[w].row)
              THEN [inbox EXCEPT ![job[w].row].read = TRUE,
                                 ![job[w].row].readAt = job[w].now]
              ELSE inbox
  /\ Answer(w)
  /\ UNCHANGED token /\ Frame

MarkAllRead(w, u) ==
  /\ job[w] = None /\ calls < MaxCalls /\ member[u] # None
  /\ calls' = calls + 1
  /\ inbox' = [i \in DOMAIN inbox |->
       IF inbox[i].recipient = u /\ inbox[i].company = member[u] /\ ~inbox[i].read
       THEN [inbox[i] EXCEPT !.read = TRUE, !.readAt = calls']
       ELSE inbox[i]]
  /\ UNCHANGED <<member, token, announced, job, moves>>

-----------------------------------------------------------------------------
(* DeviceTokenService.                                                     *)

Holding(t) == {i \in DOMAIN token : token[i].token = t}

Register(w, u, t) ==
  /\ member[u] # None
  /\ Serve(w, [op |-> "register", at |-> "find", user |-> u,
               company |-> member[u], token |-> t])
  /\ UNCHANGED announced

Registered(j) ==
  [company |-> j.company, user |-> j.user, token |-> j.token, active |-> TRUE]

(* SELECT ... FOR UPDATE: a row that is found is reassigned under its      *)
(* lock; no row is no lock.                                                *)
FindToken(w) ==
  /\ At(w, "register", "find")
  /\ LET j == job[w]
     IN  IF Holding(j.token) = {}
         THEN Step(w, [j EXCEPT !.at = "clean"]) /\ UNCHANGED token
         ELSE LET i == CHOOSE x \in Holding(j.token) : TRUE
              IN  token' = [token EXCEPT ![i] = Registered(j)] /\ Answer(w)
  /\ UNCHANGED inbox /\ Frame

CleanToken(w) ==
  /\ At(w, "register", "clean")
  /\ IF Holding(job[w].token) # {} THEN Answer(w)
     ELSE Step(w, [job[w] EXCEPT !.at = "save"])
  /\ RowFrame /\ Frame

TokenFree(t, i) == Holding(t) \subseteq {i}

InsertToken(w) ==
  /\ At(w, "register", "save")
  /\ token' = IF TokenFree(job[w].token, 0) THEN Append(token, Registered(job[w]))
              ELSE token
  /\ Answer(w)
  /\ UNCHANGED inbox /\ Frame

Own(u, company, i) == token[i].user = u /\ token[i].company = company

(* get_object, then the ownership check on the row that was fetched        *)
ChangeToken(w, op, u, i, t) ==
  /\ member[u] # None /\ Own(u, member[u], i)
  /\ Serve(w, [op |-> op, at |-> "write", user |-> u, company |-> member[u],
               token |-> t, row |-> i])
  /\ UNCHANGED announced

(* update_token checks the ownership again under the lock; a PATCH may     *)
(* keep the token.                                                         *)
UpdateToken(w) ==
  /\ At(w, "update", "write")
  /\ LET j == job[w]
     IN  IF Own(j.user, j.company, j.row) /\ TokenFree(j.token, j.row)
         THEN token' = [token EXCEPT ![j.row].token = j.token, ![j.row].active = TRUE]
         ELSE UNCHANGED token
  /\ Answer(w)
  /\ UNCHANGED inbox /\ Frame

(* Variant with a bug: the update matches the row whoever owns it by now.  *)
StillOwnUnchecked(w) == TRUE

StillOwn(w) == Own(job[w].user, job[w].company, job[w].row)

Deactivate(w) ==
  /\ At(w, "deactivate", "write")
  /\ LET i == job[w].row
     IN  IF StillOwn(w)
         THEN token' = [token EXCEPT ![i].active = FALSE]
         ELSE UNCHANGED token
  /\ Answer(w)
  /\ UNCHANGED inbox /\ Frame

-----------------------------------------------------------------------------
(* Memberships are deactivated, activated or moved (see Directory).        *)
MoveMember(u, c) ==
  /\ moves < MaxMoves /\ c # member[u]
  /\ moves' = moves + 1
  /\ member' = [member EXCEPT ![u] = c]
  /\ UNCHANGED <<inbox, token, announced, job, calls>>

Init ==
  /\ member = EmployerOf
  /\ inbox = <<>> /\ token = <<>>
  /\ announced = {}
  /\ job = [w \in Worker |-> None]
  /\ calls = 0 /\ moves = 0

Call(w) ==
  \/ \E e \in LeaveEvent, r \in LeaveRequest, a \in User : AnnounceLeave(w, e, r, a)
  \/ \E e \in DeviceEvent, d \in Device, u, a \in User : AnnounceDevice(w, e, d, u, a)
  \/ \E u \in User, i \in DOMAIN inbox : MarkRead(w, u, i)
  \/ \E u \in User : MarkAllRead(w, u)
  \/ \E u \in User, t \in FcmToken : Register(w, u, t)
  \/ \E u \in User, i \in DOMAIN token, t \in FcmToken : ChangeToken(w, "update", u, i, t)
  \/ \E u \in User, i \in DOMAIN token :
       ChangeToken(w, "deactivate", u, i, token[i].token)

Proceed(w) ==
  \/ LookUp(w) \/ Clean(w) \/ Save(w) \/ ReadTokens(w) \/ Push(w) \/ DropToken(w)
  \/ WriteRead(w)
  \/ FindToken(w) \/ CleanToken(w) \/ InsertToken(w) \/ UpdateToken(w) \/ Deactivate(w)

Next ==
  \/ \E w \in Worker : Call(w) \/ Proceed(w)
  \/ \E u \in User, c \in Company \cup {None} : MoveMember(u, c)

Spec == Init /\ [][Next]_vars

-----------------------------------------------------------------------------
(* Properties.                                                             *)

(* A recipient has one row per event key, however the announcements of one *)
(* event race (NotificationService.create_notification).                   *)
OneRowPerEvent ==
  \A i \in DOMAIN inbox :
    Rows(inbox[i].company, inbox[i].recipient, inbox[i].key) = {i}

(* A push token is in one row (DeviceTokenService.register).               *)
OneRowPerToken ==
  \A i, k \in DOMAIN token : token[i].token = token[k].token => i = k

(* Races of two creations leave one row of each.                           *)
RowsUnique == OneRowPerEvent /\ OneRowPerToken

(* When a handler's announcement ends, also with an error, everyone the    *)
(* event concerns has his row, except those whose membership had ended: a  *)
(* lost race, a failing backend and an invalid token cost nobody his row.  *)
EveryoneTold ==
  [][\A w \in Worker :
       job[w] # None /\ job'[w] = None /\ job[w].op = "announce" =>
         \A u \in job[w].to \ job[w].skipped : Rows(job[w].company, u, job[w].key) # {}]_vars

(* A row of an inbox is never taken away or made unread, and keeps the     *)
(* time it was first read, when a single and a mark-all call race.         *)
ReadStays ==
  [][\A i \in DOMAIN inbox :
       /\ i \in DOMAIN inbox'
       /\ inbox[i].read => inbox'[i] = inbox[i]]_vars

(* Only its present user switches a registration off: the logout of the    *)
(* phone's previous user that was under way does not silence it            *)
(* (DeviceTokenService.deactivate).                                        *)
SwitchedOffByOwner ==
  [][\A i \in DOMAIN token, w \in Worker :
       job[w] # None /\ job'[w] = None /\ job[w].op = "deactivate"
         /\ token'[i].active # token[i].active
       => token[i].user = job[w].user]_vars
=============================================================================
