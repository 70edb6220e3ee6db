------------------------ MODULE NotificationsProofs ------------------------
(***************************************************************************)
(* What holds of the inbox and the push registrations, for every set of    *)
(* users, companies, phones and server processes. Both unique constraints  *)
(* hold because the statement that inserts looks again. That an            *)
(* announcement never ends with somebody untold is less obvious, for a     *)
(* lost race ends its loop over the recipients: a leave event is announced *)
(* once and to several people, a device event any number of times and to   *)
(* one, so the announcement that loses a race has nobody left to tell.     *)
(***************************************************************************)
EXTENDS Notifications, SequenceTheorems, TLAPS

Announcing(w) == job[w] # None /\ job[w].op = "announce"
LeaveKey == LeaveEvent \X LeaveRequest

(* Those an announcement is done with have their rows or were skipped; so  *)
(* has the one it is pushing to.                                           *)
DoneWithRow ==
  \A w \in Worker : Announcing(w) =>
    /\ \A u \in job[w].to \ (job[w].due \cup job[w].skipped) :
         Rows(job[w].company, u, job[w].key) # {}
    /\ job[w].at \in {"tokens", "push", "drop"} =>
         Rows(job[w].company, Recipient(w), job[w].key) # {}

(* The announcement of a leave event is the only one of it, and those it   *)
(* has not come to have no row. Another event concerns one employee.       *)
OneAnnouncement ==
  /\ \A i \in DOMAIN inbox : inbox[i].key \in LeaveKey => inbox[i].key \in announced
  /\ \A w \in Worker : Announcing(w) =>
       IF job[w].key \in LeaveKey
       THEN /\ job[w].key \in announced
            /\ \A v \in Worker \ {w} : Announcing(v) => job[v].key # job[w].key
            /\ \A i \in DOMAIN inbox :
                 inbox[i].key = job[w].key /\ inbox[i].recipient \in job[w].due =>
                   /\ job[w].at \in {"tokens", "push", "drop"}
                   /\ inbox[i].recipient = Recipient(w)
       ELSE \A u, v \in job[w].to : u = v

NotificationsInv == TypeOK /\ RowsUnique /\ DoneWithRow /\ OneAnnouncement

-----------------------------------------------------------------------------
(* Calls, rows and keys.                                                   *)

(* A call that is served, given the rows and the registrations there are.  *)
JobOK(j, rows, phones) ==
  \/ j = None
  \/ /\ j \in Announcement
     /\ j.due \subseteq j.to /\ j.skipped \subseteq j.to
     /\ j.targets \subseteq phones
     /\ j.due # {} \/ j.at = "lookup"
     /\ j.reported \in phones \/ j.at # "drop"
  \/ j \in Registration
  \/ j \in Reading /\ j.row \in rows
  \/ j \in Change /\ j.row \in phones

(* Type correctness, said with JobOK.                                      *)
LEMMA JobsOK ==
  TypeOK <=> /\ member \in [User -> Company \cup {None}]
             /\ inbox \in Seq(Notification)
             /\ token \in Seq(DeviceToken)
             /\ announced \subseteq LeaveEvent \X LeaveRequest
             /\ job = [w \in Worker |-> job[w]]
             /\ \A w \in Worker : JobOK(job[w], DOMAIN inbox, DOMAIN token)
             /\ calls \in 0..MaxCalls /\ moves \in 0..MaxMoves
BY DEF TypeOK, JobOK

(* What a call is follows from its operation.                              *)
LEMMA JobKinds ==
  ASSUME NEW j, NEW rows, NEW phones, JobOK(j, rows, phones), j # None
  PROVE  /\ j.op = "announce" =>
              /\ j \in Announcement
              /\ j.due \subseteq j.to /\ j.skipped \subseteq j.to
              /\ j.targets \subseteq phones
              /\ j.due # {} \/ j.at = "lookup"
              /\ j.reported \in phones \/ j.at # "drop"
         /\ j.op = "register" => j \in Registration
         /\ j.op = "mark_read" => j \in Reading /\ j.row \in rows
         /\ j.op \in {"update", "deactivate"} => j \in Change /\ j.row \in phones
         /\ j.op \in {"announce", "register", "mark_read", "update", "deactivate"}
BY DEF JobOK, Announcement, Registration, Reading, Change

(* No call is None.                                                        *)
LEMMA JobsAreNotNone ==
  ASSUME NEW j, j \in Announcement \/ j \in Reading \/ j \in Registration \/ j \in Change
  PROVE  j # None
BY NotificationsAssumption

(* A call stays what it is when rows and registrations are added.          *)
LEMMA JobStays ==
  ASSUME NEW j, NEW rows, NEW phones, NEW more, NEW others,
         JobOK(j, rows, phones), rows \subseteq more, phones \subseteq others
  PROVE  JobOK(j, more, others)
BY DEF JobOK

(* The recipient an announcement has come to is one of those it is due to. *)
LEMMA RecipientDue ==
  ASSUME NEW w \in Worker, job[w].due # {}
  PROVE  Recipient(w) \in job[w].due
BY DEF Recipient

(* A worker takes a step in its call, and the others stay in theirs.       *)
LEMMA StepTypes ==
  ASSUME TypeOK, NEW w \in Worker, NEW j, job' = [job EXCEPT ![w] = j],
         DOMAIN inbox \subseteq DOMAIN inbox', DOMAIN token \subseteq DOMAIN token',
         JobOK(j, DOMAIN inbox', DOMAIN token')
  PROVE  /\ job' = [v \in Worker |-> job'[v]]
         /\ \A v \in Worker : JobOK(job'[v], DOMAIN inbox', DOMAIN token')
         /\ job'[w] = j /\ \A v \in Worker \ {w} : job'[v] = job[v]
<1>1. /\ job = [v \in Worker |-> job[v]]
      /\ \A v \in Worker : JobOK(job[v], DOMAIN inbox, DOMAIN token)
  BY JobsOK
<1>2. /\ job' = [v \in Worker |-> job'[v]]
      /\ job'[w] = j /\ \A v \in Worker \ {w} : job'[v] = job[v]
  BY <1>1
<1>3. \A v \in Worker : JobOK(job'[v], DOMAIN inbox', DOMAIN token')
  BY <1>1, <1>2, JobStays
<1>. QED BY <1>2, <1>3

-----------------------------------------------------------------------------
(* The steps of a call.                                                    *)

(* A worker in a step of an operation serves a call of that operation.     *)
LEMMA InCall ==
  ASSUME TypeOK, NEW w \in Worker, NEW op, NEW at, At(w, op, at)
  PROVE  /\ job[w] # None /\ job[w].op = op /\ job[w].at = at
         /\ op = "announce" => /\ Announcing(w) /\ job[w] \in Announcement
                               /\ job[w].due \subseteq job[w].to
                               /\ job[w].skipped \subseteq job[w].to
                               /\ job[w].targets \subseteq DOMAIN token
                               /\ at # "lookup" => Recipient(w) \in job[w].due
                               /\ at = "drop" => job[w].reported \in DOMAIN token
         /\ op = "register" => job[w] \in Registration
         /\ op = "mark_read" => job[w] \in Reading /\ job[w].row \in DOMAIN inbox
         /\ op \in {"update", "deactivate"} => job[w] \in Change /\ job[w].row \in DOMAIN token
<1>1. JobOK(job[w], DOMAIN inbox, DOMAIN token) /\ job[w] # None
  BY JobsOK DEF At
<1>2. job[w].op = op /\ job[w].at = at
  BY DEF At
<1>. QED BY <1>1, <1>2, JobKinds, RecipientDue DEF Announcing

(* Where an announcement goes when it has told a recipient.                *)
LEMMA ToldType ==
  ASSUME TypeOK, NEW w \in Worker, Announcing(w), Recipient(w) \in job[w].due
  PROVE  /\ Told(w) \in Announcement /\ Told(w).at = "lookup"
         /\ Told(w).due = job[w].due \ {Recipient(w)}
         /\ Told(w).to = job[w].to /\ Told(w).skipped = job[w].skipped
         /\ Told(w).company = job[w].company /\ Told(w).key = job[w].key
         /\ Told(w).op = "announce" /\ Told(w).targets = {}
         /\ JobOK(Told(w), DOMAIN inbox, DOMAIN token)
<1>1. /\ job[w] \in Announcement /\ job[w].due \subseteq job[w].to
      /\ job[w].skipped \subseteq job[w].to
  BY JobsOK, JobKinds DEF Announcing
<1>2. /\ Told(w) \in Announcement /\ Told(w).at = "lookup"
      /\ Told(w).due = job[w].due \ {Recipient(w)}
      /\ Told(w).to = job[w].to /\ Told(w).skipped = job[w].skipped
      /\ Told(w).company = job[w].company /\ Told(w).key = job[w].key
      /\ Told(w).op = "announce" /\ Told(w).targets = {}
  BY <1>1 DEF Told, Announcement
<1>. QED BY <1>1, <1>2 DEF JobOK

(* A new announcement is due to everyone the event concerns.               *)
LEMMA NewAnnouncementType ==
  ASSUME NEW company \in Company, NEW key \in Key, NEW due \in SUBSET User,
         NEW rows, NEW phones
  PROVE  /\ NewAnnouncement(company, key, due) \in Announcement
         /\ JobOK(NewAnnouncement(company, key, due), rows, phones)
BY DEF NewAnnouncement, Announcement, JobOK

(* An event concerns users.                                                *)
LEMMA RecipientsAreUsers ==
  ASSUME NEW event, NEW owner \in User, NEW actor \in User
  PROVE  LeaveRecipients(event, owner, actor) \subseteq User
BY NotificationsAssumption DEF LeaveRecipients, Approvers

-----------------------------------------------------------------------------
(* Type correctness.                                                       *)

(* A worker starts, goes on with or ends a call, and leaves the rows and   *)
(* the registrations with their types.                                     *)
LEMMA TypeOfStep ==
  ASSUME TypeOK, NEW w \in Worker, NEW j, job' = [job EXCEPT ![w] = j],
         inbox' \in Seq(Notification), token' \in Seq(DeviceToken),
         DOMAIN inbox \subseteq DOMAIN inbox', DOMAIN token \subseteq DOMAIN token',
         JobOK(j, DOMAIN inbox, DOMAIN token),
         announced' \subseteq LeaveEvent \X LeaveRequest,
         member' = member, moves' = moves, calls' \in 0..MaxCalls
  PROVE  TypeOK'
<1>1. JobOK(j, DOMAIN inbox', DOMAIN token')
  BY JobStays
<1>2. /\ job' = [v \in Worker |-> job'[v]]
      /\ \A v \in Worker : JobOK(job'[v], DOMAIN inbox', DOMAIN token')
  BY <1>1, StepTypes
<1>3. /\ member' \in [User -> Company \cup {None}] /\ moves' \in 0..MaxMoves
  BY DEF TypeOK
<1>4. \A v \in Worker :
        \/ job'[v] = None
        \/ /\ job'[v] \in Announcement
           /\ job'[v].due \subseteq job'[v].to /\ job'[v].skipped \subseteq job'[v].to
           /\ job'[v].targets \subseteq DOMAIN token'
           /\ job'[v].due # {} \/ job'[v].at = "lookup"
           /\ job'[v].reported \in DOMAIN token' \/ job'[v].at # "drop"
        \/ job'[v] \in Registration
        \/ job'[v] \in Reading /\ job'[v].row \in DOMAIN inbox'
        \/ job'[v] \in Change /\ job'[v].row \in DOMAIN token'
  BY <1>2 DEF JobOK
<1>. QED BY <1>2, <1>3, <1>4 DEF TypeOK

(* A registration with changed columns is one, at its place.               *)
LEMMA TokenChanged ==
  ASSUME TypeOK, NEW i \in DOMAIN token, NEW row \in DeviceToken,
         NEW phones, phones = [token EXCEPT ![i] = row]
  PROVE  /\ phones \in Seq(DeviceToken) /\ DOMAIN phones = DOMAIN token
         /\ phones[i] = row /\ \A k \in DOMAIN token \ {i} : phones[k] = token[k]
BY ExceptSeq DEF TypeOK
(* So is a row of an inbox.                                                *)
LEMMA RowChanged ==
  ASSUME TypeOK, NEW i \in DOMAIN inbox, NEW row \in Notification,
         NEW rows, rows = [inbox EXCEPT ![i] = row]
  PROVE  /\ rows \in Seq(Notification) /\ DOMAIN rows = DOMAIN inbox
         /\ rows[i] = row /\ \A k \in DOMAIN inbox \ {i} : rows[k] = inbox[k]
BY ExceptSeq DEF TypeOK

LEMMA TypeStep == TypeOK /\ [Next]_vars => TypeOK'
<1>. SUFFICES ASSUME TypeOK, [Next]_vars PROVE TypeOK'
  OBVIOUS
<1>a. /\ inbox \in Seq(Notification) /\ token \in Seq(DeviceToken) /\ calls \in 0..MaxCalls
      /\ announced \subseteq LeaveEvent \X LeaveRequest
      /\ member \in [User -> Company \cup {None}]
  BY DEF TypeOK
<1>e. /\ \A i \in DOMAIN inbox : inbox[i] \in Notification
      /\ \A i \in DOMAIN token : token[i] \in DeviceToken
  BY <1>a, ElementOfSeq
<1>b. ASSUME NEW w \in Worker, NEW j, Serve(w, j), JobOK(j, DOMAIN inbox, DOMAIN token),
             announced' \subseteq LeaveEvent \X LeaveRequest
      PROVE  TypeOK'
  <2>1. calls + 1 \in 0..MaxCalls
    BY <1>a, <1>b, NotificationsAssumption DEF Serve
  <2>. QED  BY <1>a, <1>b, <2>1, TypeOfStep DEF Serve, Step
<1>c. ASSUME NEW w \in Worker, NEW j, Step(w, j), RowFrame, Frame,
             JobOK(j, DOMAIN inbox, DOMAIN token)
      PROVE  TypeOK'
  BY <1>a, <1>c, TypeOfStep DEF Step, RowFrame, Frame
<1>d. ASSUME NEW w \in Worker, Answer(w), RowFrame, Frame PROVE TypeOK'
  BY <1>a, <1>d, TypeOfStep DEF Answer, RowFrame, Frame, JobOK
<1>1. ASSUME NEW w \in Worker, NEW e \in LeaveEvent, NEW r \in LeaveRequest,
             NEW a \in User, AnnounceLeave(w, e, r, a) PROVE TypeOK'
  <2>. DEFINE owner == OwnerOf[r]
              due == LeaveRecipients(e, owner, a)
  <2>1. owner \in User /\ EmployerOf[owner] \in Company
    BY NotificationsAssumption
  <2>2. <<e, r>> \in Key /\ due \subseteq User
    BY <2>1, RecipientsAreUsers DEF Key
  <2>3. JobOK(NewAnnouncement(EmployerOf[owner], <<e, r>>, due), DOMAIN inbox, DOMAIN token)
    BY <2>1, <2>2, NewAnnouncementType
  <2>. QED  BY <1>1, <1>a, <1>b, <2>3 DEF AnnounceLeave
<1>2. ASSUME NEW w \in Worker, NEW e \in DeviceEvent, NEW d \in Device,
             NEW u \in User, NEW a \in User, AnnounceDevice(w, e, d, u, a) PROVE TypeOK'
  <2>1. <<e, d, u>> \in Key /\ EmployerOf[u] \in Company /\ {u} \ {a} \subseteq User
    BY NotificationsAssumption DEF Key
  <2>2. JobOK(NewAnnouncement(EmployerOf[u], <<e, d, u>>, {u} \ {a}), DOMAIN inbox, DOMAIN token)
    BY <2>1, NewAnnouncementType
  <2>. QED  BY <1>2, <1>a, <1>b, <2>2 DEF AnnounceDevice
<1>3. ASSUME NEW w \in Worker, LookUp(w) PROVE TypeOK'
  <2>1. /\ job[w] \in Announcement /\ job[w].at = "lookup" /\ Announcing(w)
        /\ job[w].due \subseteq job[w].to /\ job[w].skipped \subseteq job[w].to
        /\ job[w].targets \subseteq DOMAIN token /\ RowFrame /\ Frame
    BY <1>3, InCall DEF LookUp
  <2>2. CASE job[w].due = {}
    BY <1>3, <1>d, <2>1, <2>2 DEF LookUp
  <2>3. CASE job[w].due # {}
    <3>1. Recipient(w) \in job[w].due
      BY <2>3, RecipientDue
    <3>2. /\ Told(w) \in Announcement /\ Told(w).at = "lookup"
          /\ Told(w).due = job[w].due \ {Recipient(w)}
          /\ Told(w).to = job[w].to /\ Told(w).skipped = job[w].skipped
          /\ Told(w).targets = {} /\ JobOK(Told(w), DOMAIN inbox, DOMAIN token)
      BY <2>1, <3>1, ToldType
    <3>3. JobOK([Told(w) EXCEPT !.skipped = @ \cup {Recipient(w)}], DOMAIN inbox, DOMAIN token)
      <4>. DEFINE j == [Told(w) EXCEPT !.skipped = @ \cup {Recipient(w)}]
      <4>1. /\ j \in Announcement /\ j.due = Told(w).due /\ j.to = Told(w).to
            /\ j.skipped = Told(w).skipped \cup {Recipient(w)}
            /\ j.targets = {} /\ j.at = "lookup"
        BY <2>1, <3>1, <3>2 DEF Announcement
      <4>. QED  BY <2>1, <3>1, <3>2, <4>1 DEF JobOK
    <3>4. JobOK([job[w] EXCEPT !.at = "clean"], DOMAIN inbox, DOMAIN token)
      BY <2>1, <2>3 DEF JobOK, Announcement
    <3>. QED  BY <1>3, <1>c, <2>1, <2>3, <3>2, <3>3, <3>4 DEF LookUp
  <2>. QED  BY <2>2, <2>3
<1>4. ASSUME NEW w \in Worker, Clean(w) PROVE TypeOK'
  <2>1. /\ job[w] \in Announcement /\ Recipient(w) \in job[w].due
        /\ job[w].due \subseteq job[w].to /\ job[w].skipped \subseteq job[w].to
        /\ job[w].targets \subseteq DOMAIN token /\ RowFrame /\ Frame
    BY <1>4, InCall DEF Clean
  <2>2. JobOK([job[w] EXCEPT !.at = "save"], DOMAIN inbox, DOMAIN token)
    BY <2>1 DEF JobOK, Announcement
  <2>. QED  BY <1>4, <1>c, <1>d, <2>1, <2>2 DEF Clean
<1>5. ASSUME NEW w \in Worker, Save(w) PROVE TypeOK'
  <2>1. /\ job[w] \in Announcement /\ Recipient(w) \in job[w].due /\ Announcing(w)
        /\ job[w].due \subseteq job[w].to /\ job[w].skipped \subseteq job[w].to
        /\ job[w].targets \subseteq DOMAIN token
        /\ UNCHANGED <<token, member, announced, calls, moves>>
    BY <1>5, InCall DEF Save, Frame
  <2>2. CASE KeyFree(w)
    <3>. DEFINE row == [company |-> job[w].company, recipient |-> Recipient(w),
                        key |-> job[w].key, read |-> FALSE, readAt |-> 0]
    <3>1. row \in Notification
      BY <2>1, NotificationsAssumption DEF Announcement, Notification, Stamp
    <3>2. inbox' = Append(inbox, row) /\ job' = [job EXCEPT ![w] = [job[w] EXCEPT !.at = "tokens"]]
      BY <1>5, <2>2 DEF Save, Step
    <3>. HIDE DEF row
    <3>3. inbox' \in Seq(Notification) /\ DOMAIN inbox \subseteq DOMAIN inbox'
      BY <1>a, <3>1, <3>2, AppendProperties
    <3>4. JobOK([job[w] EXCEPT !.at = "tokens"], DOMAIN inbox, DOMAIN token)
      BY <2>1 DEF JobOK, Announcement
    <3>. QED  BY <1>a, <2>1, <3>2, <3>3, <3>4, TypeOfStep
  <2>3. CASE ~KeyFree(w)
    <3>1. JobOK(Told(w), DOMAIN inbox, DOMAIN token)
      BY <2>1, ToldType
    <3>. QED  BY <1>5, <1>c, <2>1, <2>3, <3>1 DEF Save, RowFrame, Frame
  <2>. QED  BY <2>2, <2>3
<1>6. ASSUME NEW w \in Worker, ReadTokens(w) PROVE TypeOK'
  <2>. DEFINE own == {i \in DOMAIN token : /\ token[i].company = job[w].company
                                           /\ token[i].user = Recipient(w)
                                           /\ token[i].active}
  <2>1. /\ job[w] \in Announcement /\ Recipient(w) \in job[w].due
        /\ job[w].due \subseteq job[w].to /\ job[w].skipped \subseteq job[w].to
        /\ RowFrame /\ Frame
        /\ Step(w, [job[w] EXCEPT !.at = "push", !.targets = own])
    BY <1>6, InCall DEF ReadTokens
  <2>2. own \subseteq DOMAIN token /\ own \subseteq Nat
    BY <1>a
  <2>. HIDE DEF own
  <2>3. JobOK([job[w] EXCEPT !.at = "push", !.targets = own], DOMAIN inbox, DOMAIN token)
    BY <2>1, <2>2 DEF JobOK, Announcement
  <2>. QED  BY <1>c, <2>1, <2>3
<1>7. ASSUME NEW w \in Worker, Push(w) PROVE TypeOK'
  <2>1. /\ job[w] \in Announcement /\ Recipient(w) \in job[w].due /\ Announcing(w)
        /\ job[w].due \subseteq job[w].to /\ job[w].skipped \subseteq job[w].to
        /\ job[w].targets \subseteq DOMAIN token /\ job[w].at = "push" /\ RowFrame /\ Frame
    <3>1. At(w, "announce", "push") /\ RowFrame /\ Frame
      BY <1>7 DEF Push
    <3>. QED  BY <3>1, InCall
  <2>2. JobOK(Told(w), DOMAIN inbox, DOMAIN token)
    BY <2>1, ToldType
  <2>3. ASSUME NEW i \in job[w].targets
        PROVE  /\ JobOK([job[w] EXCEPT !.targets = @ \ {i}], DOMAIN inbox, DOMAIN token)
               /\ JobOK([job[w] EXCEPT !.at = "drop", !.targets = @ \ {i}, !.reported = i],
                        DOMAIN inbox, DOMAIN token)
    <3>1. i \in DOMAIN token /\ i \in Nat
      BY <1>a, <2>1
    <3>2. JobOK([job[w] EXCEPT !.targets = @ \ {i}], DOMAIN inbox, DOMAIN token)
      BY <2>1 DEF JobOK, Announcement
    <3>3. JobOK([job[w] EXCEPT !.at = "drop", !.targets = @ \ {i}, !.reported = i],
                DOMAIN inbox, DOMAIN token)
      BY <2>1, <3>1 DEF JobOK, Announcement
    <3>. QED  BY <3>2, <3>3
  <2>4. CASE job[w].targets = {} /\ Step(w, Told(w))
    BY <1>c, <2>1, <2>2, <2>4
  <2>5. ASSUME NEW i \in job[w].targets,
               \/ Step(w, [job[w] EXCEPT !.targets = @ \ {i}])
               \/ Step(w, [job[w] EXCEPT !.at = "drop", !.targets = @ \ {i}, !.reported = i])
        PROVE  TypeOK'
    BY <1>c, <2>1, <2>3, <2>5
  <2>. QED  BY <1>7, <2>4, <2>5 DEF Push, AfterFailure
<1>8. ASSUME NEW w \in Worker, DropToken(w) PROVE TypeOK'
  <2>1. /\ job[w] \in Announcement /\ Recipient(w) \in job[w].due
        /\ job[w].due \subseteq job[w].to /\ job[w].skipped \subseteq job[w].to
        /\ job[w].targets \subseteq DOMAIN token /\ job[w].reported \in DOMAIN token
        /\ UNCHANGED <<inbox, member, announced, calls, moves>>
    BY <1>8, InCall DEF DropToken, Frame
  <2>2. token' \in Seq(DeviceToken) /\ DOMAIN token' = DOMAIN token
    <3>1. [token[job[w].reported] EXCEPT !.active = FALSE] \in DeviceToken
      BY <1>e, <2>1 DEF DeviceToken
    <3>2. token' = [token EXCEPT ![job[w].reported] =
                      [token[job[w].reported] EXCEPT !.active = FALSE]]
      BY <1>8 DEF DropToken
    <3>. DEFINE phone == [token[job[w].reported] EXCEPT !.active = FALSE]
    <3>. HIDE DEF phone
    <3>3. phone \in DeviceToken /\ token' = [token EXCEPT ![job[w].reported] = phone]
      BY <3>1, <3>2 DEF phone
    <3>. QED  BY <2>1, <3>3, TokenChanged
  <2>3. JobOK([job[w] EXCEPT !.at = "push", !.reported = 0], DOMAIN inbox, DOMAIN token)
    BY <2>1 DEF JobOK, Announcement
  <2>. QED  BY <1>8, <1>a, <2>1, <2>2, <2>3, TypeOfStep DEF DropToken, Step
<1>9. ASSUME NEW w \in Worker, NEW u \in User, NEW i \in DOMAIN inbox, MarkRead(w, u, i)
      PROVE  TypeOK'
  <2>1. Serve(w, IF inbox[i].read THEN None
                 ELSE [op |-> "mark_read", at |-> "update", row |-> i, now |-> calls'])
        /\ announced' = announced
    BY <1>9 DEF MarkRead
  <2>2. calls' \in Stamp /\ i \in Nat \ {0}
    BY <1>9, <1>a, NotificationsAssumption DEF MarkRead, Serve, Stamp
  <2>3. [op |-> "mark_read", at |-> "update", row |-> i, now |-> calls'] \in Reading
    BY <2>2 DEF Reading
  <2>4. JobOK(IF inbox[i].read THEN None
              ELSE [op |-> "mark_read", at |-> "update", row |-> i, now |-> calls'],
              DOMAIN inbox, DOMAIN token)
    BY <2>3 DEF JobOK
  <2>. QED  BY <1>a, <1>b, <2>1, <2>4
<1>10. ASSUME NEW w \in Worker, WriteRead(w) PROVE TypeOK'
  <2>1. job[w] \in Reading /\ job[w].row \in DOMAIN inbox
    BY <1>10, InCall DEF WriteRead
  <2>2. inbox' \in Seq(Notification) /\ DOMAIN inbox' = DOMAIN inbox
    <3>1. [inbox[job[w].row] EXCEPT !.read = TRUE, !.readAt = job[w].now] \in Notification
      BY <1>e, <2>1 DEF Notification, Reading
    <3>2. inbox' = inbox
          \/ inbox' = [inbox EXCEPT ![job[w].row] =
                         [inbox[job[w].row] EXCEPT !.read = TRUE, !.readAt = job[w].now]]
      BY <1>10, <1>a, <2>1 DEF WriteRead
    <3>. QED  BY <1>a, <2>1, <3>1, <3>2, RowChanged
  <2>. QED  BY <1>10, <1>a, <2>2, TypeOfStep DEF WriteRead, Answer, Frame, JobOK
<1>11. ASSUME NEW w \in Worker, NEW u \in User, MarkAllRead(w, u) PROVE TypeOK'
  <2>1. calls' \in Stamp
    <3>1. calls < MaxCalls /\ calls' = calls + 1
      BY <1>11 DEF MarkAllRead
    <3>. QED  BY <1>a, <3>1, NotificationsAssumption DEF Stamp
  <2>2. inbox' \in Seq(Notification) /\ DOMAIN inbox' = DOMAIN inbox
    <3>1. /\ inbox' = [i \in DOMAIN inbox |-> inbox'[i]]
          /\ \A i \in DOMAIN inbox : inbox'[i] = inbox[i]
               \/ inbox'[i] = [inbox[i] EXCEPT !.read = TRUE, !.readAt = calls']
      BY <1>11 DEF MarkAllRead
    <3>2. \A i \in DOMAIN inbox : inbox'[i] \in Notification
      <4>1. \A n \in Notification : [n EXCEPT !.read = TRUE, !.readAt = calls'] \in Notification
        BY <2>1 DEF Notification
      <4>. QED  BY <1>e, <3>1, <4>1
    <3>3. DOMAIN inbox = 1..Len(inbox) /\ Len(inbox) \in Nat
      BY <1>a
    <3>4. inbox' \in [1..Len(inbox) -> Notification]
      BY <3>1, <3>2, <3>3
    <3>. QED  BY <3>3, <3>4, SeqDef
  <2>3. UNCHANGED <<member, token, announced, job, moves>>
    BY <1>11 DEF MarkAllRead
  <2>. QED  BY <2>1, <2>2, <2>3 DEF TypeOK, Stamp
<1>12. ASSUME NEW w \in Worker, NEW u \in User, NEW t \in FcmToken, Register(w, u, t)
       PROVE  TypeOK'
  <2>1. [op |-> "register", at |-> "find", user |-> u, company |-> member[u],
         token |-> t] \in Registration
    BY <1>12, <1>a DEF Register, Registration
  <2>. QED  BY <1>12, <1>a, <1>b, <2>1 DEF Register, JobOK
<1>13. ASSUME NEW w \in Worker, FindToken(w) PROVE TypeOK'
  <2>1. job[w] \in Registration /\ UNCHANGED <<inbox, member, announced, calls, moves>>
    BY <1>13, InCall DEF FindToken, Frame
  <2>2. CASE Holding(job[w].token) = {}
    <3>1. [job[w] EXCEPT !.at = "clean"] \in Registration
      BY <2>1 DEF Registration
    <3>. QED  BY <1>13, <1>c, <2>1, <2>2, <3>1 DEF FindToken, JobOK, RowFrame, Frame
  <2>3. CASE Holding(job[w].token) # {}
    <3>1. PICK i \in Holding(job[w].token) : token' = [token EXCEPT ![i] = Registered(job[w])]
      BY <1>13, <2>3 DEF FindToken
    <3>2. Registered(job[w]) \in DeviceToken /\ i \in DOMAIN token
      BY <2>1, <3>1 DEF Registered, Registration, DeviceToken, Holding
    <3>3. token' \in Seq(DeviceToken) /\ DOMAIN token' = DOMAIN token
      BY <3>1, <3>2, TokenChanged
    <3>. QED  BY <1>13, <1>a, <2>1, <2>3, <3>3, TypeOfStep DEF FindToken, Answer, JobOK
  <2>. QED  BY <2>2, <2>3
<1>14. ASSUME NEW w \in Worker, CleanToken(w) PROVE TypeOK'
  <2>1. job[w] \in Registration
    BY <1>14, InCall DEF CleanToken
  <2>2. [job[w] EXCEPT !.at = "save"] \in Registration
    BY <2>1 DEF Registration
  <2>. QED  BY <1>14, <1>c, <1>d, <2>2 DEF CleanToken, JobOK
<1>15. ASSUME NEW w \in Worker, InsertToken(w) PROVE TypeOK'
  <2>1. job[w] \in Registration
    BY <1>15, InCall DEF InsertToken
  <2>. DEFINE phone == Registered(job[w])
  <2>2. phone \in DeviceToken
    BY <2>1 DEF Registered, Registration, DeviceToken
  <2>3. token' = token \/ token' = Append(token, phone)
    BY <1>15 DEF InsertToken
  <2>4. token' \in Seq(DeviceToken) /\ DOMAIN token \subseteq DOMAIN token'
    <3>. HIDE DEF phone
    <3>1. CASE token' = token  BY <1>a, <3>1
    <3>2. CASE token' = Append(token, phone)
      BY <1>a, <2>2, <3>2, AppendProperties
    <3>. QED  BY <2>3, <3>1, <3>2
  <2>. QED  BY <1>15, <1>a, <2>4, TypeOfStep DEF InsertToken, Answer, Frame, JobOK
<1>16. ASSUME NEW w \in Worker, NEW op \in {"update", "deactivate"}, NEW u \in User,
              NEW i \in DOMAIN token, NEW t \in FcmToken, ChangeToken(w, op, u, i, t)
       PROVE  TypeOK'
  <2>1. i \in Nat \ {0}
    BY <1>a
  <2>2. [op |-> op, at |-> "write", user |-> u, company |-> member[u],
         token |-> t, row |-> i] \in Change
    BY <1>16, <1>a, <2>1 DEF ChangeToken, Change
  <2>. QED  BY <1>16, <1>a, <1>b, <2>2 DEF ChangeToken, JobOK
<1>17. ASSUME NEW w \in Worker, UpdateToken(w) \/ Deactivate(w) PROVE TypeOK'
  <2>1. job[w] \in Change /\ job[w].row \in DOMAIN token
    BY <1>17, InCall DEF UpdateToken, Deactivate
  <2>. DEFINE phone == token[job[w].row]
  <2>2. \/ token' = token
        \/ token' = [token EXCEPT ![job[w].row] = [phone EXCEPT !.token = job[w].token,
                                                                !.active = TRUE]]
        \/ token' = [token EXCEPT ![job[w].row] = [phone EXCEPT !.active = FALSE]]
    BY <1>17, <1>a, <2>1 DEF UpdateToken, Deactivate
  <2>3. /\ [phone EXCEPT !.token = job[w].token, !.active = TRUE] \in DeviceToken
        /\ [phone EXCEPT !.active = FALSE] \in DeviceToken
    BY <1>e, <2>1 DEF DeviceToken, Change
  <2>4. token' \in Seq(DeviceToken) /\ DOMAIN token' = DOMAIN token
    BY <1>a, <2>1, <2>2, <2>3, TokenChanged
  <2>. QED  BY <1>17, <1>a, <2>4, TypeOfStep DEF UpdateToken, Deactivate, Answer, Frame, JobOK
<1>18. ASSUME NEW u \in User, NEW c \in Company \cup {None}, MoveMember(u, c) PROVE TypeOK'
  BY <1>18, NotificationsAssumption DEF MoveMember, TypeOK
<1>19. CASE UNCHANGED vars
  BY <1>19 DEF vars, TypeOK
<1>20. ASSUME NEW i \in DOMAIN token PROVE token[i].token \in FcmToken
  BY <1>e, <1>20 DEF DeviceToken
<1>. QED  BY <1>1, <1>2, <1>3, <1>4, <1>5, <1>6, <1>7, <1>8, <1>9, <1>10, <1>11, <1>12, <1>13,
             <1>14, <1>15, <1>16, <1>17, <1>18, <1>19, <1>20 DEF Next, Call, Proceed

-----------------------------------------------------------------------------
(* What a step does to the rows and the announcements.                     *)

(* The rows of the inboxes, without whether they were read.                *)
Kept ==
  /\ DOMAIN inbox' = DOMAIN inbox
  /\ \A i \in DOMAIN inbox : /\ inbox'[i].company = inbox[i].company
                             /\ inbox'[i].recipient = inbox[i].recipient
                             /\ inbox'[i].key = inbox[i].key

LEMMA KeptRows ==
  ASSUME Kept, NEW c, NEW u, NEW k
  PROVE  Rows(c, u, k)' = Rows(c, u, k)
BY DEF Kept, Rows

Pushing == {"tokens", "push", "drop"}

(* No announcement starts or goes on.                                      *)
Quiet ==
  /\ Kept /\ UNCHANGED announced
  /\ \A w \in Worker : Announcing(w)' => Announcing(w) /\ job'[w] = job[w]

LEMMA QuietSteps ==
  ASSUME Quiet, OneRowPerEvent, DoneWithRow, OneAnnouncement
  PROVE  OneRowPerEvent' /\ DoneWithRow' /\ OneAnnouncement'
<1>1. \A c, u, k : Rows(c, u, k)' = Rows(c, u, k)
  BY KeptRows DEF Quiet
<1>2. \A w \in Worker : Announcing(w)' =>
        Announcing(w) /\ job'[w] = job[w] /\ Recipient(w)' = Recipient(w)
  BY DEF Quiet, Recipient
<1>3. OneRowPerEvent'
  BY <1>1 DEF OneRowPerEvent, Quiet, Kept
<1>4. DoneWithRow'
  BY <1>1, <1>2 DEF DoneWithRow
<1>5. OneAnnouncement'
  BY <1>2 DEF OneAnnouncement, Quiet, Kept
<1>. QED BY <1>3, <1>4, <1>5

(* An announcement of w goes on to j, and no row comes or goes.            *)
Going(w, j) ==
  /\ Kept /\ UNCHANGED announced
  /\ Announcing(w) /\ j.op = "announce" /\ job'[w] = j
  /\ \A v \in Worker \ {w} : job'[v] = job[v]
  /\ j.company = job[w].company /\ j.key = job[w].key /\ j.to = job[w].to

(* It goes on with the same recipient.                                     *)
LEMMA AdvanceSteps ==
  ASSUME NEW w \in Worker, NEW j, Going(w, j),
         j.due = job[w].due, j.skipped = job[w].skipped,
         j.at \in Pushing <=> job[w].at \in Pushing,
         OneRowPerEvent, DoneWithRow, OneAnnouncement
  PROVE  OneRowPerEvent' /\ DoneWithRow' /\ OneAnnouncement'
<1>1. \A c, u, k : Rows(c, u, k)' = Rows(c, u, k)
  BY KeptRows DEF Going
<1>2. \A v \in Worker : Announcing(v)' =>
        /\ Announcing(v) /\ Recipient(v)' = Recipient(v)
        /\ job'[v].company = job[v].company /\ job'[v].key = job[v].key
        /\ job'[v].to = job[v].to /\ job'[v].due = job[v].due
        /\ job'[v].skipped = job[v].skipped
        /\ job'[v].at \in Pushing <=> job[v].at \in Pushing
  BY DEF Going, Recipient, Announcing
<1>3. OneRowPerEvent'
  BY <1>1 DEF OneRowPerEvent, Going, Kept
<1>4. DoneWithRow'
  BY <1>1, <1>2 DEF DoneWithRow, Pushing
<1>5. OneAnnouncement'
  BY <1>2 DEF OneAnnouncement, Going, Kept, Pushing
<1>. QED BY <1>3, <1>4, <1>5

(* It goes on to the next one: the last one has the row, or is skipped.    *)
LEMMA NextRecipientSteps ==
  ASSUME NEW w \in Worker, NEW j, Going(w, j), job[w].due # {},
         j.due = job[w].due \ {Recipient(w)}, j.at = "lookup",
         job[w].skipped \subseteq j.skipped,
         \/ Rows(job[w].company, Recipient(w), job[w].key) # {}
         \/ Recipient(w) \in j.skipped,
         OneRowPerEvent, DoneWithRow, OneAnnouncement
  PROVE  OneRowPerEvent' /\ DoneWithRow' /\ OneAnnouncement'
<1>1. \A c, u, k : Rows(c, u, k)' = Rows(c, u, k)
  BY KeptRows DEF Going
<1>2. \A v \in Worker \ {w} :
        job'[v] = job[v] /\ Recipient(v)' = Recipient(v) /\ Announcing(v)' = Announcing(v)
  BY DEF Going, Recipient, Announcing
<1>3. OneRowPerEvent'
  BY <1>1 DEF OneRowPerEvent, Going, Kept
<1>4. DoneWithRow'
  <2>1. ASSUME NEW v \in Worker \ {w}, Announcing(v)'
        PROVE  /\ \A u \in job'[v].to \ (job'[v].due \cup job'[v].skipped) :
                    Rows(job[v].company, u, job[v].key)' # {}
               /\ job'[v].at \in Pushing =>
                    Rows(job[v].company, Recipient(v), job[v].key)' # {}
    BY <1>1, <1>2, <2>1 DEF DoneWithRow, Pushing
  <2>2. \A u \in j.to \ (j.due \cup j.skipped) : Rows(job[w].company, u, job[w].key) # {}
    BY DEF DoneWithRow, Going
  <2>3. j.at \notin Pushing
    BY DEF Pushing
  <2>4. job'[w] = j /\ j.company = job[w].company /\ j.key = job[w].key
    BY DEF Going
  <2>. QED  BY <1>1, <1>2, <2>1, <2>2, <2>3, <2>4 DEF DoneWithRow, Pushing
<1>5. OneAnnouncement'
  <2>1. /\ job'[w] = j /\ j.key = job[w].key /\ j.to = job[w].to /\ Announcing(w)
        /\ announced' = announced /\ Kept
    BY DEF Going
  <2>2. \A i \in DOMAIN inbox : job[w].key \in LeaveKey =>
          ~(inbox[i].key = job[w].key /\ inbox[i].recipient \in j.due)
    BY <2>1 DEF OneAnnouncement
  <2>3. \A v \in Worker : Announcing(v)' => Announcing(v) /\ job'[v].key = job[v].key
                                            /\ job'[v].to = job[v].to
    BY <1>2, <2>1
  <2>4. \A i \in DOMAIN inbox' : inbox'[i].key \in LeaveKey => inbox'[i].key \in announced'
    BY <2>1 DEF OneAnnouncement, Kept
  <2>5. ASSUME NEW v \in Worker, Announcing(v)', job'[v].key \in LeaveKey
        PROVE  /\ job'[v].key \in announced'
               /\ \A x \in Worker \ {v} : Announcing(x)' => job'[x].key # job'[v].key
               /\ \A i \in DOMAIN inbox' :
                    inbox'[i].key = job'[v].key /\ inbox'[i].recipient \in job'[v].due =>
                      /\ job'[v].at \in {"tokens", "push", "drop"}
                      /\ inbox'[i].recipient = Recipient(v)'
    <3>1. /\ job'[v].key \in announced'
          /\ \A x \in Worker \ {v} : Announcing(x)' => job'[x].key # job'[v].key
      BY <2>1, <2>3, <2>5 DEF OneAnnouncement
    <3>2. CASE v = w
      BY <3>1, <3>2, <2>1, <2>2, <2>3, <2>5 DEF Kept
    <3>3. CASE v # w
      BY <3>1, <3>3, <1>2, <2>1, <2>5 DEF Kept, OneAnnouncement
    <3>. QED  BY <3>2, <3>3
  <2>6. ASSUME NEW v \in Worker, Announcing(v)', job'[v].key \notin LeaveKey
        PROVE  \A u, x \in job'[v].to : u = x
    BY <2>3, <2>6 DEF OneAnnouncement
  <2>. QED  BY <2>4, <2>5, <2>6 DEF OneAnnouncement
<1>. QED BY <1>3, <1>4, <1>5

(* The recipient gets the row, and the announcement goes on to push it.    *)
LEMMA InsertSteps ==
  ASSUME TypeOK, NEW w \in Worker, At(w, "announce", "save"), KeyFree(w), Save(w),
         OneRowPerEvent, DoneWithRow, OneAnnouncement
  PROVE  OneRowPerEvent' /\ DoneWithRow' /\ OneAnnouncement'
<1>. DEFINE row == [company |-> job[w].company, recipient |-> Recipient(w),
                    key |-> job[w].key, read |-> FALSE, readAt |-> 0]
            n == Len(inbox) + 1
            j == [job[w] EXCEPT !.at = "tokens"]
<1>1. /\ job[w] \in Announcement /\ Recipient(w) \in job[w].due /\ Announcing(w)
      /\ job[w].at = "save" /\ announced' = announced
      /\ inbox' = Append(inbox, row) /\ job' = [job EXCEPT ![w] = j]
      /\ job = [v \in Worker |-> job[v]]
  BY InCall DEF Save, Frame, Step, TypeOK
<1>2. row \in Notification
  BY <1>1, NotificationsAssumption DEF Announcement, Notification, Stamp
<1>3. row.company = job[w].company /\ row.recipient = Recipient(w) /\ row.key = job[w].key
  OBVIOUS
<1>4. /\ j.op = "announce" /\ j.at = "tokens" /\ j.company = job[w].company
      /\ j.key = job[w].key /\ j.to = job[w].to /\ j.due = job[w].due
      /\ j.skipped = job[w].skipped /\ j \in Announcement
  BY <1>1 DEF Announcement
<1>. HIDE DEF row, j
<1>5. /\ DOMAIN inbox' = DOMAIN inbox \cup {n} /\ n \notin DOMAIN inbox
      /\ inbox'[n] = row /\ \A i \in DOMAIN inbox : inbox'[i] = inbox[i]
  <2>1. inbox \in Seq(Notification)
    BY DEF TypeOK
  <2>. QED  BY <1>1, <1>2, <2>1, AppendProperties
<1>6. /\ job'[w] = j /\ \A v \in Worker \ {w} : job'[v] = job[v]
      /\ \A v \in Worker : Announcing(v)' <=> Announcing(v)
  BY <1>1, <1>4, JobsAreNotNone DEF Announcing
<1>7. \A v \in Worker : /\ Recipient(v)' = Recipient(v) /\ job'[v].company = job[v].company
                        /\ job'[v].key = job[v].key /\ job'[v].to = job[v].to
                        /\ job'[v].due = job[v].due /\ job'[v].skipped = job[v].skipped
  BY <1>4, <1>6 DEF Recipient
<1>8. /\ \A c, u, k : Rows(c, u, k)' = Rows(c, u, k)
           \cup (IF row.company = c /\ row.recipient = u /\ row.key = k THEN {n} ELSE {})
      /\ Rows(row.company, row.recipient, row.key) = {}
  BY <1>3, <1>5 DEF Rows, KeyFree
<1>9. OneRowPerEvent'
  <2>1. \A c, u, k : c = row.company /\ u = row.recipient /\ k = row.key => Rows(c, u, k)' = {n}
    BY <1>8
  <2>2. \A i \in DOMAIN inbox : ~(inbox[i].company = row.company
                                  /\ inbox[i].recipient = row.recipient /\ inbox[i].key = row.key)
    BY <1>8 DEF Rows
  <2>3. \A i \in DOMAIN inbox : \A c, u, k :
          c = inbox[i].company /\ u = inbox[i].recipient /\ k = inbox[i].key =>
            Rows(c, u, k)' = {i}
    BY <1>8, <2>2 DEF OneRowPerEvent
  <2>4. \A i \in DOMAIN inbox' :
          Rows(inbox[i].company, inbox[i].recipient, inbox[i].key)' = {i}
    BY <1>5, <2>1, <2>3
  <2>. QED  BY <2>4 DEF OneRowPerEvent
<1>10. DoneWithRow'
  <2>1. \A v \in Worker : Announcing(v) =>
          \A u \in job[v].to \ (job[v].due \cup job[v].skipped) :
            Rows(job[v].company, u, job[v].key)' # {}
    BY <1>7, <1>8 DEF DoneWithRow
  <2>2. ASSUME NEW v \in Worker, Announcing(v), job'[v].at \in Pushing
        PROVE  Rows(job[v].company, Recipient(v), job[v].key)' # {}
    <3>1. CASE v = w
      BY <1>3, <1>7, <1>8, <3>1
    <3>2. CASE v # w
      BY <1>6, <1>7, <1>8, <2>2, <3>2 DEF DoneWithRow, Pushing
    <3>. QED  BY <3>1, <3>2
  <2>. QED  BY <1>6, <1>7, <2>1, <2>2 DEF DoneWithRow, Pushing
<1>11. OneAnnouncement'
  <2>1. \A v \in Worker : Announcing(v) /\ job[v].key \in LeaveKey =>
          /\ job[v].key \in announced
          /\ \A x \in Worker \ {v} : Announcing(x) => job[x].key # job[v].key
    BY DEF OneAnnouncement
  <2>2. \A i \in DOMAIN inbox' : inbox'[i].key \in LeaveKey => inbox'[i].key \in announced'
    BY <1>1, <1>3, <1>5, <2>1 DEF OneAnnouncement
  <2>3. ASSUME NEW v \in Worker, Announcing(v), job[v].key \in LeaveKey,
               NEW i \in DOMAIN inbox', inbox'[i].key = job[v].key,
               inbox'[i].recipient \in job[v].due
        PROVE  job'[v].at \in {"tokens", "push", "drop"} /\ inbox'[i].recipient = Recipient(v)
    <3>1. CASE i = n
      <4>1. v = w
        BY <1>1, <1>3, <1>5, <2>1, <2>3, <3>1
      <4>. QED  BY <1>3, <1>4, <1>5, <1>6, <3>1, <4>1
    <3>2. CASE i # n
      <4>1. i \in DOMAIN inbox /\ inbox[i].key = job[v].key /\ inbox[i].recipient \in job[v].due
        BY <1>5, <2>3, <3>2
      <4>2. job[v].at \in {"tokens", "push", "drop"} /\ inbox[i].recipient = Recipient(v)
        BY <2>3, <4>1 DEF OneAnnouncement
      <4>3. v # w
        BY <1>1, <4>2
      <4>. QED  BY <1>5, <1>6, <4>1, <4>2, <4>3
    <3>. QED  BY <3>1, <3>2
  <2>4. \A v \in Worker : Announcing(v) /\ job[v].key \notin LeaveKey =>
          \A u, x \in job[v].to : u = x
    BY DEF OneAnnouncement
  <2>. QED  BY <1>1, <1>6, <1>7, <2>1, <2>2, <2>3, <2>4 DEF OneAnnouncement
<1>. QED BY <1>9, <1>10, <1>11

(* An announcement starts: of a leave event, it is the first; of another   *)
(* event, it is for one employee.                                          *)
LEMMA StartSteps ==
  ASSUME NEW w \in Worker, NEW company, NEW key, NEW due, job[w] = None, Kept,
         job'[w] = NewAnnouncement(company, key, due),
         \A v \in Worker \ {w} : job'[v] = job[v],
         announced \subseteq announced',
         IF key \in LeaveKey THEN key \notin announced /\ key \in announced'
         ELSE \A u, v \in due : u = v,
         OneRowPerEvent, DoneWithRow, OneAnnouncement
  PROVE  OneRowPerEvent' /\ DoneWithRow' /\ OneAnnouncement'
<1>1. \A c, u, k : Rows(c, u, k)' = Rows(c, u, k)
  BY KeptRows
<1>2. /\ job'[w].company = company /\ job'[w].key = key /\ job'[w].to = due
      /\ job'[w].due = due /\ job'[w].at = "lookup"
  BY DEF NewAnnouncement
<1>3. \A v \in Worker \ {w} :
        job'[v] = job[v] /\ Recipient(v)' = Recipient(v) /\ Announcing(v)' = Announcing(v)
  BY DEF Recipient, Announcing
<1>4. ~Announcing(w)
  BY DEF Announcing
<1>5. OneRowPerEvent'
  BY <1>1 DEF OneRowPerEvent, Kept
<1>6. DoneWithRow'
  BY <1>1, <1>2, <1>3 DEF DoneWithRow
<1>7. OneAnnouncement'
  <2>1. \A i \in DOMAIN inbox' : inbox'[i].key \in LeaveKey => inbox'[i].key \in announced'
    BY DEF OneAnnouncement, Kept
  <2>2. ASSUME key \in LeaveKey
        PROVE  /\ \A i \in DOMAIN inbox' : inbox'[i].key # key
               /\ \A v \in Worker : Announcing(v) => job[v].key # key
    BY <2>2 DEF OneAnnouncement, Kept
  <2>3. ASSUME NEW v \in Worker, Announcing(v)', job'[v].key \in LeaveKey
        PROVE  /\ job'[v].key \in announced'
               /\ \A x \in Worker \ {v} : Announcing(x)' => job'[x].key # job'[v].key
               /\ \A i \in DOMAIN inbox' :
                    inbox'[i].key = job'[v].key /\ inbox'[i].recipient \in job'[v].due =>
                      /\ job'[v].at \in {"tokens", "push", "drop"}
                      /\ inbox'[i].recipient = Recipient(v)'
    <3>1. CASE v = w
      BY <1>2, <1>3, <2>2, <2>3, <3>1
    <3>2. CASE v # w
      BY <1>2, <1>3, <2>2, <2>3, <3>2 DEF OneAnnouncement, Kept
    <3>. QED  BY <3>1, <3>2
  <2>4. ASSUME NEW v \in Worker, Announcing(v)', job'[v].key \notin LeaveKey
        PROVE  \A u, x \in job'[v].to : u = x
    BY <1>2, <1>3, <2>4 DEF OneAnnouncement
  <2>. QED  BY <2>1, <2>3, <2>4 DEF OneAnnouncement
<1>. QED BY <1>5, <1>6, <1>7

-----------------------------------------------------------------------------
(* The rows and the announcements, action by action.                       *)

(* A step of a worker that ends its call, or has nothing to announce.      *)
LEMMA OtherCalls ==
  ASSUME TypeOK, NEW w \in Worker, NEW j, job' = [job EXCEPT ![w] = j],
         j = None \/ j.op # "announce", Kept, UNCHANGED announced
  PROVE  Quiet
<1>1. /\ job'[w] = j \/ job' = job
      /\ \A v \in Worker \ {w} : job'[v] = job[v]
  BY DEF TypeOK
<1>2. \A v \in Worker : Announcing(v)' => Announcing(v) /\ job'[v] = job[v]
  BY <1>1 DEF Announcing
<1>. QED BY <1>2 DEF Quiet

(* A step of an announcement that leaves the rows alone.                   *)
LEMMA GoingOn ==
  ASSUME TypeOK, NEW w \in Worker, NEW j, Step(w, j), Announcing(w),
         j.op = "announce", UNCHANGED <<inbox, announced>>,
         j.company = job[w].company, j.key = job[w].key, j.to = job[w].to
  PROVE  Going(w, j)
<1>1. job = [v \in Worker |-> job[v]]
  BY DEF TypeOK
<1>. QED BY <1>1 DEF Going, Kept, Step

LEMMA AnnouncementStep ==
  TypeOK /\ OneRowPerEvent /\ DoneWithRow /\ OneAnnouncement /\ [Next]_vars
    => OneRowPerEvent' /\ DoneWithRow' /\ OneAnnouncement'
<1>. SUFFICES ASSUME TypeOK, OneRowPerEvent, DoneWithRow, OneAnnouncement, [Next]_vars
              PROVE  OneRowPerEvent' /\ DoneWithRow' /\ OneAnnouncement'
  OBVIOUS
<1>a. job = [w \in Worker |-> job[w]]
  BY DEF TypeOK
<1>b. inbox' = inbox => Kept
  BY DEF Kept
<1>c. ASSUME NEW w \in Worker, NEW j, job' = [job EXCEPT ![w] = j],
             j = None \/ j.op # "announce", Kept, UNCHANGED announced
      PROVE  OneRowPerEvent' /\ DoneWithRow' /\ OneAnnouncement'
  BY <1>c, OtherCalls, QuietSteps
<1>1. ASSUME NEW w \in Worker, NEW e \in LeaveEvent, NEW r \in LeaveRequest,
             NEW a \in User, AnnounceLeave(w, e, r, a)
      PROVE  OneRowPerEvent' /\ DoneWithRow' /\ OneAnnouncement'
  <2>1. PICK company, due : Serve(w, NewAnnouncement(company, <<e, r>>, due))
    BY <1>1 DEF AnnounceLeave
  <2>2. /\ job[w] = None /\ job'[w] = NewAnnouncement(company, <<e, r>>, due)
        /\ \A v \in Worker \ {w} : job'[v] = job[v]
        /\ inbox' = inbox
    BY <1>a, <2>1 DEF Serve, Step
  <2>3. /\ <<e, r>> \in LeaveKey /\ <<e, r>> \notin announced /\ <<e, r>> \in announced'
        /\ announced \subseteq announced'
    BY <1>1 DEF AnnounceLeave, LeaveKey
  <2>. QED  BY <1>b, <2>2, <2>3, StartSteps
<1>2. ASSUME NEW w \in Worker, NEW e \in DeviceEvent, NEW d \in Device,
             NEW u \in User, NEW a \in User, AnnounceDevice(w, e, d, u, a)
      PROVE  OneRowPerEvent' /\ DoneWithRow' /\ OneAnnouncement'
  <2>1. Serve(w, NewAnnouncement(EmployerOf[u], <<e, d, u>>, {u} \ {a}))
        /\ announced' = announced
    BY <1>2 DEF AnnounceDevice
  <2>2. /\ job[w] = None /\ job'[w] = NewAnnouncement(EmployerOf[u], <<e, d, u>>, {u} \ {a})
        /\ \A v \in Worker \ {w} : job'[v] = job[v]
        /\ inbox' = inbox
    BY <1>a, <2>1 DEF Serve, Step
  <2>3. <<e, d, u>> \notin LeaveKey
    BY DEF LeaveKey, LeaveEvent, DeviceEvent
  <2>. QED  BY <1>b, <2>1, <2>2, <2>3, StartSteps
<1>3. ASSUME NEW w \in Worker, LookUp(w)
      PROVE  OneRowPerEvent' /\ DoneWithRow' /\ OneAnnouncement'
  <2>1. /\ job[w] \in Announcement /\ job[w].at = "lookup" /\ Announcing(w)
        /\ job[w].op = "announce" /\ UNCHANGED <<inbox, announced>>
    BY <1>3, InCall DEF LookUp, RowFrame, Frame
  <2>2. CASE job[w].due = {}
    BY <1>3, <1>b, <1>c, <2>1, <2>2 DEF LookUp, Answer
  <2>3. CASE job[w].due # {}
    <3>1. Recipient(w) \in job[w].due
      BY <2>3, RecipientDue
    <3>2. /\ Told(w) \in Announcement /\ Told(w).at = "lookup"
          /\ Told(w).due = job[w].due \ {Recipient(w)}
          /\ Told(w).to = job[w].to /\ Told(w).skipped = job[w].skipped
          /\ Told(w).company = job[w].company /\ Told(w).key = job[w].key
          /\ Told(w).op = "announce"
      BY <2>1, <3>1, ToldType
    <3>3. CASE Step(w, [Told(w) EXCEPT !.skipped = @ \cup {Recipient(w)}])
      <4>. DEFINE j == [Told(w) EXCEPT !.skipped = @ \cup {Recipient(w)}]
      <4>1. /\ j.due = Told(w).due /\ j.to = Told(w).to /\ j.at = "lookup"
            /\ j.skipped = Told(w).skipped \cup {Recipient(w)} /\ j.op = "announce"
            /\ j.company = Told(w).company /\ j.key = Told(w).key
        BY <3>2 DEF Announcement
      <4>. HIDE DEF j
      <4>2. Going(w, j)
        BY <2>1, <3>2, <3>3, <4>1, GoingOn DEF j
      <4>. QED  BY <2>3, <3>1, <3>2, <4>1, <4>2, NextRecipientSteps
    <3>4. CASE Rows(job[w].company, Recipient(w), job[w].key) # {} /\ Step(w, Told(w))
      <4>1. Going(w, Told(w))
        BY <2>1, <3>2, <3>4, GoingOn
      <4>. QED  BY <2>3, <3>1, <3>2, <3>4, <4>1, NextRecipientSteps
    <3>5. CASE Step(w, [job[w] EXCEPT !.at = "clean"])
      <4>. DEFINE j == [job[w] EXCEPT !.at = "clean"]
      <4>1. /\ j.due = job[w].due /\ j.to = job[w].to /\ j.at = "clean"
            /\ j.skipped = job[w].skipped /\ j.op = "announce"
            /\ j.company = job[w].company /\ j.key = job[w].key
        BY <2>1 DEF Announcement
      <4>. HIDE DEF j
      <4>2. Going(w, j)
        BY <2>1, <3>5, <4>1, GoingOn DEF j
      <4>. QED  BY <2>1, <4>1, <4>2, AdvanceSteps DEF Pushing
    <3>. QED  BY <1>3, <2>3, <3>3, <3>4, <3>5 DEF LookUp
  <2>. QED  BY <2>2, <2>3
<1>4. ASSUME NEW w \in Worker, Clean(w)
      PROVE  OneRowPerEvent' /\ DoneWithRow' /\ OneAnnouncement'
  <2>1. /\ job[w] \in Announcement /\ job[w].at = "clean" /\ Announcing(w)
        /\ job[w].op = "announce" /\ UNCHANGED <<inbox, announced>>
    BY <1>4, InCall DEF Clean, RowFrame, Frame
  <2>. DEFINE j == [job[w] EXCEPT !.at = "save"]
  <2>2. /\ j.due = job[w].due /\ j.to = job[w].to /\ j.at = "save"
        /\ j.skipped = job[w].skipped /\ j.op = "announce"
        /\ j.company = job[w].company /\ j.key = job[w].key
    BY <2>1 DEF Announcement
  <2>3. Answer(w) \/ Step(w, j)
    BY <1>4 DEF Clean
  <2>. HIDE DEF j
  <2>4. CASE Step(w, j)
    <3>1. Going(w, j)
      BY <2>1, <2>2, <2>4, GoingOn
    <3>. QED  BY <2>1, <2>2, <3>1, AdvanceSteps DEF Pushing
  <2>5. CASE Answer(w)
    BY <1>b, <1>c, <2>1, <2>5 DEF Answer
  <2>. QED  BY <2>3, <2>4, <2>5
<1>5. ASSUME NEW w \in Worker, Save(w)
      PROVE  OneRowPerEvent' /\ DoneWithRow' /\ OneAnnouncement'
  <2>1. At(w, "announce", "save")
    BY <1>5 DEF Save
  <2>2. CASE KeyFree(w)
    BY <1>5, <2>1, <2>2, InsertSteps
  <2>3. CASE ~KeyFree(w)
    <3>1. /\ Announcing(w) /\ Recipient(w) \in job[w].due
          /\ Rows(job[w].company, Recipient(w), job[w].key) # {}
          /\ Step(w, Told(w)) /\ UNCHANGED <<inbox, announced>>
      BY <1>5, <2>1, <2>3, InCall DEF Save, Frame, KeyFree
    <3>2. Going(w, Told(w))
      BY <3>1, ToldType, GoingOn
    <3>. QED  BY <3>1, <3>2, ToldType, NextRecipientSteps
  <2>. QED  BY <2>2, <2>3
<1>6. ASSUME NEW w \in Worker, ReadTokens(w)
      PROVE  OneRowPerEvent' /\ DoneWithRow' /\ OneAnnouncement'
  <2>1. /\ job[w] \in Announcement /\ job[w].at = "tokens" /\ Announcing(w)
        /\ UNCHANGED <<inbox, announced>>
    BY <1>6, InCall DEF ReadTokens, RowFrame, Frame
  <2>2. PICK own : Step(w, [job[w] EXCEPT !.at = "push", !.targets = own])
    BY <1>6 DEF ReadTokens
  <2>. DEFINE j == [job[w] EXCEPT !.at = "push", !.targets = own]
  <2>3. /\ j.due = job[w].due /\ j.to = job[w].to /\ j.at = "push"
        /\ j.skipped = job[w].skipped /\ j.op = "announce"
        /\ j.company = job[w].company /\ j.key = job[w].key
    BY <2>1 DEF Announcement
  <2>. HIDE DEF j
  <2>4. Going(w, j)
    BY <2>1, <2>2, <2>3, GoingOn DEF j
  <2>. QED  BY <2>1, <2>3, <2>4, AdvanceSteps DEF Pushing
<1>7. ASSUME NEW w \in Worker, Push(w) \/ DropToken(w)
      PROVE  OneRowPerEvent' /\ DoneWithRow' /\ OneAnnouncement'
  <2>1. /\ job[w] \in Announcement /\ job[w].at \in {"push", "drop"} /\ Announcing(w)
        /\ Recipient(w) \in job[w].due /\ UNCHANGED <<inbox, announced>>
    <3>1. At(w, "announce", "push") \/ At(w, "announce", "drop")
      BY <1>7 DEF Push, DropToken
    <3>2. UNCHANGED <<inbox, announced>>
      BY <1>7 DEF Push, DropToken, RowFrame, Frame
    <3>. QED  BY <3>1, <3>2, InCall
  <2>2. CASE Step(w, Told(w))
    <3>1. Going(w, Told(w))
      BY <2>1, <2>2, ToldType, GoingOn
    <3>2. Rows(job[w].company, Recipient(w), job[w].key) # {}
      BY <2>1 DEF DoneWithRow
    <3>. QED  BY <2>1, <3>1, <3>2, ToldType, NextRecipientSteps
  <2>3. ASSUME NEW j, Step(w, j), j.due = job[w].due, j.to = job[w].to,
               j.at \in {"push", "drop"}, j.skipped = job[w].skipped, j.op = "announce",
               j.company = job[w].company, j.key = job[w].key
        PROVE  OneRowPerEvent' /\ DoneWithRow' /\ OneAnnouncement'
    <3>1. Going(w, j)
      BY <2>1, <2>3, GoingOn
    <3>. QED  BY <2>1, <2>3, <3>1, AdvanceSteps DEF Pushing
  <2>4. ASSUME NEW t, Step(w, [job[w] EXCEPT !.targets = t])
        PROVE  OneRowPerEvent' /\ DoneWithRow' /\ OneAnnouncement'
    <3>. DEFINE j == [job[w] EXCEPT !.targets = t]
    <3>1. /\ j.due = job[w].due /\ j.to = job[w].to /\ j.at = job[w].at
          /\ j.skipped = job[w].skipped /\ j.op = "announce"
          /\ j.company = job[w].company /\ j.key = job[w].key
      BY <2>1 DEF Announcement
    <3>. HIDE DEF j
    <3>. QED  BY <2>1, <2>3, <2>4, <3>1 DEF j
  <2>5. ASSUME NEW t, NEW i,
               Step(w, [job[w] EXCEPT !.at = "drop", !.targets = t, !.reported = i])
        PROVE  OneRowPerEvent' /\ DoneWithRow' /\ OneAnnouncement'
    <3>. DEFINE j == [job[w] EXCEPT !.at = "drop", !.targets = t, !.reported = i]
    <3>1. /\ j.due = job[w].due /\ j.to = job[w].to /\ j.at = "drop"
          /\ j.skipped = job[w].skipped /\ j.op = "announce"
          /\ j.company = job[w].company /\ j.key = job[w].key
      BY <2>1 DEF Announcement
    <3>. HIDE DEF j
    <3>. QED  BY <2>1, <2>3, <2>5, <3>1 DEF j
  <2>6. ASSUME DropToken(w) PROVE OneRowPerEvent' /\ DoneWithRow' /\ OneAnnouncement'
    <3>. DEFINE j == [job[w] EXCEPT !.at = "push", !.reported = 0]
    <3>1. /\ j.due = job[w].due /\ j.to = job[w].to /\ j.at = "push"
          /\ j.skipped = job[w].skipped /\ j.op = "announce"
          /\ j.company = job[w].company /\ j.key = job[w].key
      BY <2>1 DEF Announcement
    <3>2. Step(w, j)
      BY <2>6 DEF DropToken
    <3>. HIDE DEF j
    <3>. QED  BY <2>1, <2>3, <3>1, <3>2
  <2>7. CASE Push(w)
    <3>1. \/ Step(w, Told(w))
          \/ \E i : Step(w, [job[w] EXCEPT !.targets = job[w].targets \ {i}])
          \/ \E i : Step(w, [job[w] EXCEPT !.at = "drop", !.targets = job[w].targets \ {i},
                                           !.reported = i])
      BY <2>7 DEF Push, AfterFailure
    <3>. QED  BY <2>2, <2>4, <2>5, <3>1
  <2>. QED  BY <1>7, <2>6, <2>7
<1>8. ASSUME NEW w \in Worker, NEW u \in User, NEW i \in DOMAIN inbox, MarkRead(w, u, i)
      PROVE  OneRowPerEvent' /\ DoneWithRow' /\ OneAnnouncement'
  BY <1>8, <1>b, <1>c DEF MarkRead, Serve, Step
<1>9. ASSUME NEW w \in Worker, WriteRead(w)
      PROVE  OneRowPerEvent' /\ DoneWithRow' /\ OneAnnouncement'
  <2>1. job[w].row \in DOMAIN inbox /\ \A i \in DOMAIN inbox : inbox[i] \in Notification
    BY <1>9, InCall, ElementOfSeq DEF WriteRead, TypeOK
  <2>2. Kept
    BY <1>9, <2>1 DEF WriteRead, Kept, Notification
  <2>. QED  BY <1>9, <1>c, <2>2 DEF WriteRead, Answer, Frame
<1>10. ASSUME NEW w \in Worker, NEW u \in User, MarkAllRead(w, u)
       PROVE  OneRowPerEvent' /\ DoneWithRow' /\ OneAnnouncement'
  <2>1. \A i \in DOMAIN inbox : inbox[i] \in Notification
    BY ElementOfSeq DEF TypeOK
  <2>2. Kept
    BY <1>10, <2>1 DEF MarkAllRead, Kept, Notification
  <2>. QED  BY <1>10, <2>2, QuietSteps DEF MarkAllRead, Quiet, Announcing
<1>11. ASSUME NEW w \in Worker, NEW j, Serve(w, j), j.op # "announce", UNCHANGED announced
       PROVE  OneRowPerEvent' /\ DoneWithRow' /\ OneAnnouncement'
  BY <1>11, <1>b, <1>c DEF Serve, Step
<1>12. ASSUME NEW w \in Worker,
              FindToken(w) \/ CleanToken(w) \/ InsertToken(w) \/ UpdateToken(w) \/ Deactivate(w)
       PROVE  OneRowPerEvent' /\ DoneWithRow' /\ OneAnnouncement'
  <2>1. inbox' = inbox /\ announced' = announced
    BY <1>12 DEF FindToken, CleanToken, InsertToken, UpdateToken, Deactivate, Frame, RowFrame
  <2>2. Answer(w) \/ (job[w] \in Registration /\ \E at : Step(w, [job[w] EXCEPT !.at = at]))
    <3>1. CASE FindToken(w) \/ CleanToken(w)
      <4>1. job[w] \in Registration
        BY <3>1, InCall DEF FindToken, CleanToken
      <4>. QED  BY <3>1, <4>1 DEF FindToken, CleanToken
    <3>2. CASE InsertToken(w) \/ UpdateToken(w) \/ Deactivate(w)
      BY <3>2 DEF InsertToken, UpdateToken, Deactivate
    <3>. QED  BY <1>12, <3>1, <3>2
  <2>3. ASSUME NEW at, job[w] \in Registration, Step(w, [job[w] EXCEPT !.at = at])
        PROVE  OneRowPerEvent' /\ DoneWithRow' /\ OneAnnouncement'
    <3>1. [job[w] EXCEPT !.at = at].op = "register"
      BY <2>3 DEF Registration
    <3>. QED  BY <1>b, <1>c, <2>1, <2>3, <3>1 DEF Step
  <2>. QED  BY <1>b, <1>c, <2>1, <2>2, <2>3 DEF Answer
<1>13. CASE UNCHANGED vars \/ \E u \in User, c \in Company \cup {None} : MoveMember(u, c)
  BY <1>13, <1>b, QuietSteps DEF vars, MoveMember, Quiet, Announcing
<1>14. ASSUME NEW w \in Worker, NEW u \in User, NEW t \in FcmToken, Register(w, u, t)
       PROVE  OneRowPerEvent' /\ DoneWithRow' /\ OneAnnouncement'
  BY <1>11, <1>14 DEF Register
<1>15. ASSUME NEW w \in Worker, NEW op \in {"update", "deactivate"}, NEW u \in User,
              NEW i \in DOMAIN token, NEW t, ChangeToken(w, op, u, i, t)
       PROVE  OneRowPerEvent' /\ DoneWithRow' /\ OneAnnouncement'
  BY <1>11, <1>15 DEF ChangeToken
<1>. QED  BY <1>1, <1>2, <1>3, <1>4, <1>5, <1>6, <1>7, <1>8, <1>9, <1>10, <1>12, <1>13,
             <1>14, <1>15 DEF Next, Call, Proceed

-----------------------------------------------------------------------------
(* A push token is in one row.                                             *)
LEMMA TokenStep ==
  TypeOK /\ OneRowPerToken /\ [Next]_vars => OneRowPerToken'
<1>. SUFFICES ASSUME TypeOK, OneRowPerToken, [Next]_vars PROVE OneRowPerToken'
  OBVIOUS
<1>a. token \in Seq(DeviceToken) /\ \A i \in DOMAIN token : token[i] \in DeviceToken
  BY ElementOfSeq DEF TypeOK
<1>b. ASSUME DOMAIN token' = DOMAIN token,
             \A i \in DOMAIN token : token'[i].token = token[i].token
      PROVE  OneRowPerToken'
  BY <1>b DEF OneRowPerToken
<1>c. ASSUME token' = token PROVE OneRowPerToken'
  BY <1>c DEF OneRowPerToken
<1>d. ASSUME NEW i \in DOMAIN token, NEW row \in DeviceToken,
             token' = [token EXCEPT ![i] = row], TokenFree(row.token, i)
      PROVE  OneRowPerToken'
  <2>1. /\ DOMAIN token' = DOMAIN token /\ token'[i] = row
        /\ \A k \in DOMAIN token \ {i} : token'[k] = token[k]
    BY <1>d, TokenChanged
  <2>2. \A k \in DOMAIN token \ {i} : token[k].token # row.token
    BY <1>d DEF TokenFree, Holding
  <2>. QED  BY <2>1, <2>2 DEF OneRowPerToken
<1>1. ASSUME NEW w \in Worker, DropToken(w) PROVE OneRowPerToken'
  <2>1. job[w].reported \in DOMAIN token
    BY <1>1, InCall DEF DropToken
  <2>. QED  BY <1>1, <1>a, <1>b, <2>1 DEF DropToken, DeviceToken
<1>2. ASSUME NEW w \in Worker, FindToken(w) PROVE OneRowPerToken'
  <2>1. job[w] \in Registration
    BY <1>2, InCall DEF FindToken
  <2>2. CASE Holding(job[w].token) = {}
    BY <1>2, <1>c, <2>2 DEF FindToken
  <2>3. CASE Holding(job[w].token) # {}
    <3>1. PICK i \in Holding(job[w].token) : token' = [token EXCEPT ![i] = Registered(job[w])]
      BY <1>2, <2>3 DEF FindToken
    <3>2. /\ Registered(job[w]) \in DeviceToken /\ Registered(job[w]).token = job[w].token
          /\ i \in DOMAIN token
      BY <2>1, <3>1 DEF Registered, Registration, DeviceToken, Holding
    <3>3. TokenFree(job[w].token, i)
      BY <3>1, <3>2 DEF TokenFree, Holding, OneRowPerToken
    <3>. QED  BY <1>d, <3>1, <3>2, <3>3
  <2>. QED  BY <2>2, <2>3
<1>3. ASSUME NEW w \in Worker, InsertToken(w) PROVE OneRowPerToken'
  <2>1. job[w] \in Registration
    BY <1>3, InCall DEF InsertToken
  <2>. DEFINE row == Registered(job[w])
  <2>2. row \in DeviceToken /\ row.token = job[w].token
    BY <2>1 DEF Registered, Registration, DeviceToken
  <2>3. token' = token \/ (token' = Append(token, row) /\ TokenFree(job[w].token, 0))
    BY <1>3 DEF InsertToken
  <2>. HIDE DEF row
  <2>4. CASE token' = Append(token, row) /\ TokenFree(job[w].token, 0)
    <3>1. /\ DOMAIN token' = DOMAIN token \cup {Len(token) + 1}
          /\ token'[Len(token) + 1] = row
          /\ \A i \in DOMAIN token : token'[i] = token[i] /\ i # 0
      BY <1>a, <2>2, <2>4, AppendProperties
    <3>2. \A i \in DOMAIN token : token[i].token # row.token
      BY <2>2, <2>4, <3>1 DEF TokenFree, Holding
    <3>. QED  BY <3>1, <3>2 DEF OneRowPerToken
  <2>. QED  BY <1>c, <2>3, <2>4
<1>4. ASSUME NEW w \in Worker, UpdateToken(w) \/ Deactivate(w) PROVE OneRowPerToken'
  <2>1. job[w] \in Change /\ job[w].row \in DOMAIN token
    BY <1>4, InCall DEF UpdateToken, Deactivate
  <2>. DEFINE i == job[w].row
              moved == [token[i] EXCEPT !.token = job[w].token, !.active = TRUE]
              off == [token[i] EXCEPT !.active = FALSE]
  <2>2. /\ moved \in DeviceToken /\ moved.token = job[w].token
        /\ off \in DeviceToken /\ off.token = token[i].token
    BY <1>a, <2>1 DEF DeviceToken, Change
  <2>3. \/ token' = token
        \/ token' = [token EXCEPT ![i] = moved] /\ TokenFree(job[w].token, i)
        \/ token' = [token EXCEPT ![i] = off]
    BY <1>4, <1>a, <2>1 DEF UpdateToken, Deactivate
  <2>4. TokenFree(token[i].token, i)
    BY <2>1 DEF TokenFree, Holding, OneRowPerToken
  <2>. HIDE DEF i, moved, off
  <2>5. i \in DOMAIN token
    BY <2>1 DEF i
  <2>. QED  BY <1>c, <1>d, <2>2, <2>3, <2>4, <2>5
<1>5. CASE UNCHANGED token
  BY <1>5, <1>c
<1>6. \/ UNCHANGED token
      \/ \E w \in Worker : \/ DropToken(w) \/ FindToken(w) \/ InsertToken(w)
                           \/ UpdateToken(w) \/ Deactivate(w)
  <2>1. ASSUME NEW w \in Worker, Call(w) PROVE UNCHANGED token
    BY <2>1 DEF Call, AnnounceLeave, AnnounceDevice, MarkRead, MarkAllRead, Register,
                ChangeToken, Serve
  <2>2. ASSUME NEW w \in Worker, \/ LookUp(w) \/ Clean(w) \/ Save(w) \/ ReadTokens(w)
                                 \/ Push(w) \/ WriteRead(w) \/ CleanToken(w)
        PROVE  UNCHANGED token
    BY <2>2 DEF LookUp, Clean, Save, ReadTokens, Push, WriteRead, CleanToken, RowFrame
  <2>. QED  BY <2>1, <2>2 DEF Next, Proceed, vars, MoveMember
<1>. QED  BY <1>1, <1>2, <1>3, <1>4, <1>5, <1>6

-----------------------------------------------------------------------------
(* The inductive invariant holds, and with it what the runs check.         *)
LEMMA InitHolds == Init => NotificationsInv
<1>. SUFFICES ASSUME Init PROVE NotificationsInv
  OBVIOUS
<1>1. /\ member = EmployerOf /\ inbox = <<>> /\ token = <<>> /\ announced = {}
      /\ job = [w \in Worker |-> None] /\ calls = 0 /\ moves = 0
  BY DEF Init
<1>2. TypeOK
  BY <1>1, NotificationsAssumption DEF TypeOK
<1>3. OneRowPerEvent /\ OneRowPerToken
  BY <1>1 DEF OneRowPerEvent, OneRowPerToken
<1>4. \A w \in Worker : ~Announcing(w)
  BY <1>1 DEF Announcing
<1>. QED BY <1>1, <1>2, <1>3, <1>4 DEF NotificationsInv, RowsUnique, DoneWithRow, OneAnnouncement

LEMMA InvariantHolds == Spec => []NotificationsInv
<1>1. NotificationsInv /\ [Next]_vars => NotificationsInv'
  BY TypeStep, AnnouncementStep, TokenStep DEF NotificationsInv, RowsUnique
<1>. QED BY InitHolds, <1>1, PTL DEF Spec

(* The rows, the registrations and every call have their types, whatever   *)
(* the calls of notification_service.py and push.py that race.             *)
THEOREM NotificationsTypeCorrect == Spec => []TypeOK
<1>1. NotificationsInv => TypeOK
  BY DEF NotificationsInv
<1>. QED BY InvariantHolds, <1>1, PTL

(* An employee never has two rows for one event key, and a push token is   *)
(* never in two rows, however two creations or two registrations race      *)
(* (NotificationService.create_notification, DeviceTokenService.register). *)
THEOREM RowsAreUnique == Spec => []RowsUnique
<1>1. NotificationsInv => RowsUnique
  BY DEF NotificationsInv
<1>. QED BY InvariantHolds, <1>1, PTL

(* An announcement that ends, also one that lost the race for a row, has   *)
(* left everyone the event concerns with a row, except those whose         *)
(* membership had ended (create_notifications_for_users).                  *)
THEOREM EveryoneIsTold == Spec => EveryoneTold
<1>1. ASSUME NotificationsInv, [Next]_vars, NEW w \in Worker, Announcing(w), job'[w] = None
      PROVE  \A u \in job[w].to \ job[w].skipped : Rows(job[w].company, u, job[w].key) # {}
  <2>1. /\ TypeOK /\ DoneWithRow /\ OneAnnouncement /\ job = [v \in Worker |-> job[v]]
        /\ job[w] # None /\ job[w].op = "announce"
    BY <1>1 DEF NotificationsInv, TypeOK, Announcing
  <2>2. ASSUME NEW v \in Worker \ {w}, Call(v) \/ Proceed(v) PROVE FALSE
    <3>1. job' = job \/ \E j : job' = [job EXCEPT ![v] = j]
      <4>1. CASE Call(v)
        BY <4>1 DEF Call, AnnounceLeave, AnnounceDevice, MarkRead, MarkAllRead,
             Register, ChangeToken, Serve, Step
      <4>2. CASE LookUp(v) \/ Clean(v) \/ Save(v) \/ ReadTokens(v) \/ Push(v) \/ DropToken(v)
        BY <4>2 DEF Step, Answer, LookUp, Clean, Save, ReadTokens, Push, DropToken
      <4>3. CASE \/ WriteRead(v) \/ FindToken(v) \/ CleanToken(v) \/ InsertToken(v)
                 \/ UpdateToken(v) \/ Deactivate(v)
        BY <4>3 DEF Step, Answer, WriteRead, FindToken, CleanToken, InsertToken, UpdateToken,
             Deactivate
      <4>. QED  BY <2>2, <4>1, <4>2, <4>3 DEF Proceed
    <3>. QED  BY <1>1, <2>1, <3>1
  <2>3. ~Call(w)
    BY <1>1, <2>1 DEF Call, AnnounceLeave, AnnounceDevice, MarkRead, MarkAllRead,
         Register, ChangeToken, Serve
  <2>4. LookUp(w) \/ Clean(w) \/ Save(w) \/ ReadTokens(w) \/ Push(w) \/ DropToken(w)
    <3>1. Proceed(w)
      BY <1>1, <2>1, <2>2, <2>3 DEF Next, vars, MoveMember
    <3>. QED  BY <2>1, <3>1 DEF Proceed, WriteRead, FindToken, CleanToken, InsertToken,
                UpdateToken, Deactivate, At
  <2>5. ASSUME NEW j \in Announcement, Step(w, j) PROVE FALSE
    <3>1. job'[w] = j
      BY <2>1, <2>5 DEF Step
    <3>. QED  BY <1>1, <2>5, <3>1, JobsAreNotNone
  <2>6. /\ job[w] \in Announcement /\ Announcing(w)
        /\ job[w].due # {} => Recipient(w) \in job[w].due
        /\ job[w].due \subseteq job[w].to
    BY <1>1, <2>1, JobsOK, JobKinds, RecipientDue
  <2>7. job[w].due # {} => Told(w) \in Announcement
    BY <2>1, <2>6, ToldType
  <2>8. CASE LookUp(w)
    <3>1. CASE job[w].due # {}
      <4>1. /\ [Told(w) EXCEPT !.skipped = @ \cup {Recipient(w)}] \in Announcement
            /\ [job[w] EXCEPT !.at = "clean"] \in Announcement
        BY <2>6, <2>7, <3>1 DEF Announcement
      <4>. QED  BY <2>5, <2>7, <2>8, <3>1, <4>1 DEF LookUp
    <3>2. CASE job[w].due = {}
      BY <2>1, <2>6, <3>2 DEF DoneWithRow
    <3>. QED  BY <3>1, <3>2
  <2>9. CASE Clean(w)
    <3>1. job[w].at = "clean" /\ Recipient(w) \in job[w].due
      BY <2>1, <2>9, InCall DEF Clean
    <3>2. [job[w] EXCEPT !.at = "save"] \in Announcement
      BY <2>6 DEF Announcement
    <3>3. Rows(job[w].company, Recipient(w), job[w].key) # {}
      BY <2>5, <2>9, <3>2 DEF Clean
    <3>4. job[w].key \notin LeaveKey
      BY <2>1, <2>6, <3>1, <3>3 DEF OneAnnouncement, Rows
    <3>5. \A u \in job[w].to : u = Recipient(w)
      BY <2>1, <2>6, <3>1, <3>4 DEF OneAnnouncement
    <3>. QED  BY <3>3, <3>5
  <2>10. CASE Save(w) \/ ReadTokens(w) \/ Push(w) \/ DropToken(w)
    <3>1. At(w, "announce", "save") \/ At(w, "announce", "tokens")
          \/ At(w, "announce", "push") \/ At(w, "announce", "drop")
      BY <2>10 DEF Save, ReadTokens, Push, DropToken
    <3>2. /\ Told(w) \in Announcement /\ job[w].targets \subseteq DOMAIN token
          /\ DOMAIN token \subseteq Nat
      BY <2>1, <2>6, <3>1, InCall, ToldType DEF TypeOK
    <3>3. CASE Save(w)
      <4>1. [job[w] EXCEPT !.at = "tokens"] \in Announcement
        BY <2>6 DEF Announcement
      <4>. QED  BY <2>5, <3>2, <3>3, <4>1 DEF Save
    <3>4. CASE ReadTokens(w)
      <4>1. \A own \in SUBSET DOMAIN token :
              [job[w] EXCEPT !.at = "push", !.targets = own] \in Announcement
        BY <2>6, <3>2 DEF Announcement
      <4>. QED  BY <2>5, <3>4, <4>1 DEF ReadTokens
    <3>5. CASE Push(w)
      <4>1. \A i \in job[w].targets :
              /\ [job[w] EXCEPT !.targets = @ \ {i}] \in Announcement
              /\ [job[w] EXCEPT !.at = "drop", !.targets = @ \ {i}, !.reported = i]
                   \in Announcement
        BY <2>6, <3>2 DEF Announcement
      <4>. QED  BY <2>5, <3>2, <3>5, <4>1 DEF Push, AfterFailure
    <3>6. CASE DropToken(w)
      <4>1. [job[w] EXCEPT !.at = "push", !.reported = 0] \in Announcement
        BY <2>6 DEF Announcement
      <4>. QED  BY <2>5, <3>6, <4>1 DEF DropToken
    <3>. QED  BY <2>10, <3>3, <3>4, <3>5, <3>6
  <2>. QED  BY <2>4, <2>8, <2>9, <2>10
<1>2. NotificationsInv /\ [Next]_vars =>
        [\A w \in Worker :
           job[w] # None /\ job'[w] = None /\ job[w].op = "announce" =>
             \A u \in job[w].to \ job[w].skipped :
               Rows(job[w].company, u, job[w].key) # {}]_vars
  BY <1>1 DEF Announcing
<1>. QED  BY InvariantHolds, <1>2, PTL DEF EveryoneTold, Spec

(* A row of an inbox is never taken away or made unread, and keeps the     *)
(* time it was first read, however the calls that mark rows race.          *)
THEOREM ReadRowsStay == Spec => ReadStays
<1>1. ASSUME NotificationsInv, [Next]_vars
      PROVE  \A i \in DOMAIN inbox :
               i \in DOMAIN inbox' /\ (inbox[i].read => inbox'[i] = inbox[i])
  <2>1. TypeOK /\ inbox \in Seq(Notification)
    BY <1>1 DEF NotificationsInv, TypeOK
  <2>2. \A i \in DOMAIN inbox : inbox[i] \in Notification
    BY <2>1, ElementOfSeq
  <2>3. ASSUME NEW w \in Worker, Save(w)
        PROVE  \A i \in DOMAIN inbox : i \in DOMAIN inbox' /\ inbox'[i] = inbox[i]
    <3>. DEFINE row == [company |-> job[w].company, recipient |-> Recipient(w),
                        key |-> job[w].key, read |-> FALSE, readAt |-> 0]
    <3>1. job[w] \in Announcement /\ Recipient(w) \in job[w].due
      BY <2>1, <2>3, InCall DEF Save
    <3>2. row \in Notification
      BY <3>1, NotificationsAssumption DEF Announcement, Notification, Stamp
    <3>3. inbox' = inbox \/ inbox' = Append(inbox, row)
      BY <2>3 DEF Save
    <3>. HIDE DEF row
    <3>. QED  BY <2>1, <3>2, <3>3, AppendProperties
  <2>4. ASSUME NEW w \in Worker, WriteRead(w)
        PROVE  \A i \in DOMAIN inbox : i \in DOMAIN inbox' /\ (inbox[i].read => inbox'[i] = inbox[i])
    <3>1. job[w].row \in DOMAIN inbox
      BY <2>1, <2>4, InCall DEF WriteRead
    <3>. QED  BY <2>2, <2>4, <3>1 DEF WriteRead, StillUnread, Notification
  <2>5. ASSUME NEW w \in Worker, NEW u \in User, MarkAllRead(w, u)
        PROVE  \A i \in DOMAIN inbox : i \in DOMAIN inbox' /\ (inbox[i].read => inbox'[i] = inbox[i])
    BY <2>5 DEF MarkAllRead
  <2>6. \/ inbox' = inbox
        \/ \E w \in Worker : Save(w) \/ WriteRead(w) \/ \E u \in User : MarkAllRead(w, u)
    <3>1. ASSUME NEW w \in Worker, Call(w), \A u \in User : ~MarkAllRead(w, u)
          PROVE  inbox' = inbox
      BY <3>1 DEF Call, AnnounceLeave, AnnounceDevice, MarkRead, Register, ChangeToken, Serve
    <3>2. ASSUME NEW w \in Worker, \/ LookUp(w) \/ Clean(w) \/ ReadTokens(w) \/ Push(w)
                                   \/ DropToken(w) \/ FindToken(w) \/ CleanToken(w)
                                   \/ InsertToken(w) \/ UpdateToken(w) \/ Deactivate(w)
          PROVE  inbox' = inbox
      BY <3>2 DEF LookUp, Clean, ReadTokens, Push, DropToken, FindToken, CleanToken,
           InsertToken, UpdateToken, Deactivate, RowFrame
    <3>. QED  BY <1>1, <3>1, <3>2 DEF Next, Proceed, vars, MoveMember
  <2>. QED  BY <2>3, <2>4, <2>5, <2>6
<1>2. NotificationsInv /\ [Next]_vars =>
        [\A i \in DOMAIN inbox :
           /\ i \in DOMAIN inbox'
           /\ inbox[i].read => inbox'[i] = inbox[i]]_vars
  BY <1>1
<1>. QED  BY InvariantHolds, <1>2, PTL DEF ReadStays, Spec

(* The logout of a phone's previous user, under way when the phone was     *)
(* registered for somebody else, does not silence it: it looks at the row  *)
(* it changes again (DeviceTokenService.deactivate).                       *)
THEOREM OwnersSwitchOff == Spec => SwitchedOffByOwner
<1>1. ASSUME NotificationsInv, [Next]_vars, NEW i \in DOMAIN token, NEW w \in Worker,
             job[w] # None, job'[w] = None, job[w].op = "deactivate",
             token'[i].active # token[i].active
      PROVE  token[i].user = job[w].user
  <2>1. TypeOK /\ job = [v \in Worker |-> job[v]] /\ \A k \in DOMAIN token : token[k] \in DeviceToken
    BY <1>1, ElementOfSeq DEF NotificationsInv, TypeOK
  <2>2. ASSUME NEW v \in Worker \ {w}, job' = job \/ \E j : job' = [job EXCEPT ![v] = j]
        PROVE  FALSE
    BY <1>1, <2>1, <2>2
  <2>3. token' # token
    BY <1>1
  <2>4. PICK v \in Worker : \/ DropToken(v) \/ FindToken(v) \/ InsertToken(v)
                            \/ UpdateToken(v) \/ Deactivate(v)
    <3>1. ASSUME NEW v \in Worker, Call(v) PROVE FALSE
      BY <2>3, <3>1 DEF Call, AnnounceLeave, AnnounceDevice, MarkRead, MarkAllRead, Register,
                  ChangeToken, Serve
    <3>2. ASSUME NEW v \in Worker, \/ LookUp(v) \/ Clean(v) \/ Save(v) \/ ReadTokens(v)
                                   \/ Push(v) \/ WriteRead(v) \/ CleanToken(v)
          PROVE  FALSE
      BY <2>3, <3>2 DEF LookUp, Clean, Save, ReadTokens, Push, WriteRead, CleanToken, RowFrame
    <3>. QED  BY <1>1, <2>3, <3>1, <3>2 DEF Next, Proceed, vars, MoveMember
  <2>5. v = w
    <3>1. job' = job \/ \E j : job' = [job EXCEPT ![v] = j]
      BY <2>4 DEF DropToken, FindToken, InsertToken, UpdateToken, Deactivate, Step, Answer
    <3>. QED  BY <2>2, <3>1
  <2>6. Deactivate(w)
    BY <1>1, <2>4, <2>5 DEF DropToken, FindToken, InsertToken, UpdateToken, At
  <2>7. job[w].row \in DOMAIN token
    BY <2>1, <2>6, InCall DEF Deactivate
  <2>8. StillOwn(w) /\ token' = [token EXCEPT ![job[w].row].active = FALSE]
    BY <2>3, <2>6 DEF Deactivate
  <2>9. i = job[w].row
    BY <1>1, <2>1, <2>7, <2>8
  <2>. QED  BY <2>8, <2>9 DEF StillOwn, Own
<1>2. NotificationsInv /\ [Next]_vars =>
        [\A i \in DOMAIN token, w \in Worker :
           job[w] # None /\ job'[w] = None /\ job[w].op = "deactivate"
             /\ token'[i].active # token[i].active
           => token[i].user = job[w].user]_vars
  BY <1>1
<1>. QED  BY InvariantHolds, <1>2, PTL DEF SwitchedOffByOwner, Spec
=============================================================================
