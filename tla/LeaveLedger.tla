----------------------------- MODULE LeaveLedger -----------------------------
(***************************************************************************)
(* What the leave service promises: every submission, decision and         *)
(* allocation happens at one instant, is decided on the entries and        *)
(* accounts of that instant, and an entry and its account change together. *)
(***************************************************************************)
EXTENDS Integers

CONSTANTS Employee, Date, Id, Account, Owner

VARIABLES
  entry,    \* the leave that was asked for under each id
  account   \* the days allocated and used of each account there is

Entry ==
  [employee : Employee, account : Account, start : Date, end : Date, days : Nat,
   status : {"PENDING", "APPROVED", "REJECTED", "CANCELLED"}]
Balance == [allocated : Nat, used : Nat]

(* Two functions that differ in x alone.                                   *)
Differ(f, g, x) == \A y \in DOMAIN f \ {x} : g[y] = f[y]

Is(i, status) == i \in DOMAIN entry /\ entry[i].status = status
Clash(d, e) == d.employee = e.employee /\ d.start <= e.end /\ e.start <= d.end

Become(i, status) == entry' = [entry EXCEPT ![i].status = status]
Use(a, days) == account' = [account EXCEPT ![a].used = @ + days]

Init ==
  /\ entry \in [{} -> Entry]
  /\ \E S \in SUBSET Account : account \in [S -> Balance]
  /\ \A a \in DOMAIN account : account[a].used = 0

(* Leave is asked for on dates for which no other is asked for or granted. *)
Submit(i) ==
  /\ i \notin DOMAIN entry /\ entry' \in [DOMAIN entry \cup {i} -> Entry]
  /\ Differ(entry, entry', i) /\ entry'[i].status = "PENDING"
  /\ \A j \in Id : Is(j, "PENDING") \/ Is(j, "APPROVED") => ~Clash(entry[j], entry'[i])
  /\ UNCHANGED account

(* The account has the days, and is charged with them.                     *)
Approve(i) ==
  LET a == entry[i].account IN
  /\ Is(i, "PENDING") /\ a \in DOMAIN account
  /\ account[a].used + entry[i].days <= account[a].allocated
  /\ Become(i, "APPROVED") /\ Use(a, entry[i].days)

Reject(i) == Is(i, "PENDING") /\ Become(i, "REJECTED") /\ UNCHANGED account

(* What was charged is given back, no more and no less.                    *)
Cancel(i) ==
  \/ Is(i, "PENDING") /\ Become(i, "CANCELLED") /\ UNCHANGED account
  \/ /\ Is(i, "APPROVED") /\ Become(i, "CANCELLED")
     /\ Use(entry[i].account, -entry[i].days)

Open(a) ==
  /\ a \notin DOMAIN account /\ account' \in [DOMAIN account \cup {a} -> Balance]
  /\ Differ(account, account', a) /\ account'[a].used = 0
  /\ UNCHANGED entry

(* The days used stay, and stay covered.                                   *)
Allocate(a) ==
  /\ a \in DOMAIN account /\ account' \in [DOMAIN account -> Balance]
  /\ Differ(account, account', a) /\ account'[a].used = account[a].used
  /\ account[a].used <= account'[a].allocated
  /\ UNCHANGED entry

(* An employee who is deleted takes all entries and accounts along.        *)
Leave(e) ==
  /\ entry' = [i \in {j \in DOMAIN entry : entry[j].employee # e} |-> entry[i]]
  /\ account' = [a \in {b \in DOMAIN account : Owner[b] # e} |-> account[a]]

Next ==
  \/ \E i \in Id : Submit(i) \/ Approve(i) \/ Reject(i) \/ Cancel(i)
  \/ \E a \in Account : Open(a) \/ Allocate(a)
  \/ \E e \in Employee : Leave(e)

Spec == Init /\ [][Next]_<<entry, account>>
=============================================================================
