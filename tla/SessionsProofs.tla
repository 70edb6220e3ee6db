--------------------------- MODULE SessionsProofs ---------------------------
(***************************************************************************)
(* Theorems about Sessions, for any number of accounts, of requests at     *)
(* once, of token pairs, of lost calls and of restarts.                    *)
(***************************************************************************)
EXTENDS Sessions, FiniteSetTheorems, SequenceTheorems, TLAPS

(* Every token at hand was issued.                                           *)
HeldKnown ==
  /\ store.access <= Len(issued) /\ store.refresh <= Len(issued)
  /\ refresh.tok <= Len(issued) /\ refresh.new <= Len(issued)
  /\ login.tok <= Len(issued) /\ restore.tok <= Len(issued) /\ logout.tok <= Len(issued)
CallsKnown ==
  \A c \in Channel : call[c].tok <= Len(issued) /\ call[c].body <= Len(issued)

(* A step that uses a token or a user has one, and the calls of the restore  *)
(* and of the logout end with them.                                          *)
TokensAtHand ==
  /\ refresh.pc \notin {"idle", "read"} => refresh.tok # 0
  /\ refresh.pc \in {"saveAccess", "saveRefresh"} => refresh.new # 0
  /\ call["logout"].pc # "idle" =>
       logout.pc = "post" /\ call["logout"].body = logout.tok /\ logout.tok # 0
  /\ call["restore"].pc # "idle" => restore.pc = "me"
  /\ call["restore"].pc = "ok" => call["restore"].tok # 0
  /\ login.pc # "idle" => login.user \in User
  /\ restore.pc = "persist" => restore.user \in User
  /\ restore.pc \in {"me", "recheck"} => restore.tok # 0

(* A clear begins with the first cell.                                       *)
ClearsBegin ==
  /\ \A c \in Channel : call[c].pc \in {"idle", "attach", "sent", "waiting"} => call[c].k = 1
  /\ login.pc # "persist" => login.k = 1
  /\ logout.pc \notin {"wipe", "clearAuth"} => logout.k = 1
  /\ restore.pc \notin {"wipe", "clearAuth", "persist"} => restore.k = 1

(* A refresh is under way for the requests that wait for it.                 *)
RefreshAwaited == refresh.pc # "idle" => \E c \in Channel : call[c].pc = "waiting"

(* What the type of every variable depends on.                               *)
TypeInv ==
  TypeOK /\ HeldKnown /\ CallsKnown /\ TokensAtHand /\ ClearsBegin /\ RefreshAwaited

(* The calls the server serves have the token or the user they are about,    *)
(* and the phone waits for one of them while its refresh is posted.          *)
ServingInv ==
  /\ \A w \in Worker :
       /\ serving[w].tok <= Len(issued)
       /\ serving[w].at \in {"check", "blacklist", "issue", "logout"} => serving[w].tok # 0
       /\ serving[w].at = "issue" => serving[w].tok \in blacklisted
       /\ serving[w].at = "login" => serving[w].user \in User
  /\ serving["phone"].at \notin {"login", "logout"}
  /\ serving["phone"].at # "none" <=> refresh.pc = "posted"
  /\ refresh.pc = "posted" => serving["phone"].tok = refresh.tok

-----------------------------------------------------------------------------
(* The session of a phone whose work did not overlap.                        *)

SignedOut == auth \in {"unauthenticated", "error"}
SigningIn == login.pc \in {"saveRefresh", "persist"}
Clearing  == \E c \in Channel : call[c].pc = "clear"
Rotating  == \/ refresh.pc \in {"saveAccess", "saveRefresh"}
             \/ refresh.pc = "posted" /\ serving["phone"].at = "issue"

(* No refresh can be posted, nor will one store anything.                    *)
NoRefreshToken == store.refresh = 0 /\ refresh.pc \in {"idle", "read"}

(* Which flows exclude one another.                                          *)
FlowsInv ==
  /\ auth \in User => clears = <<>> /\ restore.pc = "idle" /\ login.pc = "idle"
  /\ auth = "loading" => restore.pc # "idle"
  /\ login.pc # "idle" \/ clears # <<>> => SignedOut
  /\ logout.pc # "idle" => auth # "loading"
  /\ SigningIn => ~OldWork
  /\ login.pc = "persist" => login.epoch = epoch

(* A restore is alone until a failure of its call tells the controller that  *)
(* the session is over; then it ends without touching the storage.           *)
RestoreInv ==
  restore.pc # "idle" =>
    /\ restore.epoch = 0
    /\ epoch # 0 => SignedOut /\ restore.pc \in {"me", "recheck"}
    /\ epoch = 0 => /\ auth = "loading" /\ login.pc = "idle" /\ logout.pc = "idle"
                    /\ clears = <<>>
                    /\ \A c \in Channel \ {"restore"} : call[c].pc = "idle"
                    /\ restore.pc # "me" => call["restore"].pc = "idle"

(* The call of such a restore uses the stored tokens.                        *)
RestoreCallInv ==
  LET c == call["restore"] IN
  (restore.pc = "me" /\ epoch = 0) =>
    /\ c.pc # "idle"
    /\ c.pc \in {"attach", "sent", "waiting", "ok"} => store.refresh # 0
    /\ c.pc = "attach" => IF c.retried THEN store.access # 0 ELSE c.tok = 0
    /\ c.pc \in {"sent", "ok"} => c.tok = store.access

(* What such a restore has read, and what its clear has deleted.             *)
RestoreStoreInv ==
  /\ restore.pc = "persist" =>
       /\ restore.user \in HasCompany
       /\ store.access # 0 /\ store.refresh # 0
       /\ issued[store.refresh] = restore.user
  /\ restore.pc \in {"wipe", "clearAuth"} =>
       /\ restore.k > 1 => store.access = 0
       /\ restore.k > 2 => store.refresh = 0

(* What the clears under way have achieved.                                  *)
ClearInv ==
  /\ \A c \in Channel : call[c].pc = "clear" /\ call[c].k = 3 => NoRefreshToken
  /\ logout.pc = "wipe" /\ logout.k = 3 => NoRefreshToken
  /\ logout.pc = "clearAuth" =>
       /\ NoRefreshToken /\ store.session = None
       /\ logout.k > 1 => store.access = 0

(* Signed out: the storage is empty, but for an access token that a clear    *)
(* still has to delete.                                                      *)
SignedOutInv ==
  SignedOut /\ ~SigningIn =>
    /\ NoRefreshToken /\ store.session = None
    /\ store.access = 0 \/ \E i \in DOMAIN clears : clears[i] = 1

(* A login that saves its answer goes through the storage cell by cell.      *)
SigningInInv ==
  /\ login.pc \in {"saveAccess", "saveRefresh", "persist"} =>
       /\ login.tok \in recorded \ Spent /\ issued[login.tok] = login.user
  /\ login.pc = "saveAccess" /\ logout.pc = "post" => logout.tok # login.tok
  /\ SigningIn => store.session = None
  /\ login.pc = "saveRefresh" => store.access = login.tok /\ store.refresh = 0
  /\ login.pc = "persist" =>
       /\ store.access = IF login.k > 1 THEN 0 ELSE login.tok
       /\ store.refresh = IF login.k > 2 THEN 0 ELSE login.tok
       /\ login.k > 1 => login.user \notin HasCompany

(* A refresh replaces the stored token, by one of the same user.             *)
RefreshInv ==
  /\ refresh.pc \notin {"idle", "read"} => refresh.tok = store.refresh
  /\ refresh.pc \in {"saveAccess", "saveRefresh"} =>
       /\ issued[refresh.new] = issued[store.refresh]
       /\ logout.pc = "idle" => refresh.new \notin Spent
  /\ refresh.pc = "saveRefresh" => store.access = refresh.new

(* The stored tokens are of one user, and the stored refresh token is not    *)
(* used up unless a refresh is replacing it or a clear deleting it.          *)
StoreInv ==
  store.refresh # 0 =>
    /\ store.access # 0 => issued[store.access] = issued[store.refresh]
    /\ login.pc # "persist" => issued[store.refresh] \in HasCompany
    /\ ~Rotating /\ ~Clearing /\ logout.pc = "idle" => store.refresh \notin Spent

(* Signed in: the user's own session is stored, or a clear has begun.        *)
SignedInInv ==
  /\ auth \in HasCompany /\ ~Clearing /\ logout.pc \notin {"wipe", "clearAuth"} =>
       /\ store.session = auth
       /\ store.access # 0 /\ store.refresh # 0
       /\ issued[store.refresh] = auth
  /\ auth \in User \ HasCompany =>
       store = [access |-> 0, refresh |-> 0, session |-> None]

(* The invariant, which only an overlap can break.                           *)
Sound ==
  /\ FlowsInv /\ RestoreInv /\ RestoreCallInv /\ RestoreStoreInv /\ ClearInv
  /\ SignedOutInv /\ SigningInInv /\ RefreshInv /\ StoreInv /\ SignedInInv
SoundInv == ~overlap => Sound

-----------------------------------------------------------------------------
(* What the helpers return.                                                  *)

(* A storage has three cells, cleared in order.                              *)
StoreCells == [access : Pair, refresh : Pair, session : User \cup {None}]
LEMMA Cells == Pos = {1, 2, 3} /\ Len(Cell) = 3
BY DEF Pos, Cell

(* A deletion empties one cell.                                              *)
LEMMA EmptiedCell ==
  ASSUME NEW k \in Pos, store \in StoreCells
  PROVE  /\ Emptied(k) \in StoreCells
         /\ Emptied(k).access = IF k = 1 THEN 0 ELSE store.access
         /\ Emptied(k).refresh = IF k = 2 THEN 0 ELSE store.refresh
         /\ Emptied(k).session = IF k = 3 THEN None ELSE store.session
<1>0. k = 1 \/ k = 2 \/ k = 3  BY Cells
<1>1. CASE k = 1
  BY <1>1, SessionsAssumption DEF Emptied, Cell, StoreCells, Pair
<1>2. CASE k = 2
  BY <1>2, SessionsAssumption DEF Emptied, Cell, StoreCells, Pair
<1>3. CASE k = 3
  BY <1>3, SessionsAssumption DEF Emptied, Cell, StoreCells, Pair
<1>. QED  BY <1>0, <1>1, <1>2, <1>3

LEMMA NoFlowType == NoFlow \in Flow
BY SessionsAssumption, Cells DEF NoFlow, Flow, Pair

LEMMA IdleType == Idle \in CallState /\ Started \in CallState
<1>1. Idle \in CallState  BY SessionsAssumption, Cells DEF Idle, CallState, Pair
<1>. QED  BY <1>1 DEF Started, CallState

LEMMA NoRefreshType == NoRefresh \in RefreshState
BY SessionsAssumption DEF NoRefresh, RefreshState, Pair

(* The pair a call of the server issues is the next number.                  *)
LEMMA Issued ==
  ASSUME issued \in Seq(User), NEW u \in User, Issue(u)
  PROVE  /\ issued' \in Seq(User) /\ Len(issued') = Len(issued) + 1
         /\ issued'[Len(issued) + 1] = u
         /\ \A i \in 1..Len(issued) : issued'[i] = issued[i]
         /\ DOMAIN issued' = DOMAIN issued \cup {Len(issued) + 1}
BY AppendProperties DEF Issue

-----------------------------------------------------------------------------
(* What each step does, field by field.                                      *)

(* A step that leaves the server alone uses no token up.                     *)
LEMMA ServerStays ==
  UNCHANGED server =>
    UNCHANGED <<issued, recorded, blacklisted, expired, serving, used, doubled, Spent>>
BY DEF server, Spent

(* Which tokens are used up or may be by a call the server still serves      *)
Spends == {"check", "blacklist", "issue", "logout"}
LEMMA SpentIs ==
  /\ \A t : t \in Spent <=>
       t \in used \/ \E w \in Slot : serving[w].at \in Spends /\ serving[w].tok = t
  /\ \A t : t \in Spent' <=>
       t \in used' \/ \E w \in Slot : serving'[w].at \in Spends /\ serving'[w].tok = t
BY DEF Spent, Spends

LEMMA Types ==
  ASSUME TypeInv
  PROVE  /\ issued \in Seq(User) /\ Len(issued) <= MaxPairs
         /\ store \in StoreCells /\ epoch \in Nat
         /\ call \in [Channel -> CallState] /\ refresh \in RefreshState
         /\ login \in Flow /\ logout \in Flow /\ restore \in Flow
         /\ clears \in Seq(Pos)
BY DEF TypeInv, TypeOK, StoreCells

LEMMA ServingType == TypeInv => serving \in [Worker -> ServerCall]
BY DEF TypeInv, TypeOK

LEMMA WorkerIs == Worker = Slot \cup {"phone"} /\ "phone" \notin Slot
BY SessionsAssumption DEF Worker

(* The call of the worker w is all that changes of the calls it serves.      *)
ServesOne(w, at, tok) ==
  /\ serving' \in [Worker -> ServerCall]
  /\ serving'[w].at = at /\ serving'[w].tok = tok
  /\ \A v \in Worker : v # w => serving'[v] = serving[v]

LEMMA ServesDone ==
  ASSUME TypeInv, NEW w \in Worker, serving' = [serving EXCEPT ![w] = NoCall]
  PROVE  ServesOne(w, "none", 0)
<1>1. NoCall \in ServerCall /\ NoCall.at = "none" /\ NoCall.tok = 0
  BY SessionsAssumption DEF NoCall, ServerCall, Pair
<1>. QED  BY <1>1, ServingType DEF ServesOne

LEMMA ServesRefresh ==
  ASSUME TypeInv, NEW w \in Worker, NEW t \in Pair,
         serving' = [serving EXCEPT ![w] = RefreshCall(t)]
  PROVE  ServesOne(w, "check", t)
<1>1. RefreshCall(t) \in ServerCall /\ RefreshCall(t).at = "check" /\ RefreshCall(t).tok = t
  BY DEF RefreshCall, ServerCall
<1>. QED  BY <1>1, ServingType DEF ServesOne

LEMMA ServesNext ==
  ASSUME TypeInv, NEW w \in Worker, NEW at \in {"blacklist", "issue"},
         serving' = [serving EXCEPT ![w].at = at]
  PROVE  ServesOne(w, at, serving[w].tok)
<1> DEFINE r == [serving[w] EXCEPT !.at = at]
<1>1. serving[w] \in ServerCall  BY ServingType
<1>2. r \in ServerCall /\ r.at = at /\ r.tok = serving[w].tok  BY <1>1 DEF ServerCall
<1>3. serving' = [serving EXCEPT ![w] = r]  OBVIOUS
<1> HIDE DEF r
<1>. QED  BY <1>2, <1>3, ServingType DEF ServesOne

(* What a worker does to the tokens used up                                  *)
LEMMA ServesSpent ==
  ASSUME NEW w \in Worker, NEW at, ServesOne(w, at, serving[w].tok) \/ ServesOne(w, "none", 0),
         serving[w].at \in Spends \/ ServesOne(w, "none", 0),
         used' \subseteq used \cup {serving[w].tok},
         UNCHANGED used \/ serving[w].at \in Spends
  PROVE  /\ w \in Slot => Spent' \subseteq Spent
         /\ Spent' \subseteq Spent \cup {serving[w].tok}
         /\ UNCHANGED used => Spent' \subseteq Spent
<1>1. ASSUME NEW v \in Slot, serving'[v].at \in Spends
      PROVE  serving'[v].tok \in Spent
  <2>1. CASE v # w
    BY <1>1, <2>1, SpentIs, WorkerIs DEF ServesOne
  <2>2. CASE v = w
    BY <1>1, <2>2, SpentIs DEF ServesOne, Spends
  <2>. QED  BY <2>1, <2>2
<1>2. \A t \in Spent' : t \in Spent \/ t \in used'  BY <1>1, SpentIs
<1>3. used \subseteq Spent  BY SpentIs
<1>4. w \in Slot /\ serving[w].at \in Spends => serving[w].tok \in Spent  BY SpentIs
<1>. QED  BY <1>2, <1>3, <1>4

(* What the slots serve, and so the tokens used up, is left alone.           *)
LEMMA SlotsSpent ==
  ASSUME UNCHANGED used, \A w \in Slot : serving'[w] = serving[w]
  PROVE  Spent' \subseteq Spent
BY SpentIs

(* Calls the phone gives up go on in at most one slot each, or not at all.   *)
LEMMA GivenUp ==
  ASSUME TypeInv, NEW calls \in SUBSET ServerCall, GiveUp(calls)
  PROVE  /\ serving' \in [Worker -> ServerCall]
         /\ serving'["phone"] =
              IF serving["phone"] \in calls THEN NoCall ELSE serving["phone"]
         /\ \A w \in Slot : serving'[w] # serving[w] =>
              serving[w] = NoCall /\ serving'[w] \in calls
         /\ \A v, w \in Slot :
              /\ serving'[v] # serving[v] /\ serving'[w] # serving[w]
              /\ serving'[v] = serving'[w]
              => v = w
<1>0. NoCall \in ServerCall
  BY SessionsAssumption DEF NoCall, ServerCall, Pair
<1>1. PICK kept \in [Slot -> calls \cup {NoCall}] :
        /\ \A w \in Slot : kept[w] # NoCall =>
             serving[w] = NoCall /\ \A v \in Slot \ {w} : kept[v] # kept[w]
        /\ serving' = [w \in Worker |->
             IF w = "phone" THEN IF serving[w] \in calls THEN NoCall ELSE serving[w]
             ELSE IF kept[w] # NoCall THEN kept[w] ELSE serving[w]]
  BY DEF GiveUp
<1>2. \A w \in Slot : serving'[w] = IF kept[w] # NoCall THEN kept[w] ELSE serving[w]
  BY <1>1, WorkerIs
<1>3. serving'["phone"] = IF serving["phone"] \in calls THEN NoCall ELSE serving["phone"]
  BY <1>1, WorkerIs
<1>4. \A w \in Slot : kept[w] \in calls \cup {NoCall}  BY <1>1
<1>5. \A w \in Worker : serving'[w] \in ServerCall
  BY <1>0, <1>2, <1>3, <1>4, ServingType, WorkerIs
<1>6. serving' \in [Worker -> ServerCall]  BY <1>1, <1>5
<1>7. \A w \in Slot : serving'[w] # serving[w] =>
        kept[w] # NoCall /\ serving'[w] = kept[w] /\ serving[w] = NoCall
  BY <1>1, <1>2
<1>8. \A v, w \in Slot : kept[v] # NoCall /\ kept[v] = kept[w] => v = w
  BY <1>1
<1>. QED  BY <1>3, <1>4, <1>6, <1>7, <1>8

(* A call given up uses up no token but its own.                             *)
LEMMA GivenUpSpent ==
  ASSUME TypeInv, NEW calls \in SUBSET ServerCall, GiveUp(calls), UNCHANGED used
  PROVE  \A t \in Spent' : t \in Spent \/ \E c \in calls : c.at \in Spends /\ c.tok = t
<1>1. ASSUME NEW w \in Slot, serving'[w].at \in Spends
      PROVE  \/ serving'[w].tok \in Spent
             \/ \E c \in calls : c.at \in Spends /\ c.tok = serving'[w].tok
  BY <1>1, GivenUp, SpentIs
<1>. QED  BY <1>1, SpentIs

(* The request c is all that changes of the requests, to r.                  *)
CallSet(c, r) ==
  /\ call' \in [Channel -> CallState] /\ call'[c] = r
  /\ \A d \in Channel : d # c => call'[d] = call[d]

LEMMA CallExcept ==
  ASSUME call \in [Channel -> CallState], NEW c \in Channel, NEW r \in CallState,
         call' = [call EXCEPT ![c] = r]
  PROVE  CallSet(c, r)
BY DEF CallSet

CallIs(c, pc, tok, retried, body, k) ==
  /\ call' \in [Channel -> CallState]
  /\ call'[c].pc = pc /\ call'[c].tok = tok /\ call'[c].retried = retried
  /\ call'[c].body = body /\ call'[c].k = k
  /\ \A d \in Channel : d # c => call'[d] = call[d]
CallMoves(c, pc) ==
  CallIs(c, pc, call[c].tok, call[c].retried, call[c].body, call[c].k)
CallGone(c) == CallIs(c, "idle", 0, FALSE, 0, 1)
Asked(c, body) == CallIs(c, "attach", 0, FALSE, body, 1)

LEMMA CallGoes ==
  ASSUME NEW c, NEW r, CallSet(c, r)
  PROVE  CallIs(c, r.pc, r.tok, r.retried, r.body, r.k)
BY DEF CallSet, CallIs

LEMMA CallLeft ==
  ASSUME NEW c, CallSet(c, Idle)
  PROVE  CallGone(c)
<1>1. CallIs(c, Idle.pc, Idle.tok, Idle.retried, Idle.body, Idle.k)  BY CallGoes
<1>2. /\ Idle.pc = "idle" /\ Idle.tok = 0 /\ Idle.retried = FALSE
      /\ Idle.body = 0 /\ Idle.k = 1
  BY DEF Idle
<1>. QED  BY <1>1, <1>2 DEF CallGone

LEMMA CallAsked ==
  ASSUME NEW c
  PROVE  /\ CallSet(c, Started) => Asked(c, 0)
         /\ \A b \in Pair : CallSet(c, [Started EXCEPT !.body = b]) => Asked(c, b)
<1>1. /\ Started \in CallState
      /\ Started.pc = "attach" /\ Started.tok = 0 /\ Started.retried = FALSE
      /\ Started.body = 0 /\ Started.k = 1
  BY IdleType DEF Started, Idle
<1>2. ASSUME CallSet(c, Started) PROVE Asked(c, 0)
  <2>1. CallIs(c, Started.pc, Started.tok, Started.retried, Started.body, Started.k)
    BY <1>2, CallGoes
  <2>. QED  BY <1>1, <2>1 DEF Asked
<1>3. ASSUME NEW b \in Pair, CallSet(c, [Started EXCEPT !.body = b]) PROVE Asked(c, b)
  <2> DEFINE r == [Started EXCEPT !.body = b]
  <2>1. CallIs(c, r.pc, r.tok, r.retried, r.body, r.k)  BY <1>3, CallGoes
  <2>2. /\ r.pc = Started.pc /\ r.tok = Started.tok /\ r.retried = Started.retried
        /\ r.body = b /\ r.k = Started.k
    BY <1>1 DEF CallState
  <2>. QED  BY <1>1, <2>1, <2>2 DEF Asked
<1>. QED  BY <1>2, <1>3

LEMMA CallMoved ==
  ASSUME TypeInv, NEW c \in Channel, NEW pc, CallSet(c, [call[c] EXCEPT !.pc = pc])
  PROVE  CallMoves(c, pc)
<1>1. call[c] \in CallState  BY Types
<1>. QED  BY <1>1, CallGoes DEF CallMoves, CallState

(* The other records a step leaves, field by field                           *)
RefreshIs(pc, tok, new) ==
  refresh' \in RefreshState /\ refresh'.pc = pc /\ refresh'.tok = tok /\ refresh'.new = new
StoreIs(access, token, session) ==
  /\ store' \in StoreCells
  /\ store'.access = access /\ store'.refresh = token /\ store'.session = session
FlowIs(f, pc, user, tok, e, k) ==
  f \in Flow /\ f.pc = pc /\ f.user = user /\ f.tok = tok /\ f.epoch = e /\ f.k = k
FlowMoves(f, g, pc) == FlowIs(g, pc, f.user, f.tok, f.epoch, f.k)
FlowEnds(f) == FlowIs(f, "idle", None, 0, 0, 1)

LEMMA FlowEnded == FlowEnds(NoFlow)
BY NoFlowType DEF FlowEnds, FlowIs, NoFlow

AskDoes(c) ==
  /\ c \in Channel /\ auth \in User /\ call[c].pc = "idle"
  /\ Asked(c, 0)
  /\ UNCHANGED <<issued, recorded, blacklisted, expired, serving, used, doubled, Spent,
                 store, auth, epoch, refresh, clears, restore, login, logout, overlap>>
LEMMA AskEffect ==
  ASSUME TypeInv, NEW c \in Api, Ask(c)
  PROVE  AskDoes(c)
<1>1. c \in Channel  BY DEF Channel
<1>2. CallSet(c, Started)  BY <1>1, Types, IdleType, CallExcept DEF Ask
<1>. QED  BY <1>1, <1>2, CallAsked, ServerStays DEF Ask, flows, AskDoes

AttachDoes(c) ==
  LET t == IF store.access # 0 THEN store.access ELSE call[c].tok IN
  /\ call[c].pc = "attach"
  /\ CallIs(c, "sent", t, call[c].retried, call[c].body, call[c].k)
  /\ UNCHANGED <<issued, recorded, blacklisted, expired, serving, used, doubled, Spent,
                 store, auth, epoch, refresh, clears, restore, login, logout, overlap>>
LEMMA AttachEffect ==
  ASSUME TypeInv, NEW c \in Channel, Attach(c)
  PROVE  AttachDoes(c)
<1> DEFINE t == IF store.access # 0 THEN store.access ELSE call[c].tok
           r == [call[c] EXCEPT !.pc = "sent", !.tok = t]
<1>1. t \in Pair /\ call[c] \in CallState  BY Types DEF StoreCells, CallState
<1>2. r \in CallState  BY <1>1 DEF CallState
<1>3. call' = [call EXCEPT ![c] = r]  BY Types DEF Attach
<1>4. UNCHANGED <<issued, recorded, blacklisted, expired, serving, used, doubled, Spent,
                  store, auth, epoch, refresh, clears, restore, login, logout, overlap>>
  BY ServerStays DEF Attach, flows
<1>5. CallSet(c, r)  BY <1>2, <1>3, Types, CallExcept
<1>6. CallIs(c, r.pc, r.tok, r.retried, r.body, r.k)  BY <1>5, CallGoes
<1> HIDE DEF t
<1>7. /\ r.pc = "sent" /\ r.tok = t /\ r.retried = call[c].retried
      /\ r.body = call[c].body /\ r.k = call[c].k
  BY <1>1 DEF CallState
<1>. QED  BY <1>4, <1>6, <1>7 DEF Attach, t, AttachDoes

(* A request of a screen is gone, another has its result.                    *)
LEMMA EndedType ==
  ASSUME TypeInv, NEW c \in Channel, NEW result \in {"ok", "failed"}
  PROVE  /\ Ended(c, result) \in CallState
         /\ Ended(c, result) = IF c \in Api THEN Idle ELSE [call[c] EXCEPT !.pc = result]
BY Types, IdleType DEF Ended, CallState

SucceedDoes(c) ==
  /\ call[c].pc = "sent" /\ call[c].tok # 0
  /\ IF c \in Api THEN CallGone(c) ELSE CallMoves(c, "ok")
  /\ Served(c)
  /\ Spent' \subseteq Spent \cup {call[c].body}
  /\ c # "logout" => UNCHANGED Spent
  /\ UNCHANGED <<issued, recorded, expired, serving, doubled, store, auth, epoch, refresh,
                 clears, restore, login, logout, overlap>>
LEMMA SucceedEffect ==
  ASSUME TypeInv, NEW c \in Channel, Succeed(c)
  PROVE  SucceedDoes(c)
<1>1. CallSet(c, Ended(c, "ok"))  BY Types, EndedType, CallExcept DEF Succeed
<1>2. Served(c) /\ UNCHANGED serving  BY DEF Succeed
<1>3. /\ Spent' \subseteq Spent \cup {call[c].body}
      /\ c # "logout" => UNCHANGED Spent
  <2>1. used' \subseteq used \cup {call[c].body} /\ used \subseteq used'
    BY <1>2 DEF Served, Revoke
  <2>2. c # "logout" => UNCHANGED used  BY <1>2 DEF Served
  <2>. QED  BY <1>2, <2>1, <2>2, SpentIs
<1>. QED
  BY <1>1, <1>3, EndedType, CallLeft, CallMoved DEF Succeed, Accepted, flows, SucceedDoes

DeniedDoes(c) ==
  /\ call[c].pc = "sent"
  /\ \/ /\ ~call[c].retried /\ CallMoves(c, "waiting")
        /\ \/ refresh.pc # "idle" /\ UNCHANGED refresh
           \/ refresh.pc = "idle" /\ RefreshIs("read", refresh.tok, refresh.new)
     \/ call[c].retried /\ CallMoves(c, "clear") /\ UNCHANGED refresh
  /\ UNCHANGED <<issued, recorded, blacklisted, expired, serving, used, doubled, Spent,
                 store, auth, epoch, clears, restore, login, logout, overlap>>
LEMMA DeniedEffect ==
  ASSUME TypeInv, NEW c \in Channel, Denied(c)
  PROVE  DeniedDoes(c)
<1> DEFINE w == [call[c] EXCEPT !.pc = "waiting"]
           r == [call[c] EXCEPT !.pc = "clear", !.again = TRUE]
<1>1. w \in CallState /\ r \in CallState /\ call[c].retried \in BOOLEAN
  BY Types DEF CallState
<1>2. CASE ~call[c].retried
  <2>1. call' = [call EXCEPT ![c] = w]
    BY <1>2, Types DEF Denied, MayRefresh
  <2>2. CallMoves(c, "waiting")  BY <1>1, <2>1, Types, CallExcept, CallMoved
  <2>3. CASE refresh.pc = "idle"
    <3>1. refresh' = [refresh EXCEPT !.pc = "read"]  BY <1>2, <2>3 DEF Denied, MayRefresh
    <3>2. RefreshIs("read", refresh.tok, refresh.new)
      BY <3>1, Types DEF RefreshIs, RefreshState
    <3>. QED  BY <1>2, <2>2, <2>3, <3>2, ServerStays DEF Denied, MayRefresh, flows, DeniedDoes
  <2>4. CASE refresh.pc # "idle"
    BY <1>2, <2>2, <2>4, ServerStays DEF Denied, MayRefresh, flows, DeniedDoes
  <2>. QED  BY <2>3, <2>4
<1>3. CASE call[c].retried
  <2>1. call' = [call EXCEPT ![c] = r]
    BY <1>3, Types DEF Denied, MayRefresh
  <2>2. CallSet(c, r)  BY <1>1, <2>1, Types, CallExcept
  <2>3. CallIs(c, r.pc, r.tok, r.retried, r.body, r.k)  BY <2>2, CallGoes
  <2>4. /\ r.pc = "clear" /\ r.tok = call[c].tok /\ r.retried = call[c].retried
        /\ r.body = call[c].body /\ r.k = call[c].k
    BY Types DEF CallState
  <2>5. CallMoves(c, "clear")  BY <2>3, <2>4 DEF CallMoves
  <2>. QED  BY <1>3, <2>5, ServerStays DEF Denied, MayRefresh, flows, DeniedDoes
<1>. QED  BY <1>2, <1>3 DEF DeniedDoes

LoseRequestDoes(c) ==
  /\ call[c].pc = "sent"
  /\ IF call[c].retried THEN CallMoves(c, "clear")
     ELSE IF c \in Api THEN CallGone(c) ELSE CallMoves(c, "failed")
  /\ serving' \in [Worker -> ServerCall]
  /\ Spent' \subseteq Spent \cup {call[c].body}
  /\ c # "logout" => Spent' \subseteq Spent
  /\ \/ UNCHANGED serving["phone"]
     \/ serving["phone"].at = "logout" /\ serving'["phone"].at = "none"
  /\ UNCHANGED <<issued, recorded, blacklisted, expired, used, doubled, store, auth, epoch,
                 refresh, clears, restore, login, logout, overlap>>
LEMMA LoseRequestEffect ==
  ASSUME TypeInv, NEW c \in Channel, LoseRequest(c)
  PROVE  LoseRequestDoes(c)
<1>0. /\ serving' \in [Worker -> ServerCall]
      /\ Spent' \subseteq Spent \cup {call[c].body}
      /\ c # "logout" => Spent' \subseteq Spent
      /\ \/ UNCHANGED serving["phone"]
         \/ serving["phone"].at = "logout" /\ serving'["phone"].at = "none"
  <2> DEFINE calls == IF c = "logout" /\ Accepted(c) THEN {LogoutCall(call[c].body)} ELSE {}
  <2>1. GiveUp(calls) /\ UNCHANGED used  BY DEF LoseRequest
  <2>2. call[c].body \in Pair  BY Types DEF CallState
  <2>3. \A d \in calls : /\ d \in ServerCall /\ d.at = "logout" /\ d.tok = call[c].body
                         /\ c = "logout"
    BY <2>2 DEF LogoutCall, ServerCall
  <2>4. calls \in SUBSET ServerCall  BY <2>3
  <2> HIDE DEF calls
  <2>5. NoCall.at = "none"  BY DEF NoCall
  <2>6. \A t \in Spent' : t \in Spent \/ \E d \in calls : d.at \in Spends /\ d.tok = t
    BY <2>1, <2>4, GivenUpSpent
  <2>. QED  BY <2>1, <2>3, <2>4, <2>5, <2>6, GivenUp
<1> DEFINE r == [call[c] EXCEPT !.pc = "clear"]
<1>1. r \in CallState /\ call[c].retried \in BOOLEAN  BY Types DEF CallState
<1>2. CASE ~call[c].retried
  <2>1. CallSet(c, Ended(c, "failed"))
    BY <1>2, Types, EndedType, CallExcept DEF LoseRequest
  <2>. QED  BY <1>2, <1>0, <2>1, EndedType, CallLeft, CallMoved
    DEF LoseRequest, flows, LoseRequestDoes
<1>3. CASE call[c].retried
  <2>1. call' = [call EXCEPT ![c] = r]  BY <1>3, Types DEF LoseRequest
  <2>2. CallSet(c, r)  BY <1>1, <2>1, Types, CallExcept
  <2>. QED  BY <1>0, <1>3, <2>2, CallMoved DEF LoseRequest, flows, LoseRequestDoes
<1>. QED  BY <1>2, <1>3 DEF LoseRequestDoes

Emptying(k) ==
  StoreIs(IF k = 1 THEN 0 ELSE store.access, IF k = 2 THEN 0 ELSE store.refresh,
          IF k = 3 THEN None ELSE store.session)

(* A deletion by a flow                                                      *)
LEMMA DeleteEffect ==
  ASSUME TypeInv, NEW flow, flow.k \in Pos, DeleteCell(flow)
  PROVE  /\ Emptying(flow.k)
         /\ overlap' = (overlap \/ refresh.pc # "idle")
BY Types, EmptiedCell DEF DeleteCell, Emptying, StoreIs

ClearingFrom(c, k) ==
  CallIs(c, "clear", call[c].tok, call[c].retried, call[c].body, k)

InvalidateDoes(c) ==
  /\ call[c].pc = "clear" /\ call[c].k \in Pos /\ DeleteCell(call[c])
  /\ \/ /\ call[c].k < 3 /\ ClearingFrom(c, call[c].k + 1)
        /\ UNCHANGED <<auth, epoch, clears>>
     \/ /\ call[c].k = 3 /\ Invalidated
        /\ \/ ClearingFrom(c, 1)
           \/ c \in Api /\ CallGone(c)
           \/ c \notin Api /\ CallMoves(c, "failed")
  /\ UNCHANGED <<issued, recorded, blacklisted, expired, serving, used, doubled, Spent,
                 refresh, restore, login, logout>>
LEMMA InvalidateEffect ==
  ASSUME TypeInv, NEW c \in Channel, InvalidateSession(c)
  PROVE  InvalidateDoes(c)
<1>1. call[c] \in CallState /\ call[c].k \in {1, 2, 3}  BY Types, Cells DEF CallState
<1>2. UNCHANGED <<issued, recorded, blacklisted, expired, serving, used, doubled, Spent,
                  refresh, restore, login, logout>>
  BY ServerStays DEF InvalidateSession, flows
<1>3. CASE call[c].k < 3
  <2> DEFINE r == [call[c] EXCEPT !.k = call[c].k + 1]
  <2>1. r \in CallState  BY <1>1, <1>3, Cells DEF CallState
  <2>2. call' = [call EXCEPT ![c] = r]
    BY <1>3, Cells, Types DEF InvalidateSession
  <2>3. CallSet(c, r)  BY <2>1, <2>2, Types, CallExcept
  <2>5. CallIs(c, r.pc, r.tok, r.retried, r.body, r.k)  BY <2>3, CallGoes
  <2>6. /\ r.pc = call[c].pc /\ r.tok = call[c].tok /\ r.retried = call[c].retried
        /\ r.body = call[c].body /\ r.k = call[c].k + 1
    BY <1>1 DEF CallState
  <2>4. call[c].pc = "clear" => ClearingFrom(c, call[c].k + 1)
    BY <2>5, <2>6 DEF ClearingFrom
  <2>. QED  BY <1>1, <1>2, <1>3, <2>4, Cells DEF InvalidateSession, InvalidateDoes
<1>4. CASE call[c].k = 3 /\ call[c].again
  <2> DEFINE r == [call[c] EXCEPT !.again = FALSE, !.k = 1]
  <2>1. r \in CallState  BY <1>1, Cells DEF CallState
  <2>2. call' = [call EXCEPT ![c] = r]
    BY <1>4, Cells, Types DEF InvalidateSession
  <2>3. CallSet(c, r)  BY <2>1, <2>2, Types, CallExcept
  <2>5. CallIs(c, r.pc, r.tok, r.retried, r.body, r.k)  BY <2>3, CallGoes
  <2>6. /\ r.pc = call[c].pc /\ r.tok = call[c].tok /\ r.retried = call[c].retried
        /\ r.body = call[c].body /\ r.k = 1
    BY <1>1 DEF CallState
  <2>4. call[c].pc = "clear" => ClearingFrom(c, 1)  BY <2>5, <2>6 DEF ClearingFrom
  <2>. QED  BY <1>1, <1>2, <1>4, <2>4, Cells DEF InvalidateSession, InvalidateDoes
<1>5. CASE call[c].k = 3 /\ ~call[c].again
  <2>1. call' = [call EXCEPT ![c] = Ended(c, "failed")]
    BY <1>5, Cells, Types DEF InvalidateSession
  <2>2. CallSet(c, Ended(c, "failed"))  BY <2>1, EndedType, Types, CallExcept
  <2>3. IF c \in Api THEN CallGone(c) ELSE CallMoves(c, "failed")
    BY <2>2, EndedType, CallLeft, CallMoved
  <2>. QED  BY <1>1, <1>2, <1>5, <2>3, Cells DEF InvalidateSession, InvalidateDoes
<1>6. call[c].again \in BOOLEAN  BY <1>1 DEF CallState
<1>. QED  BY <1>1, <1>3, <1>4, <1>5, <1>6 DEF InvalidateDoes

(* One of the clears nobody waits for                                        *)
ClearDoes(i) ==
  /\ clears[i] \in Pos /\ Emptying(clears[i])
  /\ clears' \in Seq(Pos)
  /\ \A j \in DOMAIN clears : j # i =>
       \E l \in DOMAIN clears' : clears'[l] = clears[j]
  /\ overlap' = (overlap \/ refresh.pc # "idle")
  /\ UNCHANGED <<issued, recorded, blacklisted, expired, serving, used, doubled, Spent,
                 auth, epoch, call, refresh, restore, login, logout>>
LEMMA ClearEffect ==
  ASSUME TypeInv, NEW i \in DOMAIN clears, Clear(i)
  PROVE  ClearDoes(i)
<1>1. clears \in Seq(Pos) /\ i \in 1..Len(clears) /\ clears[i] \in {1, 2, 3}
  BY Types, ElementOfSeq, Cells
<1>0. Emptying(clears[i])
  BY <1>1, Types, Cells, EmptiedCell DEF Clear, Emptying, StoreIs
<1>2. CASE clears[i] = 3
  <2> DEFINE before == SubSeq(clears, 1, i - 1)
             after  == SubSeq(clears, i + 1, Len(clears))
  <2>1. \A j \in 1..Len(clears) : clears[j] \in Pos  BY <1>1, ElementOfSeq
  <2>2. /\ before \in Seq(Pos) /\ Len(before) = i - 1
        /\ \A j \in 1..(i - 1) : before[j] = clears[j]
    BY <1>1, <2>1, SubSeqProperties
  <2>3. /\ after \in Seq(Pos) /\ Len(after) = Len(clears) - i
        /\ \A j \in 1..(Len(clears) - i) : after[j] = clears[j + i]
    BY <1>1, <2>1, SubSeqProperties
  <2>4. clears' = before \o after
    BY <1>2, Cells DEF Clear, RemoveAt
  <2> HIDE DEF before, after
  <2>7. /\ clears' \in Seq(Pos) /\ Len(clears') = Len(before) + Len(after)
        /\ \A j \in 1..(Len(before) + Len(after)) : clears'[j] =
             IF j <= Len(before) THEN before[j] ELSE after[j - Len(before)]
    BY <2>2, <2>3, <2>4, ConcatProperties
  <2>5. /\ clears' \in Seq(Pos) /\ Len(clears') = Len(clears) - 1
        /\ \A j \in 1..(Len(clears) - 1) : clears'[j] =
             IF j <= i - 1 THEN before[j] ELSE after[j - (i - 1)]
    <3>1. Len(clears) \in Nat /\ i \in Int  BY <1>1, LenProperties
    <3>2. Len(before) = i - 1 /\ Len(before) + Len(after) = Len(clears) - 1
      BY <2>2, <2>3, <3>1
    <3>. QED  BY <2>7, <3>2
  <2>6. ASSUME NEW j \in DOMAIN clears, j # i
        PROVE  \E l \in DOMAIN clears' : clears'[l] = clears[j]
    <3>1. CASE j < i
      BY <1>1, <2>2, <2>5, <2>6, <3>1
    <3>2. CASE j > i
      <4>1. j - 1 \in DOMAIN clears'  BY <1>1, <2>5, <2>6, <3>2
      <4>2. clears'[j - 1] = after[j - i]  BY <1>1, <2>5, <2>6, <3>2
      <4>3. after[j - i] = clears[j]  BY <1>1, <2>3, <2>6, <3>2
      <4>. QED  BY <4>1, <4>2, <4>3
    <3>. QED  BY <1>1, <2>6, <3>1, <3>2
  <2>. QED  BY <1>0, <1>1, <2>5, <2>6, Cells, ServerStays DEF Clear, flows, ClearDoes
<1>3. CASE clears[i] # 3
  <2>1. clears' = [clears EXCEPT ![i] = clears[i] + 1]
    BY <1>3, Cells DEF Clear
  <2>2. clears[i] + 1 \in Pos  BY <1>1, <1>3, Cells
  <2>3. clears' \in Seq(Pos) /\ DOMAIN clears' = DOMAIN clears
    BY <1>1, <2>1, <2>2, ExceptSeq
  <2>. QED  BY <1>0, <1>1, <2>1, <2>3, Cells, ServerStays DEF Clear, flows, ClearDoes
<1>. QED  BY <1>2, <1>3 DEF ClearDoes

(* Every request that waits goes on with the answer.                         *)
CompletedDoes(new) ==
  /\ RefreshIs("idle", 0, 0)
  /\ call' \in [Channel -> CallState]
  /\ \A c \in Channel :
       IF call[c].pc # "waiting" THEN call'[c] = call[c]
       ELSE /\ call'[c].pc = IF new = 0 THEN "clear" ELSE "attach"
            /\ call'[c].tok = IF new = 0 THEN call[c].tok ELSE new
            /\ call'[c].retried = IF new = 0 THEN call[c].retried ELSE TRUE
            /\ call'[c].body = call[c].body /\ call'[c].k = call[c].k
LEMMA CompletedEffect ==
  ASSUME TypeInv, NEW new \in Pair, Completed(new)
  PROVE  CompletedDoes(new)
<1>1. \A c \in Channel : [call[c] EXCEPT !.pc = "clear"] \in CallState
  BY Types DEF CallState
<1>2. \A c \in Channel :
        [call[c] EXCEPT !.pc = "attach", !.retried = TRUE, !.tok = new] \in CallState
  BY Types DEF CallState
<1>3. call' \in [Channel -> CallState]  BY <1>1, <1>2, Types DEF Completed
<1>4. RefreshIs("idle", 0, 0)
  BY NoRefreshType DEF Completed, RefreshIs, NoRefresh
<1>5. ASSUME NEW c \in Channel, call[c].pc = "waiting", new = 0
      PROVE  /\ call'[c].pc = "clear" /\ call'[c].tok = call[c].tok
             /\ call'[c].retried = call[c].retried
             /\ call'[c].body = call[c].body /\ call'[c].k = call[c].k
  <2>1. call'[c] = [call[c] EXCEPT !.pc = "clear"]  BY <1>5 DEF Completed
  <2>2. call[c] \in CallState  BY Types
  <2>. QED  BY <2>1, <2>2 DEF CallState
<1>6. ASSUME NEW c \in Channel, call[c].pc = "waiting", new # 0
      PROVE  /\ call'[c].pc = "attach" /\ call'[c].tok = new
             /\ call'[c].retried = TRUE
             /\ call'[c].body = call[c].body /\ call'[c].k = call[c].k
  <2>1. call'[c] = [call[c] EXCEPT !.pc = "attach", !.retried = TRUE, !.tok = new]
    BY <1>6 DEF Completed
  <2>2. call[c] \in CallState  BY Types
  <2>. QED  BY <2>1, <2>2 DEF CallState
<1>7. \A c \in Channel : call[c].pc # "waiting" => call'[c] = call[c]
  BY DEF Completed
<1>. QED  BY <1>3, <1>4, <1>5, <1>6, <1>7 DEF CompletedDoes

ReadRefreshTokenDoes ==
  /\ refresh.pc = "read"
  /\ \/ store.refresh = 0 /\ Completed(0) /\ UNCHANGED serving
     \/ /\ store.refresh # 0 /\ UNCHANGED call
        /\ RefreshIs("posted", store.refresh, refresh.new)
        /\ ServesOne("phone", "check", store.refresh)
  /\ Spent' \subseteq Spent
  /\ UNCHANGED <<issued, recorded, blacklisted, expired, used, doubled,
                 store, auth, epoch, clears, restore, login, logout, overlap>>
LEMMA ReadRefreshTokenEffect ==
  ASSUME TypeInv, ReadRefreshToken
  PROVE  ReadRefreshTokenDoes
<1>1. store.refresh \in Pair  BY Types DEF StoreCells
<1>2. [refresh EXCEPT !.pc = "posted", !.tok = store.refresh] \in RefreshState
  BY <1>1, Types DEF RefreshState
<1>3. ASSUME refresh' = [refresh EXCEPT !.pc = "posted", !.tok = store.refresh]
      PROVE  RefreshIs("posted", store.refresh, refresh.new)
  BY <1>2, <1>3, Types DEF RefreshIs, RefreshState
<1>4. CASE store.refresh = 0
  <2>1. Spent' \subseteq Spent  BY <1>4, SlotsSpent DEF ReadRefreshToken
  <2>. QED  BY <1>4, <2>1 DEF ReadRefreshToken, flows, ReadRefreshTokenDoes
<1>5. CASE store.refresh # 0
  <2>1. ServesOne("phone", "check", store.refresh)
    BY <1>1, <1>5, ServesRefresh, WorkerIs DEF ReadRefreshToken
  <2>2. UNCHANGED used  BY DEF ReadRefreshToken
  <2>3. Spent' \subseteq Spent  BY <2>1, <2>2, SlotsSpent, WorkerIs DEF ServesOne
  <2>. QED  BY <1>3, <1>5, <2>1, <2>3 DEF ReadRefreshToken, flows, ReadRefreshTokenDoes
<1>. QED  BY <1>4, <1>5

CheckRefreshDoes(w) ==
  LET t == serving[w].tok IN
  /\ serving[w].at = "check"
  /\ \/ /\ t \in blacklisted /\ ServesOne(w, "none", 0) /\ UNCHANGED doubled
        /\ IF w = "phone" THEN Completed(0) ELSE UNCHANGED <<call, refresh>>
     \/ /\ t \notin blacklisted /\ ServesOne(w, "blacklist", t)
        /\ doubled' = doubled + (IF Checked(t) THEN 1 ELSE 0)
        /\ UNCHANGED <<call, refresh>>
  /\ Spent' \subseteq Spent
  /\ UNCHANGED <<issued, recorded, blacklisted, expired, used,
                 store, auth, epoch, clears, restore, login, logout, overlap>>
LEMMA CheckRefreshEffect ==
  ASSUME TypeInv, NEW w \in Worker, CheckRefresh(w)
  PROVE  CheckRefreshDoes(w)
<1> DEFINE t == serving[w].tok
<1>1. serving[w].at = "check" /\ UNCHANGED used  BY DEF CheckRefresh
<1>2. CASE t \in blacklisted
  <2>1. ServesOne(w, "none", 0)  BY <1>2, ServesDone DEF CheckRefresh
  <2>2. Spent' \subseteq Spent  BY <1>1, <2>1, ServesSpent
  <2>. QED  BY <1>2, <2>1, <2>2 DEF CheckRefresh, flows, CheckRefreshDoes
<1>3. CASE t \notin blacklisted
  <2>1. ServesOne(w, "blacklist", t)  BY <1>3, ServesNext DEF CheckRefresh
  <2>2. Spent' \subseteq Spent  BY <1>1, <2>1, ServesSpent DEF Spends
  <2>. QED  BY <1>3, <2>1, <2>2 DEF CheckRefresh, flows, CheckRefreshDoes
<1>. QED  BY <1>2, <1>3

BlacklistRefreshDoes(w) ==
  LET t == serving[w].tok IN
  /\ serving[w].at = "blacklist" /\ ServesOne(w, "issue", t)
  /\ blacklisted' = blacklisted \cup {t} /\ used' = used \cup {t}
  /\ Spent' \subseteq Spent \cup {t}
  /\ w \in Slot => Spent' \subseteq Spent
  /\ UNCHANGED <<issued, recorded, expired, doubled, store, auth, epoch,
                 call, refresh, clears, restore, login, logout, overlap>>
LEMMA BlacklistRefreshEffect ==
  ASSUME TypeInv, NEW w \in Worker, BlacklistRefresh(w)
  PROVE  BlacklistRefreshDoes(w)
<1> DEFINE t == serving[w].tok
<1>1. serving[w].at = "blacklist" /\ used' = used \cup {t}  BY DEF BlacklistRefresh
<1>2. ServesOne(w, "issue", t)  BY ServesNext DEF BlacklistRefresh
<1>3. Spent' \subseteq Spent \cup {t} /\ (w \in Slot => Spent' \subseteq Spent)
  BY <1>1, <1>2, ServesSpent DEF Spends
<1>. QED  BY <1>2, <1>3 DEF BlacklistRefresh, Rotated, flows, BlacklistRefreshDoes

(* The token a call of the server is about                                   *)
LEMMA ServedToken ==
  ASSUME TypeInv, ServingInv, NEW w \in Worker,
         serving[w].at \in {"check", "blacklist", "issue", "logout"}
  PROVE  /\ serving[w].tok \in DOMAIN issued /\ issued[serving[w].tok] \in User
         /\ serving[w].tok \in Nat /\ serving[w].tok <= Len(issued)
<1>1. serving[w].tok # 0 /\ serving[w].tok <= Len(issued)  BY DEF ServingInv
<1>2. serving[w].tok \in Nat  BY ServingType, SessionsAssumption DEF ServerCall, Pair
<1>3. serving[w].tok \in 1..Len(issued)  BY <1>1, <1>2, Types, LenProperties
<1>. QED  BY <1>1, <1>2, <1>3, Types, ElementOfSeq, LenProperties

IssueRefreshDoes(w) ==
  LET t == serving[w].tok IN
  /\ serving[w].at = "issue" /\ ServesOne(w, "none", 0)
  /\ t \in DOMAIN issued /\ issued[t] \in User
  /\ Len(issued) < MaxPairs /\ Issue(issued[t])
  /\ IF w = "phone" THEN RefreshIs("saveAccess", refresh.tok, Len(issued) + 1)
     ELSE UNCHANGED refresh
  /\ Spent' \subseteq Spent
  /\ UNCHANGED <<recorded, blacklisted, expired, used, doubled, store, auth, epoch,
                 call, clears, restore, login, logout, overlap>>
LEMMA IssueRefreshEffect ==
  ASSUME TypeInv, ServingInv, NEW w \in Worker, IssueRefresh(w)
  PROVE  IssueRefreshDoes(w)
<1>1. serving[w].at = "issue" /\ UNCHANGED used /\ Len(issued) < MaxPairs
  BY DEF IssueRefresh
<1>2. ServesOne(w, "none", 0)  BY ServesDone DEF IssueRefresh
<1>3. Spent' \subseteq Spent  BY <1>1, <1>2, ServesSpent
<1>4. ASSUME NEW n \in Pair, refresh' = [refresh EXCEPT !.pc = "saveAccess", !.new = n]
      PROVE  RefreshIs("saveAccess", refresh.tok, n)
  BY <1>4, Types DEF RefreshIs, RefreshState
<1>5. Len(issued) + 1 \in Pair
  BY <1>1, Types, LenProperties, SessionsAssumption DEF Pair
<1>6. IF w = "phone" THEN RefreshIs("saveAccess", refresh.tok, Len(issued) + 1)
      ELSE UNCHANGED refresh
  <2>1. CASE w = "phone"
    <3>1. refresh' = [refresh EXCEPT !.pc = "saveAccess", !.new = Len(issued) + 1]
      BY <2>1 DEF IssueRefresh
    <3>. QED  BY <1>4, <1>5, <2>1, <3>1
  <2>2. CASE w # "phone"
    <3>1. refresh' = refresh  BY <2>2 DEF IssueRefresh
    <3>. QED  BY <2>2, <3>1
  <2>. QED  BY <2>1, <2>2
<1>7. serving[w].tok \in DOMAIN issued /\ issued[serving[w].tok] \in User
  BY <1>1, ServedToken
<1>. QED  BY <1>2, <1>3, <1>6, <1>7 DEF IssueRefresh, flows, IssueRefreshDoes

ServeLateDoes(w) ==
  LET t == serving[w].tok  u == serving[w].user IN
  /\ w \in Slot /\ ServesOne(w, "none", 0)
  /\ \/ /\ serving[w].at = "login" /\ u \in User
        /\ Len(issued) < MaxPairs /\ Issue(u)
        /\ recorded' = recorded \cup {Len(issued) + 1}
        /\ UNCHANGED <<blacklisted, used>>
     \/ /\ serving[w].at = "logout" /\ t \in DOMAIN issued /\ Revoke(t)
        /\ UNCHANGED <<issued, recorded>>
  /\ Spent' \subseteq Spent
  /\ UNCHANGED <<expired, doubled, store, auth, epoch, call, refresh,
                 clears, restore, login, logout, overlap>>
LEMMA ServeLateEffect ==
  ASSUME TypeInv, ServingInv, NEW w \in Worker, ServeLate(w)
  PROVE  ServeLateDoes(w)
<1>1. ServesOne(w, "none", 0)  BY ServesDone DEF ServeLate
<1>2. serving[w].at \in {"login", "logout"}  BY DEF ServeLate
<1>3. w \in Slot  BY <1>2, WorkerIs DEF ServingInv
<1>4. CASE serving[w].at = "login"
  <2>1. serving[w].user \in User  BY <1>4 DEF ServingInv
  <2>2. UNCHANGED used  BY <1>4 DEF ServeLate
  <2>3. Spent' \subseteq Spent  BY <1>1, <2>2, ServesSpent
  <2>. QED  BY <1>1, <1>3, <1>4, <2>1, <2>3 DEF ServeLate, flows, ServeLateDoes
<1>5. CASE serving[w].at = "logout"
  <2>1. serving[w].tok \in DOMAIN issued  BY <1>5, ServedToken
  <2>2. used' = used \cup {serving[w].tok}  BY <1>5 DEF ServeLate, Revoke
  <2>3. Spent' \subseteq Spent  BY <1>1, <1>3, <1>5, <2>2, ServesSpent DEF Spends
  <2>. QED  BY <1>1, <1>3, <1>5, <2>1, <2>3 DEF ServeLate, flows, ServeLateDoes
<1>. QED  BY <1>2, <1>4, <1>5

SaveAccessDoes ==
  /\ refresh.pc = "saveAccess"
  /\ RefreshIs("saveRefresh", refresh.tok, refresh.new)
  /\ StoreIs(refresh.new, store.refresh, store.session)
  /\ UNCHANGED <<issued, recorded, blacklisted, expired, serving, used, doubled, Spent,
                 auth, epoch, call, clears, restore, login, logout, overlap>>
LEMMA SaveAccessEffect ==
  ASSUME TypeInv, SaveAccess
  PROVE  SaveAccessDoes
<1>1. refresh.new \in Pair  BY Types DEF RefreshState
<1>2. [store EXCEPT !.access = refresh.new] \in StoreCells  BY <1>1, Types DEF StoreCells
<1>3. [refresh EXCEPT !.pc = "saveRefresh"] \in RefreshState  BY Types DEF RefreshState
<1>4. SaveAccess => StoreIs(refresh.new, store.refresh, store.session)
  BY <1>2, Types DEF SaveAccess, StoreIs, StoreCells
<1>5. SaveAccess => RefreshIs("saveRefresh", refresh.tok, refresh.new)
  BY <1>3, Types DEF SaveAccess, RefreshIs, RefreshState
<1>. QED  BY <1>4, <1>5, ServerStays DEF SaveAccess, flows, SaveAccessDoes

SaveRefreshDoes ==
  /\ refresh.pc = "saveRefresh" /\ refresh.new \in Pair
  /\ Completed(refresh.new)
  /\ StoreIs(store.access, refresh.new, store.session)
  /\ UNCHANGED <<issued, recorded, blacklisted, expired, serving, used, doubled, Spent,
                 auth, epoch, clears, restore, login, logout, overlap>>
LEMMA SaveRefreshEffect ==
  ASSUME TypeInv, SaveRefresh
  PROVE  SaveRefreshDoes
<1>1. refresh.new \in Pair  BY Types DEF RefreshState
<1>2. [store EXCEPT !.refresh = refresh.new] \in StoreCells  BY <1>1, Types DEF StoreCells
<1>3. StoreIs(store.access, refresh.new, store.session)
  BY <1>2, Types DEF SaveRefresh, RefreshSaved, StoreIs, StoreCells
<1>. QED  BY <1>1, <1>3, ServerStays DEF SaveRefresh, flows, SaveRefreshDoes

LoseRefreshDoes ==
  /\ refresh.pc \in {"posted", "saveAccess"} /\ Completed(0)
  /\ serving' \in [Worker -> ServerCall] /\ serving'["phone"].at = "none"
  /\ serving'["phone"].tok = 0
  /\ UNCHANGED <<issued, recorded, blacklisted, expired, used, doubled,
                 store, auth, epoch, clears, restore, login, logout, overlap>>
LEMMA LoseRefreshEffect ==
  ASSUME TypeInv, LoseRefresh
  PROVE  LoseRefreshDoes
<1>1. {serving["phone"]} \in SUBSET ServerCall  BY ServingType, WorkerIs
<1>2. serving' \in [Worker -> ServerCall] /\ serving'["phone"] = NoCall
  BY <1>1, GivenUp DEF LoseRefresh
<1>3. NoCall.at = "none" /\ NoCall.tok = 0  BY DEF NoCall
<1>. QED  BY <1>2, <1>3 DEF LoseRefresh, flows, LoseRefreshDoes

LoginAnsweredDoes ==
  LET n == Len(issued) + 1 IN
  /\ login.pc = "post" /\ n \in Pair /\ login.user \in User
  /\ Issue(login.user) /\ recorded' = recorded \cup {n}
  /\ FlowIs(login', "saveAccess", login.user, n, login.epoch, login.k)
  /\ Spent' \subseteq Spent
  /\ UNCHANGED <<blacklisted, expired, serving, used, doubled, store, auth, epoch,
                 call, refresh, clears, restore, logout, overlap>>
LEMMA LoginAnsweredEffect ==
  ASSUME TypeInv, LoginAnswered
  PROVE  LoginAnsweredDoes
<1>1. Len(issued) \in Nat /\ MaxPairs \in Nat  BY Types, SessionsAssumption
<1>2. ASSUME NEW n \in Pair, login' = [login EXCEPT !.pc = "saveAccess", !.tok = n]
      PROVE  FlowIs(login', "saveAccess", login.user, n, login.epoch, login.k)
  BY <1>2, Types DEF FlowIs, Flow
<1>3. Len(issued) < MaxPairs => Len(issued) + 1 \in Pair  BY <1>1 DEF Pair
<1>4. login.pc = "post" => login.user \in User  BY DEF TypeInv, TokensAtHand
<1>5. Spent' \subseteq Spent
  <2>1. serving' = serving /\ used' = used  BY DEF LoginAnswered
  <2>. QED  BY <2>1, SlotsSpent
<1>. QED  BY <1>2, <1>3, <1>4, <1>5 DEF LoginAnswered, LoginAnsweredDoes

StartLoginDoes(u) ==
  /\ SignedOut /\ login.pc = "idle"
  /\ FlowIs(login', "post", u, 0, 0, 1)
  /\ UNCHANGED <<issued, recorded, blacklisted, expired, serving, used, doubled, Spent,
                 store, auth, epoch, call, refresh, clears, restore, logout, overlap>>
LEMMA StartLoginEffect ==
  ASSUME TypeInv, NEW u \in User, StartLogin(u)
  PROVE  StartLoginDoes(u)
<1>1. [NoFlow EXCEPT !.pc = "post", !.user = u] \in Flow  BY NoFlowType DEF Flow
<1>2. FlowIs(login', "post", u, 0, 0, 1)  BY <1>1 DEF StartLogin, FlowIs, NoFlow
<1>. QED  BY <1>2, ServerStays DEF StartLogin, SignedOut, StartLoginDoes

LoginLostDoes ==
  /\ login.pc \in {"post", "saveAccess"}
  /\ FlowEnds(login') /\ auth' = "error"
  /\ serving' \in [Worker -> ServerCall]
  /\ \/ UNCHANGED serving["phone"]
     \/ serving["phone"].at = "login" /\ serving'["phone"].at = "none"
  /\ Spent' \subseteq Spent
  /\ UNCHANGED <<issued, recorded, blacklisted, expired, used, doubled,
                 store, epoch, call, refresh, clears, restore, logout, overlap>>
LEMMA LoginLostEffect ==
  ASSUME TypeInv, LoginLost
  PROVE  LoginLostDoes
<1> DEFINE calls == IF login.pc = "post" THEN {LoginCall(login.user)} ELSE {}
<1>1. GiveUp(calls) /\ UNCHANGED used  BY DEF LoginLost
<1>2. login.user \in User \cup {None} /\ 0 \in Pair
  BY Types, SessionsAssumption DEF Flow, Pair
<1>3. \A d \in calls : d \in ServerCall /\ d.at = "login"
  BY <1>2 DEF LoginCall, ServerCall
<1>4. calls \in SUBSET ServerCall  BY <1>3
<1> HIDE DEF calls
<1>5. NoCall.at = "none"  BY DEF NoCall
<1>6. \A t \in Spent' : t \in Spent \/ \E d \in calls : d.at \in Spends /\ d.tok = t
  BY <1>1, <1>4, GivenUpSpent
<1>7. Spent' \subseteq Spent  BY <1>3, <1>6 DEF Spends
<1>8. /\ serving' \in [Worker -> ServerCall]
      /\ \/ UNCHANGED serving["phone"]
         \/ serving["phone"].at = "login" /\ serving'["phone"].at = "none"
  BY <1>1, <1>3, <1>4, <1>5, GivenUp
<1>. QED  BY <1>7, <1>8, FlowEnded DEF LoginLost, LoginLostDoes

LoginSavesDoes ==
  /\ \/ /\ login.pc = "saveAccess"
        /\ StoreIs(login.tok, store.refresh, store.session)
        /\ FlowMoves(login, login', "saveRefresh")
        /\ UNCHANGED epoch
     \/ /\ login.pc = "saveRefresh"
        /\ StoreIs(store.access, login.tok, store.session)
        /\ epoch' = epoch + 1
        /\ FlowIs(login', "persist", login.user, login.tok, epoch + 1, login.k)
  /\ overlap' = (overlap \/ OldWork)
  /\ UNCHANGED <<issued, recorded, blacklisted, expired, serving, used, doubled, Spent,
                 auth, call, refresh, clears, restore, logout>>
LEMMA LoginSavesEffect ==
  ASSUME TypeInv, LoginSaves
  PROVE  LoginSavesDoes
<1>1. login.tok \in Pair  BY Types DEF Flow
<1>2. /\ [store EXCEPT !.access = login.tok] \in StoreCells
      /\ [store EXCEPT !.refresh = login.tok] \in StoreCells
  BY <1>1, Types DEF StoreCells
<1>3. [login EXCEPT !.pc = "saveRefresh"] \in Flow  BY Types DEF Flow
<1>4. \A e \in Nat : [login EXCEPT !.pc = "persist", !.epoch = e] \in Flow
  BY Types DEF Flow
<1>5. epoch + 1 \in Nat  BY Types
<1>6. CASE login.pc = "saveAccess"
  <2>1. StoreIs(login.tok, store.refresh, store.session)
    BY <1>2, <1>6, Types DEF LoginSaves, StoreIs, StoreCells
  <2>2. FlowMoves(login, login', "saveRefresh")
    BY <1>3, <1>6, Types DEF LoginSaves, FlowMoves, FlowIs, Flow
  <2>. QED  BY <1>6, <2>1, <2>2, ServerStays DEF LoginSaves, LoginSavesDoes
<1>7. CASE login.pc = "saveRefresh"
  <2>1. StoreIs(store.access, login.tok, store.session)
    BY <1>2, <1>7, Types DEF LoginSaves, StoreIs, StoreCells
  <2>2. epoch' = epoch + 1 /\ login' = [login EXCEPT !.pc = "persist", !.epoch = epoch + 1]
    BY <1>7 DEF LoginSaves
  <2>3. FlowIs(login', "persist", login.user, login.tok, epoch + 1, login.k)
    BY <1>4, <1>5, <2>2, Types DEF FlowIs, Flow
  <2>. QED  BY <1>7, <2>1, <2>2, <2>3, ServerStays DEF LoginSaves, LoginSavesDoes
<1>. QED  BY <1>6, <1>7 DEF LoginSaves, LoginSavesDoes

(* _persistAuthorization stores the user, or empties the storage, a cell at  *)
(* a time.                                                                   *)
LEMMA PersistEffect ==
  ASSUME TypeInv, NEW flow \in Flow, flow.user \in User, Persist(flow)
  PROVE  IF flow.user \in HasCompany
         THEN StoreIs(store.access, store.refresh, flow.user) /\ UNCHANGED overlap
         ELSE Emptying(flow.k) /\ overlap' = (overlap \/ refresh.pc # "idle")
<1>1. flow.k \in Pos  BY DEF Flow
<1>2. [store EXCEPT !.session = flow.user] \in StoreCells  BY Types DEF StoreCells
<1>3. flow.user \in HasCompany => StoreIs(store.access, store.refresh, flow.user)
  BY <1>2, Types DEF Persist, StoreIs, StoreCells
<1>. QED  BY <1>1, <1>3, DeleteEffect DEF Persist

LoginPersistsDoes ==
  /\ login.pc = "persist" /\ login.user \in User /\ login.k \in Pos
  /\ Persist(login)
  /\ \/ /\ login.user \in HasCompany \/ login.k = 3
        /\ FlowEnds(login')
        /\ auth' = IF login.epoch = epoch THEN login.user ELSE auth
     \/ /\ login.user \notin HasCompany /\ login.k < 3
        /\ FlowIs(login', login.pc, login.user, login.tok, login.epoch, login.k + 1)
        /\ UNCHANGED auth
  /\ UNCHANGED <<issued, recorded, blacklisted, expired, serving, used, doubled, Spent,
                 epoch, call, refresh, clears, restore, logout>>
LEMMA LoginPersistsEffect ==
  ASSUME TypeInv, LoginPersists
  PROVE  LoginPersistsDoes
<1>1. login.k \in {1, 2, 3}  BY Types, Cells DEF Flow
<1>2. login.pc = "persist" => login.user \in User  BY DEF TypeInv, TokensAtHand
<1>3. ASSUME login.k < 3, login' = [login EXCEPT !.k = login.k + 1]
      PROVE  FlowIs(login', login.pc, login.user, login.tok, login.epoch, login.k + 1)
  <2>1. \A k \in Pos : [login EXCEPT !.k = k] \in Flow  BY Types DEF Flow
  <2>2. login.k + 1 \in Pos  BY <1>1, <1>3, Cells
  <2>. QED  BY <1>3, <2>1, <2>2, Types DEF FlowIs, Flow
<1>. QED
  BY <1>1, <1>2, <1>3, FlowEnded, Cells, ServerStays
    DEF LoginPersists, Persisted, LoginPersistsDoes

StartLogoutDoes ==
  /\ auth \in User /\ logout.pc = "idle" /\ epoch' = epoch + 1
  /\ FlowIs(logout', "start", None, 0, 0, 1)
  /\ UNCHANGED <<issued, recorded, blacklisted, expired, serving, used, doubled, Spent,
                 store, auth, call, refresh, clears, restore, login, overlap>>
LEMMA StartLogoutEffect ==
  ASSUME TypeInv, StartLogout
  PROVE  StartLogoutDoes
<1>1. [NoFlow EXCEPT !.pc = "start"] \in Flow  BY NoFlowType DEF Flow
<1>2. FlowIs(logout', "start", None, 0, 0, 1)  BY <1>1 DEF StartLogout, FlowIs, NoFlow
<1>. QED  BY <1>2, ServerStays DEF StartLogout, StartLogoutDoes

LogoutReadsDoes ==
  /\ logout.pc = "start" /\ "logout" \in Channel
  /\ \/ /\ store.refresh = 0 /\ FlowMoves(logout, logout', "wipe")
        /\ UNCHANGED call
     \/ /\ store.refresh # 0
        /\ FlowIs(logout', "post", logout.user, store.refresh, logout.epoch, logout.k)
        /\ Asked("logout", store.refresh)
  /\ UNCHANGED <<issued, recorded, blacklisted, expired, serving, used, doubled, Spent,
                 store, auth, epoch, refresh, clears, restore, login, overlap>>
LEMMA LogoutReadsEffect ==
  ASSUME TypeInv, LogoutReads
  PROVE  LogoutReadsDoes
<1>1. "logout" \in Channel  BY DEF Channel
<1>2. store.refresh \in Pair  BY Types DEF StoreCells
<1>3. [Started EXCEPT !.body = store.refresh] \in CallState  BY <1>2, IdleType DEF CallState
<1>4. /\ [logout EXCEPT !.pc = "wipe"] \in Flow
      /\ [logout EXCEPT !.pc = "post", !.tok = store.refresh] \in Flow
  BY <1>2, Types DEF Flow
<1>5. CASE store.refresh = 0
  <2>1. FlowMoves(logout, logout', "wipe")
    BY <1>4, <1>5, Types DEF LogoutReads, FlowMoves, FlowIs, Flow
  <2>. QED  BY <1>1, <1>5, <2>1, ServerStays DEF LogoutReads, LogoutReadsDoes
<1>6. CASE store.refresh # 0
  <2>1. FlowIs(logout', "post", logout.user, store.refresh, logout.epoch, logout.k)
    BY <1>4, <1>6, Types DEF LogoutReads, FlowIs, Flow
  <2>2. Asked("logout", store.refresh)
    BY <1>1, <1>2, <1>3, <1>6, Types, CallExcept, CallAsked DEF LogoutReads
  <2>. QED  BY <1>1, <1>6, <2>1, <2>2, ServerStays DEF LogoutReads, LogoutReadsDoes
<1>. QED  BY <1>5, <1>6 DEF LogoutReadsDoes

LogoutCallEndsDoes ==
  /\ logout.pc = "post" /\ "logout" \in Channel
  /\ call["logout"].pc \in {"ok", "failed"}
  /\ FlowMoves(logout, logout', "wipe") /\ CallGone("logout")
  /\ UNCHANGED <<issued, recorded, blacklisted, expired, serving, used, doubled, Spent,
                 store, auth, epoch, refresh, clears, restore, login, overlap>>
LEMMA LogoutCallEndsEffect ==
  ASSUME TypeInv, LogoutCallEnds
  PROVE  LogoutCallEndsDoes
<1>1. "logout" \in Channel  BY DEF Channel
<1>2. [logout EXCEPT !.pc = "wipe"] \in Flow  BY Types DEF Flow
<1>3. FlowMoves(logout, logout', "wipe")
  BY <1>2, Types DEF LogoutCallEnds, FlowMoves, FlowIs, Flow
<1>4. CallGone("logout")
  BY <1>1, Types, IdleType, CallExcept, CallLeft DEF LogoutCallEnds
<1>. QED  BY <1>1, <1>3, <1>4, ServerStays DEF LogoutCallEnds, LogoutCallEndsDoes

LogoutClearsDoes ==
  /\ logout.k \in Pos /\ DeleteCell(logout)
  /\ logout.pc \in {"wipe", "clearAuth"}
  /\ \/ /\ logout.k < 3 /\ UNCHANGED auth
        /\ FlowIs(logout', logout.pc, logout.user, logout.tok, logout.epoch, logout.k + 1)
     \/ /\ logout.pc = "wipe" /\ logout.k = 3 /\ UNCHANGED auth
        /\ FlowIs(logout', "clearAuth", logout.user, logout.tok, logout.epoch, 1)
     \/ /\ logout.pc = "clearAuth" /\ logout.k = 3
        /\ FlowEnds(logout') /\ auth' = "unauthenticated"
  /\ UNCHANGED <<issued, recorded, blacklisted, expired, serving, used, doubled, Spent,
                 epoch, call, refresh, clears, restore, login>>
LEMMA LogoutClearsEffect ==
  ASSUME TypeInv, LogoutClears
  PROVE  LogoutClearsDoes
<1>1. logout.k \in {1, 2, 3} /\ logout.k \in Pos  BY Types, Cells DEF Flow
<1>2. ASSUME logout.k < 3, logout' = [logout EXCEPT !.k = logout.k + 1]
      PROVE  FlowIs(logout', logout.pc, logout.user, logout.tok, logout.epoch, logout.k + 1)
  <2>1. \A k \in Pos : [logout EXCEPT !.k = k] \in Flow  BY Types DEF Flow
  <2>2. logout.k + 1 \in Pos  BY <1>1, <1>2, Cells
  <2>. QED  BY <1>2, <2>1, <2>2, Types DEF FlowIs, Flow
<1>3. ASSUME logout' = [logout EXCEPT !.pc = "clearAuth", !.k = 1]
      PROVE  FlowIs(logout', "clearAuth", logout.user, logout.tok, logout.epoch, 1)
  BY <1>3, Types, Cells DEF FlowIs, Flow
<1>4. [logout EXCEPT !.k = logout.k + 1].pc = logout.pc  BY Types DEF Flow
<1>5. [logout EXCEPT !.pc = "clearAuth", !.k = 1].pc = "clearAuth"  BY Types DEF Flow
<1>6. NoFlow.pc = "idle"  BY DEF NoFlow
<1>7. CASE logout.k < 3
  BY <1>1, <1>2, <1>4, <1>7, Cells, ServerStays DEF LogoutClears, After, LogoutClearsDoes
<1>8. CASE logout.k = 3 /\ logout.pc = "wipe"
  BY <1>1, <1>3, <1>5, <1>8, Cells, ServerStays DEF LogoutClears, After, LogoutClearsDoes
<1>9. CASE logout.k = 3 /\ logout.pc = "clearAuth"
  BY <1>1, <1>6, <1>9, FlowEnded, Cells, ServerStays DEF LogoutClears, After, LogoutClearsDoes
<1>. QED  BY <1>1, <1>7, <1>8, <1>9 DEF LogoutClears, LogoutClearsDoes

RestoreReadsDoes ==
  /\ restore.pc = "start" /\ "restore" \in Channel
  /\ \/ /\ store.refresh = 0 /\ FlowMoves(restore, restore', "clearAuth")
        /\ UNCHANGED call
     \/ /\ store.refresh # 0
        /\ FlowIs(restore', "me", restore.user, store.refresh, restore.epoch, restore.k)
        /\ Asked("restore", 0)
  /\ UNCHANGED <<issued, recorded, blacklisted, expired, serving, used, doubled, Spent,
                 store, auth, epoch, refresh, clears, login, logout, overlap>>
LEMMA RestoreReadsEffect ==
  ASSUME TypeInv, RestoreReads
  PROVE  RestoreReadsDoes
<1>1. "restore" \in Channel  BY DEF Channel
<1>2. store.refresh \in Pair  BY Types DEF StoreCells
<1>3. /\ [restore EXCEPT !.pc = "clearAuth"] \in Flow
      /\ [restore EXCEPT !.pc = "me", !.tok = store.refresh] \in Flow
  BY <1>2, Types DEF Flow
<1>5. CASE store.refresh = 0
  <2>1. FlowMoves(restore, restore', "clearAuth")
    BY <1>3, <1>5, Types DEF RestoreReads, FlowMoves, FlowIs, Flow
  <2>. QED  BY <1>1, <1>5, <2>1, ServerStays DEF RestoreReads, RestoreReadsDoes
<1>6. CASE store.refresh # 0
  <2>1. FlowIs(restore', "me", restore.user, store.refresh, restore.epoch, restore.k)
    BY <1>3, <1>6, Types DEF RestoreReads, FlowIs, Flow
  <2>2. Asked("restore", 0)
    BY <1>1, <1>6, Types, IdleType, CallExcept, CallAsked DEF RestoreReads
  <2>. QED  BY <1>1, <1>6, <2>1, <2>2, ServerStays DEF RestoreReads, RestoreReadsDoes
<1>. QED  BY <1>5, <1>6 DEF RestoreReadsDoes

RestoreCallEndsDoes ==
  LET c == call["restore"] IN
  /\ restore.pc = "me" /\ "restore" \in Channel
  /\ CallGone("restore")
  /\ \/ c.pc = "failed" /\ FlowMoves(restore, restore', "recheck")
     \/ /\ c.pc = "ok" /\ restore.epoch = epoch
        /\ c.tok \in DOMAIN issued /\ issued[c.tok] \in User
        /\ FlowIs(restore', "persist", issued[c.tok], restore.tok, restore.epoch,
                  restore.k)
     \/ c.pc = "ok" /\ restore.epoch # epoch /\ FlowEnds(restore')
  /\ UNCHANGED <<issued, recorded, blacklisted, expired, serving, used, doubled, Spent,
                 store, auth, epoch, refresh, clears, login, logout, overlap>>
LEMMA RestoreCallEndsEffect ==
  ASSUME TypeInv, RestoreCallEnds
  PROVE  RestoreCallEndsDoes
<1> DEFINE c == call["restore"]
<1>1. "restore" \in Channel  BY DEF Channel
<1>2. c \in CallState  BY <1>1, Types
<1>3. c.pc = "ok" => c.tok \in DOMAIN issued
  <2>1. c.tok \in Nat /\ c.tok <= Len(issued) /\ (c.pc = "ok" => c.tok # 0)
    BY <1>1, <1>2, SessionsAssumption DEF CallState, Pair, TypeInv, CallsKnown, TokensAtHand
  <2>. QED  BY <2>1, Types
<1>4. c.pc = "ok" => issued[c.tok] \in User  BY <1>3, Types, ElementOfSeq
<1>5. ASSUME restore' = [restore EXCEPT !.pc = "recheck"]
      PROVE  FlowMoves(restore, restore', "recheck")
  BY <1>5, Types DEF FlowMoves, FlowIs, Flow
<1>6. ASSUME NEW u \in User, restore' = [restore EXCEPT !.pc = "persist", !.user = u]
      PROVE  FlowIs(restore', "persist", u, restore.tok, restore.epoch, restore.k)
  BY <1>6, Types DEF FlowIs, Flow
<1>7. CallGone("restore")
  BY <1>1, Types, IdleType, CallExcept, CallLeft DEF RestoreCallEnds
<1>. QED
  BY <1>1, <1>3, <1>4, <1>5, <1>6, <1>7, FlowEnded, ServerStays
    DEF RestoreCallEnds, Current, RestoreCallEndsDoes

RestoreRechecksDoes ==
  /\ restore.pc = "recheck"
  /\ \/ store.refresh = restore.tok /\ FlowMoves(restore, restore', "wipe")
     \/ restore.epoch = epoch /\ FlowMoves(restore, restore', "clearAuth")
     \/ /\ store.refresh # restore.tok /\ restore.epoch # epoch
        /\ FlowEnds(restore')
  /\ UNCHANGED <<issued, recorded, blacklisted, expired, serving, used, doubled, Spent,
                 store, auth, epoch, call, refresh, clears, login, logout, overlap>>
LEMMA RestoreRechecksEffect ==
  ASSUME TypeInv, RestoreRechecks
  PROVE  RestoreRechecksDoes
<1>1. ASSUME restore' = [restore EXCEPT !.pc = "wipe"]
      PROVE  FlowMoves(restore, restore', "wipe")
  BY <1>1, Types DEF FlowMoves, FlowIs, Flow
<1>2. ASSUME restore' = [restore EXCEPT !.pc = "clearAuth"]
      PROVE  FlowMoves(restore, restore', "clearAuth")
  BY <1>2, Types DEF FlowMoves, FlowIs, Flow
<1>. QED  BY <1>1, <1>2, FlowEnded, ServerStays DEF RestoreRechecks, Current, RestoreRechecksDoes

RestoreClearsDoes ==
  /\ restore.k \in Pos /\ DeleteCell(restore)
  /\ restore.pc \in {"wipe", "clearAuth"}
  /\ \/ /\ restore.k < 3 /\ UNCHANGED auth
        /\ FlowIs(restore', restore.pc, restore.user, restore.tok, restore.epoch,
                  restore.k + 1)
     \/ /\ restore.pc = "wipe" /\ restore.k = 3 /\ UNCHANGED auth
        /\ IF restore.epoch = epoch
           THEN FlowIs(restore', "clearAuth", restore.user, restore.tok,
                       restore.epoch, 1)
           ELSE FlowEnds(restore')
     \/ /\ restore.pc = "clearAuth" /\ restore.k = 3
        /\ FlowEnds(restore') /\ auth' = "unauthenticated"
  /\ UNCHANGED <<issued, recorded, blacklisted, expired, serving, used, doubled, Spent,
                 epoch, call, refresh, clears, login, logout>>
LEMMA RestoreClearsEffect ==
  ASSUME TypeInv, RestoreClears
  PROVE  RestoreClearsDoes
<1>1. restore.k \in {1, 2, 3} /\ restore.k \in Pos  BY Types, Cells DEF Flow
<1>2. ASSUME restore.k < 3, restore' = [restore EXCEPT !.k = restore.k + 1]
      PROVE  FlowIs(restore', restore.pc, restore.user, restore.tok, restore.epoch, restore.k + 1)
  <2>1. \A k \in Pos : [restore EXCEPT !.k = k] \in Flow  BY Types DEF Flow
  <2>2. restore.k + 1 \in Pos  BY <1>1, <1>2, Cells
  <2>. QED  BY <1>2, <2>1, <2>2, Types DEF FlowIs, Flow
<1>3. ASSUME restore' = [restore EXCEPT !.pc = "clearAuth", !.k = 1]
      PROVE  FlowIs(restore', "clearAuth", restore.user, restore.tok, restore.epoch, 1)
  BY <1>3, Types, Cells DEF FlowIs, Flow
<1>4. [restore EXCEPT !.k = restore.k + 1].pc = restore.pc  BY Types DEF Flow
<1>5. [restore EXCEPT !.pc = "clearAuth", !.k = 1].pc = "clearAuth"  BY Types DEF Flow
<1>7. CASE restore.k < 3
  BY <1>1, <1>2, <1>4, <1>7, Cells, ServerStays DEF RestoreClears, After, RestoreClearsDoes
<1>8. CASE restore.k = 3 /\ restore.pc = "wipe"
  BY <1>1, <1>3, <1>5, <1>8, FlowEnded, Cells, ServerStays
    DEF RestoreClears, After, Current, RestoreClearsDoes
<1>9. CASE restore.k = 3 /\ restore.pc = "clearAuth"
  BY <1>1, <1>9, FlowEnded, Cells, ServerStays DEF RestoreClears, RestoreClearsDoes
<1>. QED  BY <1>1, <1>7, <1>8, <1>9 DEF RestoreClears, RestoreClearsDoes

RestorePersistsDoes ==
  /\ restore.pc = "persist" /\ restore.user \in User /\ restore.k \in Pos
  /\ Persist(restore)
  /\ \/ /\ restore.user \in HasCompany \/ restore.k = 3
        /\ FlowEnds(restore')
        /\ auth' = IF restore.epoch = epoch THEN restore.user ELSE auth
     \/ /\ restore.user \notin HasCompany /\ restore.k < 3
        /\ FlowIs(restore', restore.pc, restore.user, restore.tok, restore.epoch, restore.k + 1)
        /\ UNCHANGED auth
  /\ UNCHANGED <<issued, recorded, blacklisted, expired, serving, used, doubled, Spent,
                 epoch, call, refresh, clears, login, logout>>
LEMMA RestorePersistsEffect ==
  ASSUME TypeInv, RestorePersists
  PROVE  RestorePersistsDoes
<1>1. restore.k \in {1, 2, 3}  BY Types, Cells DEF Flow
<1>2. restore.pc = "persist" => restore.user \in User  BY DEF TypeInv, TokensAtHand
<1>3. ASSUME restore.k < 3, restore' = [restore EXCEPT !.k = restore.k + 1]
      PROVE  FlowIs(restore', restore.pc, restore.user, restore.tok, restore.epoch, restore.k + 1)
  <2>1. \A k \in Pos : [restore EXCEPT !.k = k] \in Flow  BY Types DEF Flow
  <2>2. restore.k + 1 \in Pos  BY <1>1, <1>3, Cells
  <2>. QED  BY <1>3, <2>1, <2>2, Types DEF FlowIs, Flow
<1>. QED
  BY <1>1, <1>2, <1>3, FlowEnded, Cells, ServerStays
    DEF RestorePersists, Persisted, RestorePersistsDoes

RestartDoes ==
  /\ auth' = "loading" /\ epoch' = 0 /\ RefreshIs("idle", 0, 0) /\ clears' = <<>>
  /\ call' \in [Channel -> CallState]
  /\ \A c \in Channel : /\ call'[c].pc = "idle" /\ call'[c].tok = 0
                        /\ call'[c].body = 0 /\ call'[c].k = 1
  /\ FlowIs(restore', "start", None, 0, 0, 1)
  /\ FlowEnds(login') /\ FlowEnds(logout')
  /\ overlap' = (overlap \/ refresh.pc # "idle" \/ login.pc # "idle"
                 \/ logout.pc # "idle" \/ \E c \in Channel : call[c].pc = "clear")
  /\ serving' \in [Worker -> ServerCall] /\ serving'["phone"].at = "none"
  /\ serving'["phone"].tok = 0
  /\ ~overlap' => Spent' \subseteq Spent
  /\ UNCHANGED <<issued, recorded, blacklisted, expired, used, doubled, store>>

(* What the server serves on when the phone is killed                        *)
LEMMA GivenUpRestart ==
  ASSUME TypeInv, ServingInv
  PROVE  /\ UnderWay \in SUBSET ServerCall
         /\ serving["phone"] \in UnderWay
         /\ \A d \in UnderWay :
              /\ d.tok <= Len(issued)
              /\ d.at \in {"check", "blacklist", "issue", "logout"} => d.tok # 0
              /\ d.at = "issue" => d.tok \in blacklisted
              /\ d.at = "login" => d.user \in User
              /\ d.at \in Spends => refresh.pc # "idle" \/ logout.pc # "idle"
              /\ d.at \notin {"none", "login", "logout"} => d = serving["phone"]
<1> DEFINE Good(d) ==
      /\ d \in ServerCall
      /\ d.tok <= Len(issued)
      /\ d.at \in {"check", "blacklist", "issue", "logout"} => d.tok # 0
      /\ d.at = "issue" => d.tok \in blacklisted
      /\ d.at = "login" => d.user \in User
      /\ d.at \in Spends => refresh.pc # "idle" \/ logout.pc # "idle"
      /\ d.at \notin {"none", "login", "logout"} => d = serving["phone"]
<1>1. Good(serving["phone"])
  <2>1. serving["phone"] \in ServerCall /\ "phone" \in Worker  BY ServingType, WorkerIs
  <2>2. serving["phone"].at \in Spends => refresh.pc = "posted"
    BY DEF ServingInv, Spends
  <2>. QED  BY <2>1, <2>2 DEF ServingInv
<1>2. ASSUME NEW u \in User PROVE Good(LoginCall(u))
  <2>1. 0 \in Pair /\ Len(issued) \in Nat
    BY Types, LenProperties, SessionsAssumption DEF Pair
  <2>2. /\ LoginCall(u) \in ServerCall /\ LoginCall(u).at = "login"
        /\ LoginCall(u).tok = 0 /\ LoginCall(u).user = u
    BY <2>1 DEF LoginCall, ServerCall
  <2>. QED  BY <2>1, <2>2 DEF Spends
<1>3. ASSUME call["logout"].pc = "sent" PROVE Good(LogoutCall(call["logout"].body))
  <2> DEFINE b == call["logout"].body
  <2>1. b \in Pair /\ b # 0 /\ b <= Len(issued) /\ logout.pc = "post"
    BY <1>3, Types DEF CallState, TypeInv, TokensAtHand, CallsKnown, Channel
  <2> HIDE DEF b
  <2>2. /\ LogoutCall(b) \in ServerCall /\ LogoutCall(b).at = "logout"
        /\ LogoutCall(b).tok = b
    BY <2>1 DEF LogoutCall, ServerCall
  <2>3. Good(LogoutCall(b))  BY <2>1, <2>2
  <2>. QED  BY <2>3 DEF b
<1> HIDE DEF Good
<1>4. \A d \in UnderWay : Good(d)
  BY <1>1, <1>2, <1>3 DEF UnderWay
<1>5. serving["phone"] \in UnderWay  BY DEF UnderWay
<1>6. \A d \in UnderWay : d \in ServerCall  BY <1>4 DEF Good
<1>. QED  BY <1>4, <1>5, <1>6 DEF Good

LEMMA RestartEffect ==
  ASSUME TypeInv, ServingInv, Restart
  PROVE  RestartDoes
<1>1. [NoFlow EXCEPT !.pc = "start"] \in Flow  BY NoFlowType DEF Flow
<1>2. FlowIs(restore', "start", None, 0, 0, 1)  BY <1>1 DEF Restart, FlowIs, NoFlow
<1>3. RefreshIs("idle", 0, 0)  BY NoRefreshType DEF Restart, RefreshIs, NoRefresh
<1>4. \A c \in Channel : /\ call'[c].pc = "idle" /\ call'[c].tok = 0
                         /\ call'[c].body = 0 /\ call'[c].k = 1
  BY DEF Restart, Idle
<1>5. GiveUp(UnderWay) /\ UNCHANGED used  BY DEF Restart
<1>6. serving' \in [Worker -> ServerCall] /\ serving'["phone"] = NoCall
  BY <1>5, GivenUpRestart, GivenUp
<1>7. NoCall.at = "none" /\ NoCall.tok = 0  BY DEF NoCall
<1>8. \A t \in Spent' : t \in Spent \/ \E d \in UnderWay : d.at \in Spends /\ d.tok = t
  BY <1>5, GivenUpRestart, GivenUpSpent
<1>9. overlap' = (overlap \/ refresh.pc # "idle" \/ login.pc # "idle"
                  \/ logout.pc # "idle" \/ \E c \in Channel : call[c].pc = "clear")
  BY DEF Restart
<1>10. ~overlap' => Spent' \subseteq Spent  BY <1>8, <1>9, GivenUpRestart
<1>. QED  BY <1>2, <1>3, <1>4, <1>6, <1>7, <1>9, <1>10, IdleType, FlowEnded
  DEF Restart, RestartDoes

ResetDoes(u) ==
  /\ blacklisted \subseteq blacklisted' /\ blacklisted' \subseteq blacklisted \cup recorded
  /\ UNCHANGED <<issued, recorded, expired, serving, used, doubled, Spent, store, auth, epoch,
                 call, refresh, clears, restore, login, logout, overlap>>
LEMMA ResetEffect ==
  ASSUME TypeInv, NEW u \in User, ResetPassword(u)
  PROVE  ResetDoes(u)
BY DEF ResetPassword, flows, ResetDoes, Spent

(* The types but for the two that relate variables                           *)
RecordsOK ==
  /\ issued \in Seq(User) /\ Len(issued) <= MaxPairs
  /\ recorded \cup blacklisted \cup expired \cup used \subseteq DOMAIN issued
  /\ serving \in [Worker -> ServerCall] /\ doubled \in Nat
  /\ store \in StoreCells
  /\ auth \in {"loading", "unauthenticated", "error"} \cup User
  /\ epoch \in Nat
  /\ call \in [Channel -> CallState] /\ refresh \in RefreshState
  /\ clears \in Seq(Pos)
  /\ restore \in Flow /\ login \in Flow /\ logout \in Flow
Awaited == refresh.pc # "idle" <=> \E c \in Channel : call[c].pc = "waiting"

LEMMA Parts ==
  /\ TypeInv <=> /\ RecordsOK /\ overlap \in BOOLEAN /\ HeldKnown /\ CallsKnown
                 /\ TokensAtHand /\ ClearsBegin /\ Awaited
  /\ TypeInv' <=> /\ RecordsOK' /\ overlap' \in BOOLEAN /\ HeldKnown' /\ CallsKnown'
                  /\ TokensAtHand' /\ ClearsBegin' /\ Awaited'
BY DEF TypeInv, TypeOK, RecordsOK, RefreshAwaited, Awaited, StoreCells

(* The numbers in the records                                                *)
LEMMA Numbers ==
  ASSUME TypeInv
  PROVE  /\ Len(issued) \in Nat
         /\ store.access \in Nat /\ store.refresh \in Nat
         /\ refresh.tok \in Nat /\ refresh.new \in Nat
         /\ login.tok \in Nat /\ restore.tok \in Nat /\ logout.tok \in Nat
         /\ \A c \in Channel : call[c].tok \in Nat /\ call[c].body \in Nat
<1>1. Pair \subseteq Nat  BY SessionsAssumption DEF Pair
<1>2. store.access \in Pair /\ store.refresh \in Pair  BY Types DEF StoreCells
<1>3. refresh.tok \in Pair /\ refresh.new \in Pair  BY Types DEF RefreshState
<1>4. login.tok \in Pair /\ restore.tok \in Pair /\ logout.tok \in Pair  BY Types DEF Flow
<1>5. ASSUME NEW c \in Channel PROVE call[c].tok \in Pair /\ call[c].body \in Pair
  BY Types DEF CallState
<1>6. Len(issued) \in Nat  BY Types, LenProperties
<1>. QED  BY <1>1, <1>2, <1>3, <1>4, <1>5, <1>6

(* The refresh token a logout sends                                          *)
LEMMA LogoutToken ==
  ASSUME TypeInv, call["logout"].pc # "idle"
  PROVE  call["logout"].body \in DOMAIN issued
<1>1. "logout" \in Channel  BY DEF Channel
<1>2. call["logout"].body # 0 /\ call["logout"].body <= Len(issued)
  BY <1>1 DEF TypeInv, CallsKnown, TokensAtHand
<1>. QED  BY <1>1, <1>2, Numbers, Types

LEMMA ChannelIs ==
  /\ Channel = Api \cup {"restore", "logout"}
  /\ "restore" \in Channel /\ "logout" \in Channel
  /\ "restore" \notin Api /\ "logout" \notin Api
BY SessionsAssumption DEF Channel

LEMMA TypeAsk ==
  ASSUME TypeInv, NEW c \in Api, Ask(c)
  PROVE  TypeInv'
<1>0. RecordsOK /\ HeldKnown /\ CallsKnown /\ TokensAtHand /\ ClearsBegin /\ Awaited /\ AskDoes(c)
  BY Parts, AskEffect
<1>1. RecordsOK'
  BY <1>0, Cells DEF RecordsOK, AskDoes, Asked, CallIs
<1>2. HeldKnown'
  BY <1>0, Numbers DEF HeldKnown, AskDoes, Asked, CallIs
<1>3. CallsKnown'
  BY <1>0, Numbers DEF HeldKnown, CallsKnown, AskDoes, Asked, CallIs
<1>4. TokensAtHand'
  BY <1>0, Numbers, ChannelIs DEF TokensAtHand, AskDoes, Asked, CallIs
<1>5. ClearsBegin'
  BY <1>0 DEF ClearsBegin, AskDoes, Asked, CallIs
<1>6. Awaited'
  BY <1>0 DEF Awaited, TokensAtHand, AskDoes, Asked, CallIs
<1>7. overlap' \in BOOLEAN
  BY <1>0, Parts DEF AskDoes
<1>. QED  BY <1>1, <1>2, <1>3, <1>4, <1>5, <1>6, <1>7, Parts

LEMMA TypeAttach ==
  ASSUME TypeInv, NEW c \in Channel, Attach(c)
  PROVE  TypeInv'
<1>0. /\ RecordsOK /\ HeldKnown /\ CallsKnown /\ TokensAtHand /\ ClearsBegin
      /\ Awaited /\ AttachDoes(c)
  BY Parts, AttachEffect
<1>1. RecordsOK'
  BY <1>0, Cells DEF RecordsOK, AttachDoes, CallIs
<1>2. HeldKnown'
  BY <1>0, Numbers DEF HeldKnown, AttachDoes, CallIs
<1>3. CallsKnown'
  BY <1>0, Numbers DEF HeldKnown, CallsKnown, AttachDoes, CallIs
<1>4. TokensAtHand'
  BY <1>0, Numbers, ChannelIs DEF TokensAtHand, AttachDoes, CallIs
<1>5. ClearsBegin'
  BY <1>0 DEF ClearsBegin, AttachDoes, CallIs
<1>6. Awaited'
  BY <1>0 DEF Awaited, TokensAtHand, AttachDoes, CallIs
<1>7. overlap' \in BOOLEAN
  BY <1>0, Parts DEF AttachDoes
<1>. QED  BY <1>1, <1>2, <1>3, <1>4, <1>5, <1>6, <1>7, Parts

LEMMA TypeSucceed ==
  ASSUME TypeInv, NEW c \in Channel, Succeed(c)
  PROVE  TypeInv'
<1>0. /\ RecordsOK /\ HeldKnown /\ CallsKnown /\ TokensAtHand /\ ClearsBegin
      /\ Awaited /\ SucceedDoes(c)
  BY Parts, SucceedEffect
<1>b. c = "logout" => call[c].body \in DOMAIN issued
  BY <1>0, LogoutToken DEF SucceedDoes
<1>1. RecordsOK'
  BY <1>0, <1>b, Cells DEF RecordsOK, SucceedDoes, Served, Revoke, CallMoves, CallGone, CallIs
<1>2. HeldKnown'
  BY <1>0, <1>b, Numbers DEF HeldKnown, SucceedDoes, Served, CallMoves, CallGone, CallIs
<1>3. CallsKnown'
  BY <1>0, <1>b, Numbers DEF HeldKnown, CallsKnown, SucceedDoes, Served, CallMoves, CallGone, CallIs
<1>4. TokensAtHand'
  BY <1>0, <1>b, Numbers, ChannelIs
    DEF TokensAtHand, SucceedDoes, Served, CallMoves, CallGone, CallIs
<1>5. ClearsBegin'
  BY <1>0, <1>b DEF ClearsBegin, SucceedDoes, Served, CallMoves, CallGone, CallIs
<1>6. Awaited'
  BY <1>0, <1>b DEF Awaited, TokensAtHand, SucceedDoes, Served, CallMoves, CallGone, CallIs
<1>7. overlap' \in BOOLEAN
  BY <1>0, <1>b, Parts DEF SucceedDoes
<1>. QED  BY <1>1, <1>2, <1>3, <1>4, <1>5, <1>6, <1>7, Parts

LEMMA TypeDenied ==
  ASSUME TypeInv, NEW c \in Channel, Denied(c)
  PROVE  TypeInv'
<1>0. /\ RecordsOK /\ HeldKnown /\ CallsKnown /\ TokensAtHand /\ ClearsBegin
      /\ Awaited /\ DeniedDoes(c)
  BY Parts, DeniedEffect
<1>1. RecordsOK'
  BY <1>0, Cells DEF RecordsOK, DeniedDoes, CallMoves, RefreshIs, CallIs
<1>2. HeldKnown'
  BY <1>0, Numbers DEF HeldKnown, DeniedDoes, CallMoves, RefreshIs, CallIs
<1>3. CallsKnown'
  BY <1>0, Numbers DEF HeldKnown, CallsKnown, DeniedDoes, CallMoves, RefreshIs, CallIs
<1>4. TokensAtHand'
  BY <1>0, Numbers, ChannelIs, SMTT(30)
    DEF TokensAtHand, DeniedDoes, CallMoves, RefreshIs, CallIs
<1>5. ClearsBegin'
  BY <1>0 DEF ClearsBegin, DeniedDoes, CallMoves, RefreshIs, CallIs
<1>6. Awaited'
  BY <1>0 DEF Awaited, TokensAtHand, DeniedDoes, CallMoves, RefreshIs, CallIs
<1>7. overlap' \in BOOLEAN
  BY <1>0, Parts DEF DeniedDoes
<1>. QED  BY <1>1, <1>2, <1>3, <1>4, <1>5, <1>6, <1>7, Parts

LEMMA TypeLoseRequest ==
  ASSUME TypeInv, NEW c \in Channel, LoseRequest(c)
  PROVE  TypeInv'
<1>0. /\ RecordsOK /\ HeldKnown /\ CallsKnown /\ TokensAtHand /\ ClearsBegin
      /\ Awaited /\ LoseRequestDoes(c)
  BY Parts, LoseRequestEffect
<1>b. c = "logout" => call[c].body \in DOMAIN issued
  BY <1>0, LogoutToken DEF LoseRequestDoes
<1>1. RecordsOK'
  BY <1>0, <1>b, Cells DEF RecordsOK, LoseRequestDoes, CallMoves, CallGone, CallIs
<1>2. HeldKnown'
  BY <1>0, <1>b, Numbers DEF HeldKnown, LoseRequestDoes, CallMoves, CallGone, CallIs
<1>3. CallsKnown'
  BY <1>0, <1>b, Numbers
    DEF HeldKnown, CallsKnown, LoseRequestDoes, CallMoves, CallGone, CallIs
<1>4. TokensAtHand'
  BY <1>0, <1>b, Numbers, ChannelIs
    DEF TokensAtHand, LoseRequestDoes, CallMoves, CallGone, CallIs
<1>5. ClearsBegin'
  BY <1>0, <1>b DEF ClearsBegin, LoseRequestDoes, CallMoves, CallGone, CallIs
<1>6. Awaited'
  BY <1>0, <1>b DEF Awaited, TokensAtHand, LoseRequestDoes, CallMoves, CallGone, CallIs
<1>7. overlap' \in BOOLEAN
  BY <1>0, <1>b, Parts DEF LoseRequestDoes
<1>. QED  BY <1>1, <1>2, <1>3, <1>4, <1>5, <1>6, <1>7, Parts

LEMMA TypeInvalidateSession ==
  ASSUME TypeInv, NEW c \in Channel, InvalidateSession(c)
  PROVE  TypeInv'
<1>0. /\ RecordsOK /\ HeldKnown /\ CallsKnown /\ TokensAtHand /\ ClearsBegin
      /\ Awaited /\ InvalidateDoes(c)
  BY Parts, InvalidateEffect
<1>f. Emptying(call[c].k) /\ overlap' = (overlap \/ refresh.pc # "idle")
  BY <1>0, Types, DeleteEffect DEF InvalidateDoes, Flow
<1>c. Append(clears, 1) \in Seq(Pos) /\ epoch + 1 \in Nat
  BY Types, AppendProperties, Cells
<1>1. RecordsOK'
  BY <1>0, <1>f, <1>c, Cells DEF RecordsOK, InvalidateDoes, Invalidated, CallMoves,
    CallGone, Emptying, ClearingFrom, CallIs, StoreIs
<1>2. HeldKnown'
  BY <1>0, <1>f, <1>c, Numbers DEF HeldKnown, InvalidateDoes, Invalidated, CallMoves,
    CallGone, Emptying, ClearingFrom, CallIs, StoreIs
<1>d. /\ issued' = issued
      /\ \A d \in Channel : /\ call'[d].tok \in {0, call[d].tok}
                            /\ call'[d].body \in {0, call[d].body}
  BY <1>0 DEF InvalidateDoes, CallMoves, CallGone, ClearingFrom, CallIs
<1>3. CallsKnown'
  BY <1>0, <1>d, Numbers DEF CallsKnown
<1>4. TokensAtHand'
  BY <1>0, <1>f, <1>c, Numbers, ChannelIs, SMTT(30) DEF TokensAtHand, InvalidateDoes,
    Invalidated, CallMoves, CallGone, Emptying, ClearingFrom, CallIs, StoreIs
<1>5. ClearsBegin'
  BY <1>0, <1>f, <1>c DEF ClearsBegin, InvalidateDoes, Invalidated, CallMoves,
    CallGone, Emptying, ClearingFrom, CallIs, StoreIs
<1>6. Awaited'
  BY <1>0, <1>f, <1>c DEF Awaited, TokensAtHand, InvalidateDoes, Invalidated,
    CallMoves, CallGone, Emptying, ClearingFrom, CallIs, StoreIs
<1>7. overlap' \in BOOLEAN
  BY <1>0, <1>f, <1>c, Parts DEF InvalidateDoes
<1>. QED  BY <1>1, <1>2, <1>3, <1>4, <1>5, <1>6, <1>7, Parts

LEMMA TypeClear ==
  ASSUME TypeInv, NEW i \in DOMAIN clears, Clear(i)
  PROVE  TypeInv'
<1>0. RecordsOK /\ HeldKnown /\ CallsKnown /\ TokensAtHand /\ ClearsBegin /\ Awaited /\ ClearDoes(i)
  BY Parts, ClearEffect
<1>1. RecordsOK'
  BY <1>0, Cells DEF RecordsOK, ClearDoes, Emptying, StoreIs
<1>2. HeldKnown'
  BY <1>0, Numbers DEF HeldKnown, ClearDoes, Emptying, StoreIs
<1>3. CallsKnown'
  BY <1>0, Numbers DEF HeldKnown, CallsKnown, ClearDoes, Emptying, StoreIs
<1>4. TokensAtHand'
  BY <1>0, Numbers, ChannelIs DEF TokensAtHand, ClearDoes, Emptying, StoreIs
<1>5. ClearsBegin'
  BY <1>0 DEF ClearsBegin, ClearDoes, Emptying, StoreIs
<1>6. Awaited'
  BY <1>0 DEF Awaited, TokensAtHand, ClearDoes, Emptying, StoreIs
<1>7. overlap' \in BOOLEAN
  BY <1>0, Parts DEF ClearDoes
<1>. QED  BY <1>1, <1>2, <1>3, <1>4, <1>5, <1>6, <1>7, Parts

LEMMA TypeReadRefreshToken ==
  ASSUME TypeInv, ReadRefreshToken
  PROVE  TypeInv'
<1>0. /\ RecordsOK /\ HeldKnown /\ CallsKnown /\ TokensAtHand /\ ClearsBegin
      /\ Awaited /\ ReadRefreshTokenDoes
  BY Parts, ReadRefreshTokenEffect
<1>g. Completed(0) => CompletedDoes(0)
  BY <1>0, CompletedEffect, SessionsAssumption DEF ReadRefreshTokenDoes, Pair
<1>1. RecordsOK'
  BY <1>0, <1>g, Cells DEF RecordsOK, ReadRefreshTokenDoes, RefreshIs, CompletedDoes, ServesOne
<1>2. HeldKnown'
  BY <1>0, <1>g, Numbers DEF HeldKnown, ReadRefreshTokenDoes, RefreshIs, CompletedDoes
<1>3. CallsKnown'
  BY <1>0, <1>g, Numbers DEF HeldKnown, CallsKnown, ReadRefreshTokenDoes, RefreshIs, CompletedDoes
<1>4. TokensAtHand'
  BY <1>0, <1>g, Numbers, ChannelIs DEF TokensAtHand, ReadRefreshTokenDoes, RefreshIs, CompletedDoes
<1>5. ClearsBegin'
  BY <1>0, <1>g DEF ClearsBegin, ReadRefreshTokenDoes, RefreshIs, CompletedDoes
<1>6. Awaited'
  BY <1>0, <1>g DEF Awaited, TokensAtHand, ReadRefreshTokenDoes, RefreshIs, CompletedDoes
<1>7. overlap' \in BOOLEAN
  BY <1>0, <1>g, Parts DEF ReadRefreshTokenDoes
<1>. QED  BY <1>1, <1>2, <1>3, <1>4, <1>5, <1>6, <1>7, Parts

LEMMA TypeCheckRefresh ==
  ASSUME TypeInv, ServingInv, NEW w \in Worker, CheckRefresh(w)
  PROVE  TypeInv'
<1>0. /\ RecordsOK /\ HeldKnown /\ CallsKnown /\ TokensAtHand /\ ClearsBegin
      /\ Awaited /\ CheckRefreshDoes(w)
  BY Parts, CheckRefreshEffect
<1>1. RecordsOK' /\ HeldKnown' /\ CallsKnown' /\ TokensAtHand' /\ ClearsBegin' /\ Awaited'
  <2>0. /\ serving' \in [Worker -> ServerCall] /\ doubled' \in Nat
    BY <1>0 DEF CheckRefreshDoes, ServesOne, RecordsOK
  <2>1. CASE UNCHANGED <<call, refresh>>
    <3>1. UNCHANGED <<issued, recorded, blacklisted, expired, used, store, auth, epoch,
                      call, refresh, clears, restore, login, logout>>
      BY <1>0, <2>1 DEF CheckRefreshDoes
    <3>2. RecordsOK'  BY <1>0, <2>0, <3>1 DEF RecordsOK
    <3>3. HeldKnown' /\ CallsKnown' /\ TokensAtHand' /\ ClearsBegin' /\ Awaited'
      BY <1>0, <3>1 DEF HeldKnown, CallsKnown, TokensAtHand, ClearsBegin, Awaited
    <3>. QED  BY <3>2, <3>3
  <2>2. CASE w = "phone" /\ Completed(0)
    <3>0. CompletedDoes(0) /\ refresh.pc = "posted"
      BY <1>0, <2>2, CompletedEffect, SessionsAssumption
      DEF CheckRefreshDoes, ServingInv, Pair
    <3>1. UNCHANGED <<issued, recorded, blacklisted, expired, used, store, auth, epoch,
                      clears, restore, login, logout>>
      BY <1>0 DEF CheckRefreshDoes
    <3>2. RecordsOK'  BY <1>0, <2>0, <3>0, <3>1 DEF RecordsOK, CompletedDoes, RefreshIs
    <3>3. HeldKnown'  BY <1>0, <3>0, <3>1, Numbers DEF HeldKnown, CompletedDoes, RefreshIs
    <3>4. CallsKnown'  BY <1>0, <3>0, <3>1, Numbers DEF CallsKnown, CompletedDoes
    <3>5. TokensAtHand'
      BY <1>0, <3>0, <3>1, ChannelIs DEF TokensAtHand, CompletedDoes, RefreshIs
    <3>6. ClearsBegin'  BY <1>0, <3>0, <3>1 DEF ClearsBegin, CompletedDoes
    <3>7. Awaited'  BY <3>0 DEF Awaited, CompletedDoes, RefreshIs
    <3>. QED  BY <3>2, <3>3, <3>4, <3>5, <3>6, <3>7
  <2>. QED  BY <1>0, <2>1, <2>2 DEF CheckRefreshDoes
<1>2. overlap' \in BOOLEAN
  BY <1>0, Parts DEF CheckRefreshDoes
<1>. QED  BY <1>1, <1>2, Parts

LEMMA TypeBlacklistRefresh ==
  ASSUME TypeInv, ServingInv, NEW w \in Worker, BlacklistRefresh(w)
  PROVE  TypeInv'
<1>0. /\ RecordsOK /\ HeldKnown /\ CallsKnown /\ TokensAtHand /\ ClearsBegin
      /\ Awaited /\ BlacklistRefreshDoes(w)
  BY Parts, BlacklistRefreshEffect
<1>b. serving[w].tok \in DOMAIN issued
  BY <1>0, ServedToken DEF BlacklistRefreshDoes
<1>1. RecordsOK'
  BY <1>0, <1>b DEF RecordsOK, BlacklistRefreshDoes, ServesOne
<1>2. HeldKnown' /\ CallsKnown' /\ TokensAtHand' /\ ClearsBegin' /\ Awaited'
  BY <1>0 DEF HeldKnown, CallsKnown, TokensAtHand, ClearsBegin, Awaited, BlacklistRefreshDoes
<1>3. overlap' \in BOOLEAN
  BY <1>0, Parts DEF BlacklistRefreshDoes
<1>. QED  BY <1>1, <1>2, <1>3, Parts

LEMMA TypeIssueRefresh ==
  ASSUME TypeInv, ServingInv, NEW w \in Worker, IssueRefresh(w)
  PROVE  TypeInv'
<1>0. /\ RecordsOK /\ HeldKnown /\ CallsKnown /\ TokensAtHand /\ ClearsBegin
      /\ Awaited /\ IssueRefreshDoes(w)
  BY Parts, IssueRefreshEffect
<1>f. /\ issued' \in Seq(User) /\ Len(issued') = Len(issued) + 1
      /\ DOMAIN issued' = DOMAIN issued \cup {Len(issued) + 1}
      /\ Len(issued) < MaxPairs
  BY <1>0, Types, Issued DEF IssueRefreshDoes
<1>h. /\ issued' \in Seq(User) /\ Len(issued') <= MaxPairs
      /\ recorded' \cup blacklisted' \cup expired' \cup used' \subseteq DOMAIN issued'
  BY <1>0, <1>f, Numbers, SessionsAssumption, SMTT(30) DEF RecordsOK, IssueRefreshDoes
<1>g. /\ refresh' \in RefreshState
      /\ refresh' = refresh
         \/ /\ refresh.pc = "posted" /\ refresh'.pc = "saveAccess"
            /\ refresh'.tok = refresh.tok /\ refresh'.new = Len(issued) + 1
  BY <1>0, Types DEF IssueRefreshDoes, RefreshIs, ServingInv
<1>1. RecordsOK'
  BY <1>h, <1>0, <1>g DEF RecordsOK, IssueRefreshDoes, ServesOne
<1>2. HeldKnown'
  BY <1>0, <1>f, <1>g, Numbers, SMTT(30) DEF HeldKnown, IssueRefreshDoes
<1>3. CallsKnown'
  BY <1>0, <1>f, Numbers DEF CallsKnown, IssueRefreshDoes
<1>4. TokensAtHand'
  BY <1>0, <1>g, Numbers, SMTT(30) DEF TokensAtHand, IssueRefreshDoes
<1>5. ClearsBegin' /\ Awaited'
  BY <1>0, <1>g DEF ClearsBegin, Awaited, IssueRefreshDoes
<1>7. overlap' \in BOOLEAN
  BY <1>0, Parts DEF IssueRefreshDoes
<1>. QED  BY <1>1, <1>2, <1>3, <1>4, <1>5, <1>7, Parts

LEMMA TypeServeLate ==
  ASSUME TypeInv, ServingInv, NEW w \in Worker, ServeLate(w)
  PROVE  TypeInv'
<1>0. /\ RecordsOK /\ HeldKnown /\ CallsKnown /\ TokensAtHand /\ ClearsBegin
      /\ Awaited /\ ServeLateDoes(w)
  BY Parts, ServeLateEffect
<1>h. /\ issued' \in Seq(User) /\ Len(issued') <= MaxPairs
      /\ Len(issued) <= Len(issued')
      /\ recorded' \cup blacklisted' \cup expired' \cup used' \subseteq DOMAIN issued'
  <2>1. CASE /\ serving[w].user \in User /\ Issue(serving[w].user)
             /\ Len(issued) < MaxPairs /\ recorded' = recorded \cup {Len(issued) + 1}
             /\ UNCHANGED <<blacklisted, used>>
    <3>1. /\ issued' \in Seq(User) /\ Len(issued') = Len(issued) + 1
          /\ DOMAIN issued' = DOMAIN issued \cup {Len(issued) + 1}
      BY <2>1, Types, Issued
    <3>. QED  BY <1>0, <2>1, <3>1, Numbers, SessionsAssumption, SMTT(30)
         DEF RecordsOK, ServeLateDoes
  <2>2. CASE /\ serving[w].tok \in DOMAIN issued /\ Revoke(serving[w].tok)
             /\ UNCHANGED <<issued, recorded>>
    BY <1>0, <2>2, Numbers DEF RecordsOK, ServeLateDoes, Revoke
  <2>. QED  BY <1>0, <2>1, <2>2 DEF ServeLateDoes
<1>1. RecordsOK'
  BY <1>h, <1>0 DEF RecordsOK, ServeLateDoes, ServesOne
<1>2. HeldKnown' /\ CallsKnown'
  <2>1. Len(issued') \in Nat  BY <1>h, LenProperties
  <2>. QED  BY <1>h, <1>0, <2>1, Numbers, SMTT(30) DEF HeldKnown, CallsKnown, ServeLateDoes
<1>3. TokensAtHand' /\ ClearsBegin' /\ Awaited'
  BY <1>0 DEF TokensAtHand, ClearsBegin, Awaited, ServeLateDoes
<1>4. overlap' \in BOOLEAN
  BY <1>0, Parts DEF ServeLateDoes
<1>. QED  BY <1>1, <1>2, <1>3, <1>4, Parts

LEMMA TypeSaveAccess ==
  ASSUME TypeInv, SaveAccess
  PROVE  TypeInv'
<1>0. /\ RecordsOK /\ HeldKnown /\ CallsKnown /\ TokensAtHand /\ ClearsBegin
      /\ Awaited /\ SaveAccessDoes
  BY Parts, SaveAccessEffect
<1>1. RecordsOK'
  BY <1>0, Cells DEF RecordsOK, SaveAccessDoes, RefreshIs, StoreIs
<1>2. HeldKnown'
  BY <1>0, Numbers DEF HeldKnown, SaveAccessDoes, RefreshIs, StoreIs
<1>3. CallsKnown'
  BY <1>0, Numbers DEF HeldKnown, CallsKnown, SaveAccessDoes, RefreshIs, StoreIs
<1>4. TokensAtHand'
  BY <1>0, Numbers, ChannelIs DEF TokensAtHand, SaveAccessDoes, RefreshIs, StoreIs
<1>5. ClearsBegin'
  BY <1>0 DEF ClearsBegin, SaveAccessDoes, RefreshIs, StoreIs
<1>6. Awaited'
  BY <1>0 DEF Awaited, TokensAtHand, SaveAccessDoes, RefreshIs, StoreIs
<1>7. overlap' \in BOOLEAN
  BY <1>0, Parts DEF SaveAccessDoes
<1>. QED  BY <1>1, <1>2, <1>3, <1>4, <1>5, <1>6, <1>7, Parts

LEMMA TypeSaveRefresh ==
  ASSUME TypeInv, SaveRefresh
  PROVE  TypeInv'
<1>0. /\ RecordsOK /\ HeldKnown /\ CallsKnown /\ TokensAtHand /\ ClearsBegin
      /\ Awaited /\ SaveRefreshDoes
  BY Parts, SaveRefreshEffect
<1>g. Completed(refresh.new) => CompletedDoes(refresh.new)
  BY <1>0, CompletedEffect, SessionsAssumption DEF SaveRefreshDoes, Pair
<1>1. RecordsOK'
  BY <1>0, <1>g, Cells DEF RecordsOK, SaveRefreshDoes, StoreIs, CompletedDoes, RefreshIs
<1>2. HeldKnown'
  BY <1>0, <1>g, Numbers DEF HeldKnown, SaveRefreshDoes, StoreIs, CompletedDoes, RefreshIs
<1>3. CallsKnown'
  BY <1>0, <1>g, Numbers
    DEF HeldKnown, CallsKnown, SaveRefreshDoes, StoreIs, CompletedDoes, RefreshIs
<1>4. TokensAtHand'
  BY <1>0, <1>g, Numbers, ChannelIs
    DEF TokensAtHand, SaveRefreshDoes, StoreIs, CompletedDoes, RefreshIs
<1>5. ClearsBegin'
  <2>1. \A c \in Channel : /\ call'[c].k = call[c].k
                           /\ call'[c].pc = call[c].pc \/ call[c].pc = "waiting"
    BY <1>0, <1>g DEF SaveRefreshDoes, CompletedDoes
  <2>2. UNCHANGED <<login, logout, restore>>
    BY <1>0 DEF SaveRefreshDoes
  <2>. QED  BY <1>0, <2>1, <2>2 DEF ClearsBegin
<1>6. Awaited'
  BY <1>0, <1>g DEF Awaited, TokensAtHand, SaveRefreshDoes, StoreIs, CompletedDoes, RefreshIs
<1>7. overlap' \in BOOLEAN
  BY <1>0, <1>g, Parts DEF SaveRefreshDoes
<1>. QED  BY <1>1, <1>2, <1>3, <1>4, <1>5, <1>6, <1>7, Parts

LEMMA TypeLoseRefresh ==
  ASSUME TypeInv, LoseRefresh
  PROVE  TypeInv'
<1>0. /\ RecordsOK /\ HeldKnown /\ CallsKnown /\ TokensAtHand /\ ClearsBegin
      /\ Awaited /\ LoseRefreshDoes
  BY Parts, LoseRefreshEffect
<1>g. Completed(0) => CompletedDoes(0)
  BY <1>0, CompletedEffect, SessionsAssumption DEF LoseRefreshDoes, Pair
<1>1. RecordsOK'
  BY <1>0, <1>g, Cells DEF RecordsOK, LoseRefreshDoes, CompletedDoes, RefreshIs
<1>2. HeldKnown'
  BY <1>0, <1>g, Numbers DEF HeldKnown, LoseRefreshDoes, CompletedDoes, RefreshIs
<1>3. CallsKnown'
  BY <1>0, <1>g, Numbers DEF HeldKnown, CallsKnown, LoseRefreshDoes, CompletedDoes, RefreshIs
<1>4. TokensAtHand'
  BY <1>0, <1>g, Numbers, ChannelIs DEF TokensAtHand, LoseRefreshDoes, CompletedDoes, RefreshIs
<1>5. ClearsBegin'
  BY <1>0, <1>g DEF ClearsBegin, LoseRefreshDoes, CompletedDoes, RefreshIs
<1>6. Awaited'
  BY <1>0, <1>g DEF Awaited, TokensAtHand, LoseRefreshDoes, CompletedDoes, RefreshIs
<1>7. overlap' \in BOOLEAN
  BY <1>0, <1>g, Parts DEF LoseRefreshDoes
<1>. QED  BY <1>1, <1>2, <1>3, <1>4, <1>5, <1>6, <1>7, Parts

LEMMA TypeLoginAnswered ==
  ASSUME TypeInv, LoginAnswered
  PROVE  TypeInv'
<1>0. /\ RecordsOK /\ HeldKnown /\ CallsKnown /\ TokensAtHand /\ ClearsBegin
      /\ Awaited /\ LoginAnsweredDoes
  BY Parts, LoginAnsweredEffect
<1>f. Issue(login.user) => /\ issued' \in Seq(User) /\ Len(issued') = Len(issued) + 1
           /\ DOMAIN issued' = DOMAIN issued \cup {Len(issued) + 1}
  BY <1>0, Types, Issued DEF LoginAnsweredDoes, Flow
<1>h. /\ issued' \in Seq(User) /\ Len(issued') <= MaxPairs
      /\ recorded' \cup blacklisted' \cup expired' \cup used' \subseteq DOMAIN issued'
  BY <1>0, <1>f, Numbers, SessionsAssumption, SMTT(30) DEF RecordsOK, LoginAnsweredDoes, Pair
<1>1. RecordsOK'
  BY <1>h, <1>0, <1>f, Cells DEF RecordsOK, LoginAnsweredDoes, FlowIs
<1>2. HeldKnown'
  BY <1>0, <1>f, Numbers DEF HeldKnown, LoginAnsweredDoes, FlowIs
<1>3. CallsKnown'
  BY <1>0, <1>f, Numbers, SMTT(30) DEF HeldKnown, CallsKnown, LoginAnsweredDoes, FlowIs
<1>4. TokensAtHand'
  BY <1>0, <1>f, Numbers, ChannelIs DEF TokensAtHand, LoginAnsweredDoes, FlowIs
<1>5. ClearsBegin'
  BY <1>0, <1>f DEF ClearsBegin, LoginAnsweredDoes, FlowIs
<1>6. Awaited'
  BY <1>0, <1>f DEF Awaited, TokensAtHand, LoginAnsweredDoes, FlowIs
<1>7. overlap' \in BOOLEAN
  BY <1>0, <1>f, Parts DEF LoginAnsweredDoes
<1>. QED  BY <1>1, <1>2, <1>3, <1>4, <1>5, <1>6, <1>7, Parts

LEMMA TypeStartLogin ==
  ASSUME TypeInv, NEW u \in User, StartLogin(u)
  PROVE  TypeInv'
<1>0. /\ RecordsOK /\ HeldKnown /\ CallsKnown /\ TokensAtHand /\ ClearsBegin
      /\ Awaited /\ StartLoginDoes(u)
  BY Parts, StartLoginEffect
<1>1. RecordsOK'
  BY <1>0, Cells DEF RecordsOK, StartLoginDoes, FlowIs
<1>2. HeldKnown'
  BY <1>0, Numbers DEF HeldKnown, StartLoginDoes, FlowIs
<1>3. CallsKnown'
  BY <1>0, Numbers DEF HeldKnown, CallsKnown, StartLoginDoes, FlowIs
<1>4. TokensAtHand'
  BY <1>0, Numbers, ChannelIs DEF TokensAtHand, StartLoginDoes, FlowIs
<1>5. ClearsBegin'
  BY <1>0 DEF ClearsBegin, StartLoginDoes, FlowIs
<1>6. Awaited'
  BY <1>0 DEF Awaited, TokensAtHand, StartLoginDoes, FlowIs
<1>7. overlap' \in BOOLEAN
  BY <1>0, Parts DEF StartLoginDoes
<1>. QED  BY <1>1, <1>2, <1>3, <1>4, <1>5, <1>6, <1>7, Parts

LEMMA TypeLoginLost ==
  ASSUME TypeInv, LoginLost
  PROVE  TypeInv'
<1>0. /\ RecordsOK /\ HeldKnown /\ CallsKnown /\ TokensAtHand /\ ClearsBegin
      /\ Awaited /\ LoginLostDoes
  BY Parts, LoginLostEffect
<1>1. RecordsOK'
  BY <1>0, Cells DEF RecordsOK, LoginLostDoes, FlowEnds, FlowIs
<1>2. HeldKnown'
  BY <1>0, Numbers DEF HeldKnown, LoginLostDoes, FlowEnds, FlowIs
<1>3. CallsKnown'
  BY <1>0, Numbers DEF HeldKnown, CallsKnown, LoginLostDoes, FlowEnds, FlowIs
<1>4. TokensAtHand'
  BY <1>0, Numbers, ChannelIs DEF TokensAtHand, LoginLostDoes, FlowEnds, FlowIs
<1>5. ClearsBegin'
  BY <1>0 DEF ClearsBegin, LoginLostDoes, FlowEnds, FlowIs
<1>6. Awaited'
  BY <1>0 DEF Awaited, TokensAtHand, LoginLostDoes, FlowEnds, FlowIs
<1>7. overlap' \in BOOLEAN
  BY <1>0, Parts DEF LoginLostDoes
<1>. QED  BY <1>1, <1>2, <1>3, <1>4, <1>5, <1>6, <1>7, Parts

LEMMA TypeLoginSaves ==
  ASSUME TypeInv, LoginSaves
  PROVE  TypeInv'
<1>0. /\ RecordsOK /\ HeldKnown /\ CallsKnown /\ TokensAtHand /\ ClearsBegin
      /\ Awaited /\ LoginSavesDoes
  BY Parts, LoginSavesEffect
<1>1. RecordsOK'
  BY <1>0, Cells DEF RecordsOK, LoginSavesDoes, StoreIs, FlowIs, FlowMoves
<1>2. HeldKnown'
  BY <1>0, Numbers DEF HeldKnown, LoginSavesDoes, StoreIs, FlowIs, FlowMoves
<1>3. CallsKnown'
  BY <1>0, Numbers DEF HeldKnown, CallsKnown, LoginSavesDoes, StoreIs, FlowIs, FlowMoves
<1>4. TokensAtHand'
  BY <1>0, Numbers, ChannelIs DEF TokensAtHand, LoginSavesDoes, StoreIs, FlowIs, FlowMoves
<1>5. ClearsBegin'
  BY <1>0 DEF ClearsBegin, LoginSavesDoes, StoreIs, FlowIs, FlowMoves
<1>6. Awaited'
  BY <1>0 DEF Awaited, TokensAtHand, LoginSavesDoes, StoreIs, FlowIs, FlowMoves
<1>7. overlap' \in BOOLEAN
  BY <1>0, Parts DEF LoginSavesDoes
<1>. QED  BY <1>1, <1>2, <1>3, <1>4, <1>5, <1>6, <1>7, Parts

LEMMA TypeLoginPersists ==
  ASSUME TypeInv, LoginPersists
  PROVE  TypeInv'
<1>0. /\ RecordsOK /\ HeldKnown /\ CallsKnown /\ TokensAtHand /\ ClearsBegin
      /\ Awaited /\ LoginPersistsDoes
  BY Parts, LoginPersistsEffect
<1>f. \/ StoreIs(store.access, store.refresh, login.user) /\ UNCHANGED overlap
      \/ Emptying(login.k) /\ overlap' = (overlap \/ refresh.pc # "idle")
  BY <1>0, Types, PersistEffect DEF LoginPersistsDoes, Flow
<1>1. RecordsOK'
  BY <1>0, <1>f, Cells DEF RecordsOK, LoginPersistsDoes, StoreIs, FlowIs, FlowEnds, Emptying
<1>2. HeldKnown'
  BY <1>0, <1>f, Numbers DEF HeldKnown, LoginPersistsDoes, StoreIs, FlowIs, FlowEnds, Emptying
<1>3. CallsKnown'
  BY <1>0, <1>f, Numbers
    DEF HeldKnown, CallsKnown, LoginPersistsDoes, StoreIs, FlowIs, FlowEnds, Emptying
<1>4. TokensAtHand'
  BY <1>0, <1>f, Numbers, ChannelIs
    DEF TokensAtHand, LoginPersistsDoes, StoreIs, FlowIs, FlowEnds, Emptying
<1>5. ClearsBegin'
  BY <1>0, <1>f DEF ClearsBegin, LoginPersistsDoes, StoreIs, FlowIs, FlowEnds, Emptying
<1>6. Awaited'
  BY <1>0, <1>f DEF Awaited, TokensAtHand, LoginPersistsDoes, StoreIs, FlowIs, FlowEnds, Emptying
<1>7. overlap' \in BOOLEAN
  BY <1>0, <1>f, Parts DEF LoginPersistsDoes
<1>. QED  BY <1>1, <1>2, <1>3, <1>4, <1>5, <1>6, <1>7, Parts

LEMMA TypeStartLogout ==
  ASSUME TypeInv, StartLogout
  PROVE  TypeInv'
<1>0. /\ RecordsOK /\ HeldKnown /\ CallsKnown /\ TokensAtHand /\ ClearsBegin
      /\ Awaited /\ StartLogoutDoes
  BY Parts, StartLogoutEffect
<1>1. RecordsOK'
  BY <1>0, Cells DEF RecordsOK, StartLogoutDoes, FlowIs
<1>2. HeldKnown'
  BY <1>0, Numbers DEF HeldKnown, StartLogoutDoes, FlowIs
<1>3. CallsKnown'
  BY <1>0, Numbers DEF HeldKnown, CallsKnown, StartLogoutDoes, FlowIs
<1>4. TokensAtHand'
  BY <1>0, Numbers, ChannelIs DEF TokensAtHand, StartLogoutDoes, FlowIs
<1>5. ClearsBegin'
  BY <1>0 DEF ClearsBegin, StartLogoutDoes, FlowIs
<1>6. Awaited'
  BY <1>0 DEF Awaited, TokensAtHand, StartLogoutDoes, FlowIs
<1>7. overlap' \in BOOLEAN
  BY <1>0, Parts DEF StartLogoutDoes
<1>. QED  BY <1>1, <1>2, <1>3, <1>4, <1>5, <1>6, <1>7, Parts

LEMMA TypeLogoutReads ==
  ASSUME TypeInv, LogoutReads
  PROVE  TypeInv'
<1>0. /\ RecordsOK /\ HeldKnown /\ CallsKnown /\ TokensAtHand /\ ClearsBegin
      /\ Awaited /\ LogoutReadsDoes
  BY Parts, LogoutReadsEffect
<1>1. RecordsOK'
  BY <1>0, Cells DEF RecordsOK, LogoutReadsDoes, Asked, FlowIs, FlowMoves, CallIs
<1>2. HeldKnown'
  BY <1>0, Numbers DEF HeldKnown, LogoutReadsDoes, Asked, FlowIs, FlowMoves, CallIs
<1>3. CallsKnown'
  BY <1>0, Numbers DEF HeldKnown, CallsKnown, LogoutReadsDoes, Asked, FlowIs, FlowMoves, CallIs
<1>4. TokensAtHand'
  BY <1>0, Numbers, ChannelIs DEF TokensAtHand, LogoutReadsDoes, Asked, FlowIs, FlowMoves, CallIs
<1>5. ClearsBegin'
  BY <1>0 DEF ClearsBegin, LogoutReadsDoes, Asked, FlowIs, FlowMoves, CallIs
<1>6. Awaited'
  BY <1>0 DEF Awaited, TokensAtHand, LogoutReadsDoes, Asked, FlowIs, FlowMoves, CallIs
<1>7. overlap' \in BOOLEAN
  BY <1>0, Parts DEF LogoutReadsDoes
<1>. QED  BY <1>1, <1>2, <1>3, <1>4, <1>5, <1>6, <1>7, Parts

LEMMA TypeLogoutCallEnds ==
  ASSUME TypeInv, LogoutCallEnds
  PROVE  TypeInv'
<1>0. /\ RecordsOK /\ HeldKnown /\ CallsKnown /\ TokensAtHand /\ ClearsBegin
      /\ Awaited /\ LogoutCallEndsDoes
  BY Parts, LogoutCallEndsEffect
<1>1. RecordsOK'
  BY <1>0, Cells DEF RecordsOK, LogoutCallEndsDoes, CallGone, FlowMoves, FlowIs, CallIs
<1>2. HeldKnown'
  BY <1>0, Numbers DEF HeldKnown, LogoutCallEndsDoes, CallGone, FlowMoves, FlowIs, CallIs
<1>3. CallsKnown'
  BY <1>0, Numbers
    DEF HeldKnown, CallsKnown, LogoutCallEndsDoes, CallGone, FlowMoves, FlowIs, CallIs
<1>4. TokensAtHand'
  BY <1>0, Numbers, ChannelIs
    DEF TokensAtHand, LogoutCallEndsDoes, CallGone, FlowMoves, FlowIs, CallIs
<1>5. ClearsBegin'
  BY <1>0 DEF ClearsBegin, LogoutCallEndsDoes, CallGone, FlowMoves, FlowIs, CallIs
<1>6. Awaited'
  BY <1>0 DEF Awaited, TokensAtHand, LogoutCallEndsDoes, CallGone, FlowMoves, FlowIs, CallIs
<1>7. overlap' \in BOOLEAN
  BY <1>0, Parts DEF LogoutCallEndsDoes
<1>. QED  BY <1>1, <1>2, <1>3, <1>4, <1>5, <1>6, <1>7, Parts

LEMMA TypeLogoutClears ==
  ASSUME TypeInv, LogoutClears
  PROVE  TypeInv'
<1>0. /\ RecordsOK /\ HeldKnown /\ CallsKnown /\ TokensAtHand /\ ClearsBegin
      /\ Awaited /\ LogoutClearsDoes
  BY Parts, LogoutClearsEffect
<1>f. Emptying(logout.k) /\ overlap' = (overlap \/ refresh.pc # "idle")
  BY <1>0, Types, DeleteEffect DEF LogoutClearsDoes, Flow
<1>1. RecordsOK'
  BY <1>0, <1>f, Cells DEF RecordsOK, LogoutClearsDoes, FlowIs, FlowEnds, Emptying, StoreIs
<1>2. HeldKnown'
  BY <1>0, <1>f, Numbers DEF HeldKnown, LogoutClearsDoes, FlowIs, FlowEnds, Emptying, StoreIs
<1>3. CallsKnown'
  BY <1>0, <1>f, Numbers
    DEF HeldKnown, CallsKnown, LogoutClearsDoes, FlowIs, FlowEnds, Emptying, StoreIs
<1>4. TokensAtHand'
  BY <1>0, <1>f, Numbers, ChannelIs
    DEF TokensAtHand, LogoutClearsDoes, FlowIs, FlowEnds, Emptying, StoreIs
<1>5. ClearsBegin'
  BY <1>0, <1>f DEF ClearsBegin, LogoutClearsDoes, FlowIs, FlowEnds, Emptying, StoreIs
<1>6. Awaited'
  BY <1>0, <1>f DEF Awaited, TokensAtHand, LogoutClearsDoes, FlowIs, FlowEnds, Emptying, StoreIs
<1>7. overlap' \in BOOLEAN
  BY <1>0, <1>f, Parts DEF LogoutClearsDoes
<1>. QED  BY <1>1, <1>2, <1>3, <1>4, <1>5, <1>6, <1>7, Parts

LEMMA TypeRestoreReads ==
  ASSUME TypeInv, RestoreReads
  PROVE  TypeInv'
<1>0. /\ RecordsOK /\ HeldKnown /\ CallsKnown /\ TokensAtHand /\ ClearsBegin
      /\ Awaited /\ RestoreReadsDoes
  BY Parts, RestoreReadsEffect
<1>1. RecordsOK'
  BY <1>0, Cells DEF RecordsOK, RestoreReadsDoes, Asked, FlowIs, FlowMoves, CallIs
<1>2. HeldKnown'
  BY <1>0, Numbers DEF HeldKnown, RestoreReadsDoes, Asked, FlowIs, FlowMoves, CallIs
<1>3. CallsKnown'
  BY <1>0, Numbers DEF HeldKnown, CallsKnown, RestoreReadsDoes, Asked, FlowIs, FlowMoves, CallIs
<1>4. TokensAtHand'
  BY <1>0, Numbers, ChannelIs DEF TokensAtHand, RestoreReadsDoes, Asked, FlowIs, FlowMoves, CallIs
<1>5. ClearsBegin'
  BY <1>0 DEF ClearsBegin, RestoreReadsDoes, Asked, FlowIs, FlowMoves, CallIs
<1>6. Awaited'
  BY <1>0 DEF Awaited, TokensAtHand, RestoreReadsDoes, Asked, FlowIs, FlowMoves, CallIs
<1>7. overlap' \in BOOLEAN
  BY <1>0, Parts DEF RestoreReadsDoes
<1>. QED  BY <1>1, <1>2, <1>3, <1>4, <1>5, <1>6, <1>7, Parts

LEMMA TypeRestoreCallEnds ==
  ASSUME TypeInv, RestoreCallEnds
  PROVE  TypeInv'
<1>0. /\ RecordsOK /\ HeldKnown /\ CallsKnown /\ TokensAtHand /\ ClearsBegin
      /\ Awaited /\ RestoreCallEndsDoes
  BY Parts, RestoreCallEndsEffect
<1>1. RecordsOK'
  BY <1>0, Cells DEF RecordsOK, RestoreCallEndsDoes, CallGone, FlowIs, FlowMoves, FlowEnds, CallIs
<1>2. HeldKnown'
  BY <1>0, Numbers DEF HeldKnown, RestoreCallEndsDoes, CallGone, FlowIs, FlowMoves, FlowEnds, CallIs
<1>3. CallsKnown'
  BY <1>0, Numbers DEF HeldKnown, CallsKnown, RestoreCallEndsDoes, CallGone, FlowIs,
    FlowMoves, FlowEnds, CallIs
<1>4. TokensAtHand'
  BY <1>0, Numbers, ChannelIs
    DEF TokensAtHand, RestoreCallEndsDoes, CallGone, FlowIs, FlowMoves, FlowEnds, CallIs
<1>5. ClearsBegin'
  BY <1>0 DEF ClearsBegin, RestoreCallEndsDoes, CallGone, FlowIs, FlowMoves, FlowEnds, CallIs
<1>6. Awaited'
  BY <1>0 DEF Awaited, TokensAtHand, RestoreCallEndsDoes, CallGone, FlowIs, FlowMoves,
    FlowEnds, CallIs
<1>7. overlap' \in BOOLEAN
  BY <1>0, Parts DEF RestoreCallEndsDoes
<1>. QED  BY <1>1, <1>2, <1>3, <1>4, <1>5, <1>6, <1>7, Parts

LEMMA TypeRestoreRechecks ==
  ASSUME TypeInv, RestoreRechecks
  PROVE  TypeInv'
<1>0. /\ RecordsOK /\ HeldKnown /\ CallsKnown /\ TokensAtHand /\ ClearsBegin
      /\ Awaited /\ RestoreRechecksDoes
  BY Parts, RestoreRechecksEffect
<1>1. RecordsOK'
  BY <1>0, Cells DEF RecordsOK, RestoreRechecksDoes, FlowMoves, FlowEnds, FlowIs
<1>2. HeldKnown'
  BY <1>0, Numbers DEF HeldKnown, RestoreRechecksDoes, FlowMoves, FlowEnds, FlowIs
<1>3. CallsKnown'
  BY <1>0, Numbers DEF HeldKnown, CallsKnown, RestoreRechecksDoes, FlowMoves, FlowEnds, FlowIs
<1>4. TokensAtHand'
  BY <1>0, Numbers, ChannelIs DEF TokensAtHand, RestoreRechecksDoes, FlowMoves, FlowEnds, FlowIs
<1>5. ClearsBegin'
  BY <1>0 DEF ClearsBegin, RestoreRechecksDoes, FlowMoves, FlowEnds, FlowIs
<1>6. Awaited'
  BY <1>0 DEF Awaited, TokensAtHand, RestoreRechecksDoes, FlowMoves, FlowEnds, FlowIs
<1>7. overlap' \in BOOLEAN
  BY <1>0, Parts DEF RestoreRechecksDoes
<1>. QED  BY <1>1, <1>2, <1>3, <1>4, <1>5, <1>6, <1>7, Parts

LEMMA TypeRestoreClears ==
  ASSUME TypeInv, RestoreClears
  PROVE  TypeInv'
<1>0. /\ RecordsOK /\ HeldKnown /\ CallsKnown /\ TokensAtHand /\ ClearsBegin
      /\ Awaited /\ RestoreClearsDoes
  BY Parts, RestoreClearsEffect
<1>f. Emptying(restore.k) /\ overlap' = (overlap \/ refresh.pc # "idle")
  BY <1>0, Types, DeleteEffect DEF RestoreClearsDoes, Flow
<1>1. RecordsOK'
  BY <1>0, <1>f, Cells DEF RecordsOK, RestoreClearsDoes, FlowIs, FlowEnds, Emptying, StoreIs
<1>2. HeldKnown'
  BY <1>0, <1>f, Numbers DEF HeldKnown, RestoreClearsDoes, FlowIs, FlowEnds, Emptying, StoreIs
<1>3. CallsKnown'
  BY <1>0, <1>f, Numbers
    DEF HeldKnown, CallsKnown, RestoreClearsDoes, FlowIs, FlowEnds, Emptying, StoreIs
<1>4. TokensAtHand'
  BY <1>0, <1>f, Numbers, ChannelIs
    DEF TokensAtHand, RestoreClearsDoes, FlowIs, FlowEnds, Emptying, StoreIs
<1>5. ClearsBegin'
  BY <1>0, <1>f DEF ClearsBegin, RestoreClearsDoes, FlowIs, FlowEnds, Emptying, StoreIs
<1>6. Awaited'
  BY <1>0, <1>f DEF Awaited, TokensAtHand, RestoreClearsDoes, FlowIs, FlowEnds, Emptying, StoreIs
<1>7. overlap' \in BOOLEAN
  BY <1>0, <1>f, Parts DEF RestoreClearsDoes
<1>. QED  BY <1>1, <1>2, <1>3, <1>4, <1>5, <1>6, <1>7, Parts

LEMMA TypeRestorePersists ==
  ASSUME TypeInv, RestorePersists
  PROVE  TypeInv'
<1>0. /\ RecordsOK /\ HeldKnown /\ CallsKnown /\ TokensAtHand /\ ClearsBegin
      /\ Awaited /\ RestorePersistsDoes
  BY Parts, RestorePersistsEffect
<1>f. \/ StoreIs(store.access, store.refresh, restore.user) /\ UNCHANGED overlap
      \/ Emptying(restore.k) /\ overlap' = (overlap \/ refresh.pc # "idle")
  BY <1>0, Types, PersistEffect DEF RestorePersistsDoes, Flow
<1>1. RecordsOK'
  BY <1>0, <1>f, Cells DEF RecordsOK, RestorePersistsDoes, StoreIs, FlowIs, FlowEnds, Emptying
<1>2. HeldKnown'
  BY <1>0, <1>f, Numbers DEF HeldKnown, RestorePersistsDoes, StoreIs, FlowIs, FlowEnds, Emptying
<1>3. CallsKnown'
  BY <1>0, <1>f, Numbers
    DEF HeldKnown, CallsKnown, RestorePersistsDoes, StoreIs, FlowIs, FlowEnds, Emptying
<1>4. TokensAtHand'
  BY <1>0, <1>f, Numbers, ChannelIs
    DEF TokensAtHand, RestorePersistsDoes, StoreIs, FlowIs, FlowEnds, Emptying
<1>5. ClearsBegin'
  BY <1>0, <1>f DEF ClearsBegin, RestorePersistsDoes, StoreIs, FlowIs, FlowEnds, Emptying
<1>6. Awaited'
  BY <1>0, <1>f DEF Awaited, TokensAtHand, RestorePersistsDoes, StoreIs, FlowIs, FlowEnds, Emptying
<1>7. overlap' \in BOOLEAN
  BY <1>0, <1>f, Parts DEF RestorePersistsDoes
<1>. QED  BY <1>1, <1>2, <1>3, <1>4, <1>5, <1>6, <1>7, Parts

LEMMA TypeRestart ==
  ASSUME TypeInv, ServingInv, Restart
  PROVE  TypeInv'
<1>0. RecordsOK /\ HeldKnown /\ CallsKnown /\ TokensAtHand /\ ClearsBegin /\ Awaited /\ RestartDoes
  BY Parts, RestartEffect
<1>1. RecordsOK'
  BY <1>0, Cells DEF RecordsOK, RestartDoes, RefreshIs, FlowIs, FlowEnds
<1>2. HeldKnown'
  BY <1>0, Numbers DEF HeldKnown, RestartDoes, RefreshIs, FlowIs, FlowEnds
<1>3. CallsKnown'
  BY <1>0, Numbers DEF HeldKnown, CallsKnown, RestartDoes, RefreshIs, FlowIs, FlowEnds
<1>4. TokensAtHand'
  BY <1>0, Numbers, ChannelIs DEF TokensAtHand, RestartDoes, RefreshIs, FlowIs, FlowEnds
<1>5. ClearsBegin'
  BY <1>0 DEF ClearsBegin, RestartDoes, RefreshIs, FlowIs, FlowEnds
<1>6. Awaited'
  BY <1>0 DEF Awaited, TokensAtHand, RestartDoes, RefreshIs, FlowIs, FlowEnds
<1>7. overlap' \in BOOLEAN
  BY <1>0, Parts DEF RestartDoes
<1>. QED  BY <1>1, <1>2, <1>3, <1>4, <1>5, <1>6, <1>7, Parts

LEMMA TypeResetPassword ==
  ASSUME TypeInv, NEW u \in User, ResetPassword(u)
  PROVE  TypeInv'
<1>0. RecordsOK /\ HeldKnown /\ CallsKnown /\ TokensAtHand /\ ClearsBegin /\ Awaited /\ ResetDoes(u)
  BY Parts, ResetEffect
<1>1. RecordsOK'
  BY <1>0, Cells DEF RecordsOK, ResetDoes
<1>2. HeldKnown'
  BY <1>0, Numbers DEF HeldKnown, ResetDoes
<1>3. CallsKnown'
  BY <1>0, Numbers DEF HeldKnown, CallsKnown, ResetDoes
<1>4. TokensAtHand'
  BY <1>0, Numbers, ChannelIs DEF TokensAtHand, ResetDoes
<1>5. ClearsBegin'
  BY <1>0 DEF ClearsBegin, ResetDoes
<1>6. Awaited'
  BY <1>0 DEF Awaited, TokensAtHand, ResetDoes
<1>7. overlap' \in BOOLEAN
  BY <1>0, Parts DEF ResetDoes
<1>. QED  BY <1>1, <1>2, <1>3, <1>4, <1>5, <1>6, <1>7, Parts

ExpireDoes(i) ==
  /\ expired' = expired \cup {i}
  /\ UNCHANGED <<issued, recorded, blacklisted, serving, used, doubled, Spent, store, auth,
                 epoch, call, refresh, clears, restore, login, logout, overlap>>
LEMMA TypeExpireAccess ==
  ASSUME TypeInv, NEW i \in DOMAIN issued, ExpireAccess(i)
  PROVE  TypeInv' /\ ExpireDoes(i)
<1>0. RecordsOK /\ HeldKnown /\ CallsKnown /\ TokensAtHand /\ ClearsBegin /\ Awaited
  BY Parts
<1>1. ExpireDoes(i)  BY DEF ExpireAccess, ExpireDoes, flows, Spent
<1>2. RecordsOK'  BY <1>0, <1>1 DEF RecordsOK, ExpireDoes
<1>3. HeldKnown' /\ CallsKnown' /\ TokensAtHand' /\ ClearsBegin' /\ Awaited'
  BY <1>0, <1>1
  DEF HeldKnown, CallsKnown, TokensAtHand, ClearsBegin, Awaited, ExpireDoes
<1>4. overlap' \in BOOLEAN  BY <1>1, Parts DEF ExpireDoes
<1>. QED  BY <1>1, <1>2, <1>3, <1>4, Parts

LEMMA TypeUnchanged == TypeInv /\ UNCHANGED vars => TypeInv'
<1> SUFFICES ASSUME TypeInv, UNCHANGED vars PROVE TypeInv'  OBVIOUS
<1>0. RecordsOK /\ HeldKnown /\ CallsKnown /\ TokensAtHand /\ ClearsBegin /\ Awaited
  BY Parts
<1>1. UNCHANGED <<issued, recorded, blacklisted, expired, serving, used, doubled,
                  store, auth, epoch, call, refresh, clears, restore, login, logout, overlap>>
  BY DEF vars, server, flows
<1>2. RecordsOK'  BY <1>0, <1>1 DEF RecordsOK
<1>3. HeldKnown' /\ CallsKnown' /\ TokensAtHand' /\ ClearsBegin' /\ Awaited'
  BY <1>0, <1>1 DEF HeldKnown, CallsKnown, TokensAtHand, ClearsBegin, Awaited
<1>4. overlap' \in BOOLEAN  BY <1>1, Parts
<1>. QED  BY <1>2, <1>3, <1>4, Parts

LEMMA TypeInit == Init => TypeInv
<1> SUFFICES ASSUME Init PROVE TypeInv  OBVIOUS
<1>1. /\ issued \in Seq(User) /\ Len(issued) <= MaxPairs
      /\ store \in StoreCells
      /\ store.access <= Len(issued) /\ store.refresh <= Len(issued)
  <2>1. CASE issued = <<>> /\ store = [access |-> 0, refresh |-> 0, session |-> None]
    BY <2>1, SessionsAssumption DEF StoreCells, Pair
  <2>2. ASSUME NEW u \in HasCompany, issued = <<u>>,
               store = [access |-> 1, refresh |-> 1, session |-> u]
        PROVE  /\ issued \in Seq(User) /\ Len(issued) <= MaxPairs
               /\ store \in StoreCells
               /\ store.access <= Len(issued) /\ store.refresh <= Len(issued)
    <3>1. u \in User /\ 1 \in Pair  BY SessionsAssumption DEF Pair
    <3>2. issued \in Seq(User) /\ Len(issued) = 1  BY <2>2, <3>1
    <3>3. store \in StoreCells /\ store.access = 1 /\ store.refresh = 1
      BY <2>2, <3>1 DEF StoreCells
    <3>. QED  BY <3>2, <3>3, SessionsAssumption
  <2>. QED  BY <2>1, <2>2 DEF Init
<1>2. \A c \in Channel : /\ call[c].pc = "idle" /\ call[c].tok = 0
                         /\ call[c].body = 0 /\ call[c].k = 1
  BY DEF Init, Idle
<1>3. FlowEnds(login) /\ FlowEnds(logout) /\ FlowIs(restore, "start", None, 0, 0, 1)
  <2>1. [NoFlow EXCEPT !.pc = "start"] \in Flow  BY NoFlowType DEF Flow
  <2>2. FlowIs(restore, "start", None, 0, 0, 1)  BY <2>1 DEF Init, FlowIs, NoFlow
  <2>. QED  BY <2>2, FlowEnded DEF Init
<1>4. /\ refresh \in RefreshState /\ refresh.pc = "idle"
      /\ refresh.tok = 0 /\ refresh.new = 0
  BY NoRefreshType DEF Init, NoRefresh
<1>5. call \in [Channel -> CallState]  BY IdleType DEF Init
<1>n. NoCall \in ServerCall  BY SessionsAssumption DEF NoCall, ServerCall, Pair
<1>6. RecordsOK
  BY <1>1, <1>3, <1>4, <1>5, <1>n DEF Init, RecordsOK, FlowEnds, FlowIs
<1>7. HeldKnown /\ CallsKnown
  BY <1>1, <1>2, <1>3, <1>4, LenProperties DEF HeldKnown, CallsKnown, FlowEnds, FlowIs
<1>8. TokensAtHand /\ ClearsBegin /\ Awaited
  BY <1>2, <1>3, <1>4, ChannelIs DEF TokensAtHand, ClearsBegin, Awaited, FlowEnds, FlowIs
<1>9. overlap \in BOOLEAN  BY DEF Init
<1>. QED  BY <1>6, <1>7, <1>8, <1>9, Parts

LEMMA TypeStep == TypeInv /\ ServingInv /\ [Next]_vars => TypeInv'
<1> SUFFICES ASSUME TypeInv, ServingInv, [Next]_vars PROVE TypeInv'  OBVIOUS
<1>1. CASE Phone
  BY <1>1, TypeAttach, TypeInvalidateSession, TypeClear, TypeReadRefreshToken,
     TypeSaveAccess, TypeSaveRefresh, TypeLoginSaves, TypeLoginPersists, TypeLogoutReads,
     TypeLogoutCallEnds, TypeLogoutClears, TypeRestoreReads, TypeRestoreCallEnds,
     TypeRestoreRechecks, TypeRestoreClears, TypeRestorePersists
  DEF Phone
<1>2. CASE Network
  BY <1>2, TypeSucceed, TypeDenied, TypeCheckRefresh, TypeBlacklistRefresh,
     TypeIssueRefresh, TypeServeLate, TypeLoginAnswered
  DEF Network
<1>3. CASE Environment
  BY <1>3, TypeAsk, TypeLoseRequest, TypeLoseRefresh, TypeLoginLost, TypeStartLogin,
     TypeStartLogout, TypeRestart, TypeExpireAccess, TypeResetPassword
  DEF Environment
<1>4. CASE UNCHANGED vars  BY <1>4, TypeUnchanged
<1>. QED  BY <1>1, <1>2, <1>3, <1>4 DEF Next

-----------------------------------------------------------------------------
(* The calls the server serves.                                              *)

CallsServed ==
  \A w \in Worker :
    /\ serving[w].tok <= Len(issued)
    /\ serving[w].at \in {"check", "blacklist", "issue", "logout"} => serving[w].tok # 0
    /\ serving[w].at = "issue" => serving[w].tok \in blacklisted
    /\ serving[w].at = "login" => serving[w].user \in User
PhoneServed ==
  /\ serving["phone"].at \notin {"login", "logout"}
  /\ serving["phone"].at # "none" <=> refresh.pc = "posted"
  /\ refresh.pc = "posted" => serving["phone"].tok = refresh.tok

LEMMA ServingParts ==
  /\ ServingInv <=> CallsServed /\ PhoneServed
  /\ ServingInv' <=> CallsServed' /\ PhoneServed'
BY DEF ServingInv, CallsServed, PhoneServed

(* A step that the server has no part in, but for tokens it refuses.         *)
RefreshStays ==
  /\ refresh'.pc = "posted" <=> refresh.pc = "posted"
  /\ refresh.pc = "posted" => refresh'.tok = refresh.tok
PhoneOnly ==
  /\ UNCHANGED <<issued, recorded, serving, doubled>> /\ blacklisted \subseteq blacklisted'
  /\ RefreshStays

LEMMA PhoneWorks == TypeInv /\ Phone => PhoneOnly \/ ReadRefreshToken
<1> SUFFICES ASSUME TypeInv, Phone PROVE PhoneOnly \/ ReadRefreshToken  OBVIOUS
<1>1. CASE SaveAccess
  BY <1>1, SaveAccessEffect DEF SaveAccessDoes, RefreshIs, PhoneOnly, RefreshStays
<1>2. CASE SaveRefresh
  <2>1. SaveRefreshDoes  BY <1>2, SaveRefreshEffect
  <2>2. CompletedDoes(refresh.new)  BY <2>1, CompletedEffect DEF SaveRefreshDoes
  <2>. QED  BY <2>1, <2>2 DEF SaveRefreshDoes, CompletedDoes, RefreshIs, PhoneOnly, RefreshStays
<1>3. CASE \E c \in Channel : Attach(c) \/ InvalidateSession(c)
  BY <1>3, AttachEffect, InvalidateEffect
  DEF AttachDoes, InvalidateDoes, PhoneOnly, RefreshStays
<1>4. CASE \E i \in DOMAIN clears : Clear(i)
  BY <1>4, ClearEffect DEF ClearDoes, PhoneOnly, RefreshStays
<1>5. CASE LoginSaves \/ LoginPersists
  BY <1>5, LoginSavesEffect, LoginPersistsEffect
  DEF LoginSavesDoes, LoginPersistsDoes, PhoneOnly, RefreshStays
<1>6. CASE LogoutReads \/ LogoutCallEnds \/ LogoutClears
  BY <1>6, LogoutReadsEffect, LogoutCallEndsEffect, LogoutClearsEffect
  DEF LogoutReadsDoes, LogoutCallEndsDoes, LogoutClearsDoes, PhoneOnly, RefreshStays
<1>7. CASE RestoreReads \/ RestoreCallEnds \/ RestoreRechecks
  BY <1>7, RestoreReadsEffect, RestoreCallEndsEffect, RestoreRechecksEffect
  DEF RestoreReadsDoes, RestoreCallEndsDoes, RestoreRechecksDoes, PhoneOnly, RefreshStays
<1>8. CASE RestoreClears \/ RestorePersists
  BY <1>8, RestoreClearsEffect, RestorePersistsEffect
  DEF RestoreClearsDoes, RestorePersistsDoes, PhoneOnly, RefreshStays
<1>. QED  BY <1>1, <1>2, <1>3, <1>4, <1>5, <1>6, <1>7, <1>8 DEF Phone

(* A step that gives calls up: the refresh the phone waited for, or a login  *)
(* or a logout.                                                              *)
Known(d) ==
  /\ d.tok <= Len(issued)
  /\ d.at \in {"check", "blacklist", "issue", "logout"} => d.tok # 0
  /\ d.at = "issue" => d.tok \in blacklisted
  /\ d.at = "login" => d.user \in User
  /\ d.at \notin {"none", "login", "logout"} => d = serving["phone"]
GivesUp ==
  /\ UNCHANGED <<issued, recorded, blacklisted, doubled>>
  /\ \E calls \in SUBSET ServerCall :
       /\ GiveUp(calls) /\ \A d \in calls : Known(d)
       /\ \/ serving["phone"] \in calls /\ refresh'.pc # "posted"
          \/ (\A d \in calls : d.at \in {"login", "logout"}) /\ UNCHANGED refresh

LEMMA CallsGivenUp ==
  ASSUME TypeInv, ServingInv,
         (\E c \in Channel : LoseRequest(c)) \/ LoseRefresh \/ LoginLost \/ Restart
  PROVE  GivesUp
<1>1. /\ UnderWay \in SUBSET ServerCall /\ serving["phone"] \in UnderWay
      /\ \A d \in UnderWay : Known(d)
  BY GivenUpRestart DEF Known
<1>2. CASE Restart
  <2>1. GiveUp(UnderWay)  BY <1>2 DEF Restart
  <2>2. refresh'.pc # "posted"  BY <1>2 DEF Restart, NoRefresh
  <2>. QED  BY <1>1, <1>2, <2>1, <2>2 DEF Restart, GivesUp
<1>3. CASE LoseRefresh
  <2>1. GiveUp({serving["phone"]})  BY <1>3 DEF LoseRefresh
  <2>2. refresh'.pc # "posted"  BY <1>3 DEF LoseRefresh, Completed, NoRefresh
  <2>. QED  BY <1>1, <1>3, <2>1, <2>2 DEF LoseRefresh, GivesUp
<1>4. CASE LoginLost
  <2> DEFINE calls == IF login.pc = "post" THEN {LoginCall(login.user)} ELSE {}
  <2>1. GiveUp(calls) /\ UNCHANGED refresh  BY <1>4 DEF LoginLost
  <2>2. login.pc = "post" => login.user \in User
    BY DEF TypeInv, TokensAtHand
  <2>3. calls \subseteq UnderWay  BY <2>2 DEF UnderWay
  <2>4. \A d \in calls : d.at = "login"  BY DEF LoginCall
  <2>. QED  BY <1>1, <1>4, <2>1, <2>3, <2>4 DEF LoginLost, GivesUp
<1>5. ASSUME NEW c \in Channel, LoseRequest(c) PROVE GivesUp
  <2> DEFINE calls == IF c = "logout" /\ Accepted(c) THEN {LogoutCall(call[c].body)} ELSE {}
  <2>1. GiveUp(calls) /\ UNCHANGED refresh /\ call[c].pc = "sent"  BY <1>5 DEF LoseRequest
  <2>2. calls \subseteq UnderWay  BY <2>1 DEF UnderWay
  <2>3. \A d \in calls : d.at = "logout"  BY DEF LogoutCall
  <2>. QED  BY <1>1, <1>5, <2>1, <2>2, <2>3 DEF LoseRequest, GivesUp
<1>. QED  BY <1>2, <1>3, <1>4, <1>5

(* What each step is to the server.                                          *)
LEMMA ServerSteps ==
  ASSUME TypeInv, ServingInv, [Next]_vars
  PROVE  \/ PhoneOnly \/ GivesUp \/ ReadRefreshToken \/ LoginAnswered
         \/ \E w \in Worker :
              CheckRefresh(w) \/ BlacklistRefresh(w) \/ IssueRefresh(w) \/ ServeLate(w)
<1>1. CASE Phone  BY <1>1, PhoneWorks
<1>2. ASSUME NEW c \in Channel, Succeed(c) \/ Denied(c) PROVE PhoneOnly
  <2>1. CASE Succeed(c)
    BY <2>1, SucceedEffect DEF SucceedDoes, Served, Revoke, PhoneOnly, RefreshStays
  <2>2. CASE Denied(c)
    BY <2>2, DeniedEffect DEF DeniedDoes, RefreshIs, PhoneOnly, RefreshStays
  <2>. QED  BY <1>2, <2>1, <2>2
<1>3. CASE Environment
  <2>1. ASSUME NEW c \in Api, Ask(c) PROVE PhoneOnly
    BY <2>1, AskEffect DEF AskDoes, PhoneOnly, RefreshStays
  <2>2. ASSUME NEW u \in User, StartLogin(u) \/ ResetPassword(u) PROVE PhoneOnly
    BY <2>2, StartLoginEffect, ResetEffect
    DEF StartLoginDoes, ResetDoes, PhoneOnly, RefreshStays
  <2>3. ASSUME StartLogout PROVE PhoneOnly
    BY <2>3, StartLogoutEffect DEF StartLogoutDoes, PhoneOnly, RefreshStays
  <2>4. ASSUME NEW i \in DOMAIN issued, ExpireAccess(i) PROVE PhoneOnly
    BY <2>4 DEF ExpireAccess, PhoneOnly, RefreshStays
  <2>. QED  BY <1>3, <2>1, <2>2, <2>3, <2>4, CallsGivenUp DEF Environment
<1>4. CASE UNCHANGED vars
  BY <1>4 DEF vars, server, PhoneOnly, RefreshStays
<1>. QED  BY <1>1, <1>2, <1>3, <1>4 DEF Next, Network

(* A call of the server goes on.                                             *)
LEMMA ServesKnown ==
  ASSUME TypeInv, ServingInv, NEW w \in Worker, NEW at \in {"none", "check", "blacklist", "issue"},
         NEW t, ServesOne(w, at, t), t <= Len(issued'), at # "none" => t # 0,
         at = "issue" => t \in blacklisted', blacklisted \subseteq blacklisted',
         Len(issued') \in {Len(issued), Len(issued) + 1}
  PROVE  CallsServed'
<1>1. Len(issued) \in Nat  BY Numbers
<1>2. \A v \in Worker : serving[v].tok \in Nat
  BY ServingType, SessionsAssumption DEF ServerCall, Pair
<1>3. ASSUME NEW v \in Worker, v # w
      PROVE  /\ serving'[v].tok <= Len(issued')
             /\ serving'[v].at \in {"check", "blacklist", "issue", "logout"} => serving'[v].tok # 0
             /\ serving'[v].at = "issue" => serving'[v].tok \in blacklisted'
             /\ serving'[v].at = "login" => serving'[v].user \in User
  <2>1. serving'[v] = serving[v]  BY <1>3 DEF ServesOne
  <2>2. serving[v].tok <= Len(issued')  BY <1>1, <1>2, <1>3 DEF ServingInv
  <2>. QED  BY <2>1, <2>2 DEF ServingInv
<1>4. serving'[w].at = at /\ serving'[w].tok = t  BY DEF ServesOne
<1>. QED  BY <1>3, <1>4 DEF CallsServed

LEMMA ServingReadRefreshToken ==
  ASSUME TypeInv, ServingInv, ReadRefreshToken
  PROVE  ServingInv'
<1>1. ReadRefreshTokenDoes  BY ReadRefreshTokenEffect
<1>2. CASE Completed(0) /\ UNCHANGED serving
  <2>1. refresh'.pc = "idle"  BY <1>2 DEF Completed, NoRefresh
  <2>. QED  BY <1>1, <1>2, <2>1 DEF ServingInv, ReadRefreshTokenDoes
<1>3. CASE /\ store.refresh # 0 /\ RefreshIs("posted", store.refresh, refresh.new)
           /\ ServesOne("phone", "check", store.refresh)
  <2>1. store.refresh <= Len(issued) /\ UNCHANGED <<issued, blacklisted>>
    BY <1>1, Parts DEF HeldKnown, ReadRefreshTokenDoes
  <2>2. CallsServed'  BY <1>3, <2>1, ServesKnown, WorkerIs
  <2>3. PhoneServed'  BY <1>3 DEF PhoneServed, RefreshIs, ServesOne
  <2>. QED  BY <2>2, <2>3, ServingParts
<1>. QED  BY <1>1, <1>2, <1>3 DEF ReadRefreshTokenDoes

LEMMA ServingCheckRefresh ==
  ASSUME TypeInv, ServingInv, NEW w \in Worker, CheckRefresh(w)
  PROVE  ServingInv'
<1> DEFINE t == serving[w].tok
<1>1. CheckRefreshDoes(w)  BY CheckRefreshEffect
<1>2. serving[w].at = "check" /\ t # 0 /\ t <= Len(issued) /\ 0 <= Len(issued)
  BY <1>1, Numbers DEF CheckRefreshDoes, ServingInv
<1>3. UNCHANGED <<issued, blacklisted>>  BY <1>1 DEF CheckRefreshDoes
<1>4. CASE /\ ServesOne(w, "none", 0)
           /\ IF w = "phone" THEN Completed(0) ELSE UNCHANGED <<call, refresh>>
  <2>1. CallsServed'  BY <1>2, <1>3, <1>4, ServesKnown
  <2>2. PhoneServed'
    BY <1>4, WorkerIs DEF ServingInv, PhoneServed, ServesOne, Completed, NoRefresh
  <2>. QED  BY <2>1, <2>2, ServingParts
<1>5. CASE ServesOne(w, "blacklist", t) /\ UNCHANGED refresh
  <2>1. CallsServed'  BY <1>2, <1>3, <1>5, ServesKnown
  <2>2. PhoneServed'  BY <1>2, <1>5, WorkerIs DEF ServingInv, PhoneServed, ServesOne
  <2>. QED  BY <2>1, <2>2, ServingParts
<1>. QED  BY <1>1, <1>4, <1>5 DEF CheckRefreshDoes

LEMMA ServingBlacklistRefresh ==
  ASSUME TypeInv, ServingInv, NEW w \in Worker, BlacklistRefresh(w)
  PROVE  ServingInv'
<1> DEFINE t == serving[w].tok
<1>1. BlacklistRefreshDoes(w)  BY BlacklistRefreshEffect
<1>2. serving[w].at = "blacklist" /\ t # 0 /\ t <= Len(issued)
  BY <1>1 DEF BlacklistRefreshDoes, ServingInv
<1>3. /\ UNCHANGED <<issued, refresh>> /\ blacklisted' = blacklisted \cup {t}
      /\ ServesOne(w, "issue", t)
  BY <1>1 DEF BlacklistRefreshDoes
<1>4. CallsServed'  BY <1>2, <1>3, ServesKnown
<1>5. PhoneServed'  BY <1>2, <1>3, WorkerIs DEF ServingInv, PhoneServed, ServesOne
<1>. QED  BY <1>4, <1>5, ServingParts

LEMMA ServingIssueRefresh ==
  ASSUME TypeInv, ServingInv, NEW w \in Worker, IssueRefresh(w)
  PROVE  ServingInv'
<1>1. IssueRefreshDoes(w)  BY IssueRefreshEffect
<1>2. /\ ServesOne(w, "none", 0) /\ UNCHANGED blacklisted
      /\ IF w = "phone" THEN refresh'.pc = "saveAccess" ELSE UNCHANGED refresh
  BY <1>1 DEF IssueRefreshDoes, RefreshIs
<1>3. Len(issued') = Len(issued) + 1 /\ Len(issued) \in Nat
  BY <1>1, Types, Numbers, Issued DEF IssueRefreshDoes
<1>4. CallsServed'  BY <1>2, <1>3, ServesKnown
<1>5. PhoneServed'  BY <1>2, WorkerIs DEF ServingInv, PhoneServed, ServesOne
<1>. QED  BY <1>4, <1>5, ServingParts

LEMMA ServingServeLate ==
  ASSUME TypeInv, ServingInv, NEW w \in Worker, ServeLate(w)
  PROVE  ServingInv'
<1>1. ServeLateDoes(w)  BY ServeLateEffect
<1>2. /\ ServesOne(w, "none", 0) /\ blacklisted \subseteq blacklisted' /\ w \in Slot
      /\ UNCHANGED refresh
  BY <1>1 DEF ServeLateDoes, Revoke
<1>3. Len(issued') \in {Len(issued), Len(issued) + 1} /\ Len(issued) \in Nat
  BY <1>1, Types, Numbers, Issued DEF ServeLateDoes
<1>4. CallsServed'  BY <1>2, <1>3, ServesKnown
<1>5. PhoneServed'  BY <1>2, WorkerIs DEF ServingInv, PhoneServed, ServesOne
<1>. QED  BY <1>4, <1>5, ServingParts

LEMMA ServingGivesUp ==
  ASSUME TypeInv, ServingInv, GivesUp
  PROVE  ServingInv'
<1>1. PICK calls \in SUBSET ServerCall :
        /\ GiveUp(calls) /\ \A d \in calls : Known(d)
        /\ \/ serving["phone"] \in calls /\ refresh'.pc # "posted"
           \/ (\A d \in calls : d.at \in {"login", "logout"}) /\ UNCHANGED refresh
  BY DEF GivesUp
<1>2. UNCHANGED <<issued, blacklisted>>  BY DEF GivesUp
<1>3. NoCall.at = "none" /\ NoCall.tok = 0 /\ 0 <= Len(issued)  BY Numbers DEF NoCall
<1>4. /\ serving'["phone"] =
           IF serving["phone"] \in calls THEN NoCall ELSE serving["phone"]
      /\ \A w \in Slot : serving'[w] # serving[w] => serving'[w] \in calls
  BY <1>1, GivenUp
<1>5. ASSUME NEW w \in Worker
      PROVE  serving'[w] \in calls \/ serving'[w] = serving[w] \/ serving'[w] = NoCall
  BY <1>4, WorkerIs
<1>6. CallsServed'
  <2>1. ASSUME NEW w \in Worker
        PROVE  /\ serving'[w].tok <= Len(issued)
               /\ serving'[w].at \in {"check", "blacklist", "issue", "logout"}
                    => serving'[w].tok # 0
               /\ serving'[w].at = "issue" => serving'[w].tok \in blacklisted
               /\ serving'[w].at = "login" => serving'[w].user \in User
    <3>1. CASE serving'[w] \in calls  BY <1>1, <3>1 DEF Known
    <3>2. CASE serving'[w] = serving[w]  BY <3>2 DEF ServingInv
    <3>3. CASE serving'[w] = NoCall  BY <1>3, <3>3
    <3>. QED  BY <1>5, <3>1, <3>2, <3>3
  <2>. QED  BY <1>2, <2>1 DEF CallsServed
<1>7. PhoneServed'
  <2>1. CASE serving["phone"] \in calls /\ refresh'.pc # "posted"
    BY <1>3, <1>4, <2>1 DEF PhoneServed
  <2>2. CASE (\A d \in calls : d.at \in {"login", "logout"}) /\ UNCHANGED refresh
    <3>1. serving["phone"] \notin calls  BY <2>2 DEF ServingInv
    <3>. QED  BY <1>4, <2>2, <3>1 DEF ServingInv, PhoneServed
  <2>. QED  BY <1>1, <2>1, <2>2
<1>. QED  BY <1>6, <1>7, ServingParts

LEMMA ServingStep == TypeInv /\ ServingInv /\ [Next]_vars => ServingInv'
<1> SUFFICES ASSUME TypeInv, ServingInv, [Next]_vars PROVE ServingInv'  OBVIOUS
<1>1. CASE PhoneOnly
  BY <1>1 DEF PhoneOnly, RefreshStays, ServingInv
<1>2. CASE LoginAnswered
  <2>1. /\ Len(issued') = Len(issued) + 1 /\ Len(issued) \in Nat
        /\ UNCHANGED <<blacklisted, serving, refresh>>
    BY <1>2, LoginAnsweredEffect, Types, Numbers, Issued DEF LoginAnsweredDoes
  <2>2. \A w \in Worker : serving[w].tok \in Nat
    BY ServingType, SessionsAssumption DEF ServerCall, Pair
  <2>3. \A w \in Worker : serving[w].tok <= Len(issued')  BY <2>1, <2>2 DEF ServingInv
  <2>. QED  BY <2>1, <2>3 DEF ServingInv
<1>. QED
  BY <1>1, <1>2, ServerSteps, ServingReadRefreshToken, ServingCheckRefresh,
     ServingBlacklistRefresh, ServingIssueRefresh, ServingServeLate, ServingGivesUp

LEMMA ServingInit == Init => ServingInv
<1> SUFFICES ASSUME Init PROVE ServingInv  OBVIOUS
<1>1. \A w \in Worker : serving[w].at = "none" /\ serving[w].tok = 0
  BY DEF Init, NoCall
<1>2. 0 <= Len(issued)  BY TypeInit, Numbers
<1>3. refresh.pc = "idle"  BY DEF Init, NoRefresh
<1>. QED  BY <1>1, <1>2, <1>3, WorkerIs DEF ServingInv

LEMMA ServerInv == Spec => [](TypeInv /\ ServingInv)
BY TypeInit, ServingInit, TypeStep, ServingStep, PTL DEF Spec

(* Every variable keeps its type, each flow has the token or the user its    *)
(* next step needs, and so has each call that the server serves.             *)
THEOREM SessionsTypeCorrect ==
  Spec => [](TypeOK /\ HeldKnown /\ CallsKnown /\ TokensAtHand /\ ServingInv)
<1>1. TypeInv => TypeOK /\ HeldKnown /\ CallsKnown /\ TokensAtHand  BY DEF TypeInv
<1>. QED  BY <1>1, ServerInv, PTL

-----------------------------------------------------------------------------
(* One live pair for each login and each refresh that was doubled.           *)
(*                                                                           *)
(* A refresh that has passed its check will replace one of the accepted      *)
(* pairs, which is counted for the refresh from then on and not as a pair.   *)
(* Another refresh that passes the check of the same token meanwhile is one  *)
(* more that will hand out a pair, for no pair less: it is doubled.          *)

Live   == DOMAIN issued \ blacklisted
Begun  == {w \in Worker : serving[w].at \in {"blacklist", "issue"}}
Passed == {serving[w].tok : w \in Begun}
Sure   == Live \ Passed
PairInv == Cardinality(Sure) + Cardinality(Begun) <= Cardinality(recorded) + doubled

LEMMA CountedIn ==
  ASSUME NEW S, NEW T, IsFiniteSet(S), T \subseteq S
  PROVE  /\ IsFiniteSet(T) /\ Cardinality(T) <= Cardinality(S)
         /\ Cardinality(T) \in Nat /\ Cardinality(S) \in Nat
<1>1. IsFiniteSet(T) /\ Cardinality(T) <= Cardinality(S)  BY FS_Subset
<1>. QED  BY <1>1, FS_CardinalityType

LEMMA CountedMore ==
  ASSUME NEW S, NEW T, NEW x, IsFiniteSet(S), T \subseteq S \cup {x}
  PROVE  /\ IsFiniteSet(T) /\ Cardinality(T) <= Cardinality(S) + 1
         /\ Cardinality(T) \in Nat /\ Cardinality(S) \in Nat
<1>1. /\ IsFiniteSet(S \cup {x})
      /\ Cardinality(S \cup {x}) = IF x \in S THEN Cardinality(S) ELSE Cardinality(S) + 1
  BY FS_AddElement
<1>2. Cardinality(S) \in Nat  BY FS_CardinalityType
<1>3. Cardinality(S \cup {x}) <= Cardinality(S) + 1  BY <1>1, <1>2
<1>4. /\ IsFiniteSet(T) /\ Cardinality(T) <= Cardinality(S \cup {x})
      /\ Cardinality(T) \in Nat /\ Cardinality(S \cup {x}) \in Nat
  BY <1>1, CountedIn
<1>. QED  BY <1>2, <1>3, <1>4

LEMMA PairsFinite ==
  ASSUME TypeInv
  PROVE  /\ IsFiniteSet(Live) /\ IsFiniteSet(Sure) /\ IsFiniteSet(Begun)
         /\ IsFiniteSet(recorded)
         /\ Cardinality(Live) \in Nat /\ Cardinality(Sure) \in Nat
         /\ Cardinality(Begun) \in Nat /\ Cardinality(recorded) \in Nat
         /\ doubled \in Nat /\ Len(issued) + 1 \notin DOMAIN issued
         /\ recorded \subseteq DOMAIN issued
<1>1. issued \in Seq(User) /\ recorded \subseteq DOMAIN issued /\ doubled \in Nat
  BY Parts DEF RecordsOK
<1>2. DOMAIN issued = 1..Len(issued) /\ Len(issued) \in Nat  BY <1>1, LenProperties
<1>3. IsFiniteSet(DOMAIN issued)  BY <1>2, FS_Interval
<1>4. IsFiniteSet(Worker)
  <2>1. IsFiniteSet(Slot)  BY SessionsAssumption
  <2>2. IsFiniteSet(Slot \cup {"phone"})  BY <2>1, FS_AddElement
  <2>. QED  BY <2>2 DEF Worker
<1>5. Live \subseteq DOMAIN issued /\ Sure \subseteq DOMAIN issued /\ Begun \subseteq Worker
  BY DEF Live, Sure, Begun
<1>6. IsFiniteSet(Live) /\ Cardinality(Live) \in Nat  BY <1>3, <1>5, CountedIn
<1>7. IsFiniteSet(Sure) /\ Cardinality(Sure) \in Nat  BY <1>3, <1>5, CountedIn
<1>8. IsFiniteSet(Begun) /\ Cardinality(Begun) \in Nat  BY <1>4, <1>5, CountedIn
<1>9. IsFiniteSet(recorded) /\ Cardinality(recorded) \in Nat  BY <1>1, <1>3, CountedIn
<1>. QED  BY <1>1, <1>2, <1>6, <1>7, <1>8, <1>9

(* The refreshes that have begun are the same, with the same tokens.         *)
SameBegun ==
  \A w \in Worker :
    /\ serving'[w].at \in {"blacklist", "issue"} <=> serving[w].at \in {"blacklist", "issue"}
    /\ serving[w].at \in {"blacklist", "issue"} => serving'[w].tok = serving[w].tok
LEMMA BegunStays ==
  ASSUME SameBegun
  PROVE  Begun' = Begun /\ Passed' = Passed
<1>1. Begun' = Begun  BY DEF SameBegun, Begun
<1>2. \A w \in Begun : serving'[w].tok = serving[w].tok  BY DEF SameBegun, Begun
<1>. QED  BY <1>1, <1>2 DEF Passed

LEMMA PairsKept ==
  ASSUME TypeInv, PairInv, SameBegun, UNCHANGED <<issued, recorded, doubled>>,
         blacklisted \subseteq blacklisted'
  PROVE  PairInv'
<1>1. Begun' = Begun /\ Passed' = Passed  BY BegunStays
<1>2. Sure' \subseteq Sure  BY <1>1 DEF Sure, Live
<1>3. Cardinality(Sure') <= Cardinality(Sure) /\ Cardinality(Sure') \in Nat
  BY <1>2, PairsFinite, CountedIn
<1>4. /\ Cardinality(Begun') = Cardinality(Begun)
      /\ Cardinality(recorded') = Cardinality(recorded) /\ doubled' = doubled
  BY <1>1
<1> DEFINE b == Cardinality(Begun)  r == Cardinality(recorded)  sure == Cardinality(Sure)
           next == Cardinality(Sure')
<1>5. b \in Nat /\ r \in Nat /\ sure \in Nat /\ next \in Nat /\ doubled \in Nat /\ next <= sure
  BY <1>3, PairsFinite
<1>6. sure + b <= r + doubled  BY DEF PairInv
<1> HIDE DEF b, r, sure, next
<1>7. next + b <= r + doubled  BY <1>5, <1>6
<1>. QED  BY <1>4, <1>7 DEF PairInv, b, r, next

(* A login hands out a pair.                                                 *)
LEMMA PairsLogin ==
  ASSUME TypeInv, PairInv, SameBegun, NEW u \in User, Issue(u),
         recorded' = recorded \cup {Len(issued) + 1}, UNCHANGED <<doubled, blacklisted>>
  PROVE  PairInv'
<1> DEFINE n == Len(issued) + 1
<1>1. Begun' = Begun /\ Passed' = Passed  BY BegunStays
<1>2. DOMAIN issued' = DOMAIN issued \cup {n}  BY Types, Issued
<1>3. Sure' \subseteq Sure \cup {n}  BY <1>1, <1>2 DEF Sure, Live
<1>4. Cardinality(Sure') <= Cardinality(Sure) + 1 /\ Cardinality(Sure') \in Nat
  BY <1>3, PairsFinite, CountedMore
<1>5. n \notin recorded  BY PairsFinite
<1>6. Cardinality(recorded') = Cardinality(recorded) + 1
  BY <1>5, PairsFinite, FS_AddElement
<1> HIDE DEF n
<1>7. Cardinality(Begun') = Cardinality(Begun) /\ doubled' = doubled  BY <1>1
<1>8. /\ Cardinality(Begun) \in Nat /\ Cardinality(recorded) \in Nat
      /\ Cardinality(Sure) \in Nat /\ doubled \in Nat
  BY PairsFinite
<1>. QED  BY <1>4, <1>6, <1>7, <1>8 DEF PairInv

(* A refresh passes the check: its token was an accepted pair, or a refresh  *)
(* that has passed the check already will replace it.                        *)
LEMMA PairsChecked ==
  ASSUME TypeInv, ServingInv, PairInv, NEW w \in Worker, CheckRefresh(w),
         serving[w].tok \notin blacklisted
  PROVE  PairInv'
<1> DEFINE t == serving[w].tok
<1>1. /\ serving[w].at = "check" /\ ServesOne(w, "blacklist", t)
      /\ doubled' = doubled + (IF Checked(t) THEN 1 ELSE 0)
      /\ UNCHANGED <<issued, recorded, blacklisted>>
  BY CheckRefreshEffect DEF CheckRefreshDoes
<1>2. Begun' = Begun \cup {w} /\ w \notin Begun
  BY <1>1 DEF Begun, ServesOne
<1>3. Cardinality(Begun') = Cardinality(Begun) + 1
  BY <1>2, PairsFinite, FS_AddElement
<1>4. Passed' = Passed \cup {t}
  <2>1. serving'[w].tok = t /\ \A v \in Begun : serving'[v].tok = serving[v].tok
    BY <1>1 DEF ServesOne, Begun
  <2> HIDE DEF t
  <2>. QED  BY <1>2, <2>1 DEF Passed
<1>5. Sure' = Sure \ {t}
  <2>1. Live' = Live  BY <1>1 DEF Live
  <2>. QED  BY <1>4, <2>1 DEF Sure
<1>6. /\ Cardinality(Begun) \in Nat /\ Cardinality(recorded) \in Nat
      /\ Cardinality(Sure) \in Nat /\ doubled \in Nat
      /\ Cardinality(recorded') = Cardinality(recorded)
  BY <1>1, PairsFinite
<1>7. CASE Checked(t)
  <2>1. Cardinality(Sure') <= Cardinality(Sure) /\ Cardinality(Sure') \in Nat
    BY <1>5, PairsFinite, CountedIn
  <2>2. doubled' = doubled + 1  BY <1>1, <1>7
  <2>. QED  BY <1>3, <1>6, <2>1, <2>2 DEF PairInv
<1>8. CASE ~Checked(t)
  <2>1. t \notin Passed
    <3>1. ASSUME NEW v \in Begun, serving[v].tok = t PROVE FALSE
      <4>1. serving[v].at # "issue"  BY <3>1 DEF ServingInv, Begun
      <4>2. serving[v].at = "blacklist"  BY <3>1, <4>1 DEF Begun
      <4>. QED  BY <1>8, <3>1, <4>2 DEF Checked, Begun
    <3>. QED  BY <3>1 DEF Passed
  <2>2. t \in DOMAIN issued  BY <1>1, ServedToken
  <2>3. t \in Sure  BY <2>1, <2>2 DEF Sure, Live
  <2>4. Cardinality(Sure') = Cardinality(Sure) - 1
    BY <1>5, <2>3, PairsFinite, FS_RemoveElement
  <2>5. doubled' = doubled
    <3>1. doubled' = doubled + 0  BY <1>1, <1>8
    <3>. QED  BY <1>6, <3>1
  <2> HIDE DEF t
  <2>. QED  BY <1>3, <1>6, <2>4, <2>5 DEF PairInv
<1>. QED  BY <1>7, <1>8

(* The new pair of a refresh takes the place of one that is blacklisted.     *)
LEMMA PairsIssued ==
  ASSUME TypeInv, ServingInv, PairInv, NEW w \in Worker, IssueRefresh(w)
  PROVE  PairInv'
<1> DEFINE t == serving[w].tok  n == Len(issued) + 1
<1>1. /\ serving[w].at = "issue" /\ ServesOne(w, "none", 0)
      /\ issued[t] \in User /\ Issue(issued[t])
      /\ UNCHANGED <<recorded, blacklisted, doubled>>
  BY IssueRefreshEffect DEF IssueRefreshDoes
<1>2. t \in blacklisted  BY <1>1 DEF ServingInv
<1>3. Begun' = Begun \ {w} /\ w \in Begun  BY <1>1 DEF Begun, ServesOne
<1>4. Cardinality(Begun') = Cardinality(Begun) - 1
  BY <1>3, PairsFinite, FS_RemoveElement
<1>5. Passed \subseteq Passed' \cup {t}
  <2>1. \A v \in Begun' : serving'[v].tok = serving[v].tok
    BY <1>1, <1>3 DEF ServesOne, Begun
  <2>. QED  BY <1>3, <2>1 DEF Passed
<1>6. DOMAIN issued' = DOMAIN issued \cup {n}  BY <1>1, Types, Issued
<1>7. Sure' \subseteq Sure \cup {n}
  <2> HIDE DEF t, n
  <2>. QED  BY <1>1, <1>2, <1>5, <1>6 DEF Sure, Live
<1>8. Cardinality(Sure') <= Cardinality(Sure) + 1 /\ Cardinality(Sure') \in Nat
  BY <1>7, PairsFinite, CountedMore
<1>9. /\ Cardinality(Begun) \in Nat /\ Cardinality(recorded) \in Nat
      /\ Cardinality(Sure) \in Nat /\ doubled \in Nat
      /\ Cardinality(recorded') = Cardinality(recorded) /\ doubled' = doubled
  BY <1>1, PairsFinite
<1>. QED  BY <1>4, <1>8, <1>9 DEF PairInv

(* A refresh given up goes on in one slot, or has come to an end.            *)
LEMMA PairsGivenUp ==
  ASSUME TypeInv, ServingInv, PairInv, GivesUp
  PROVE  PairInv'
<1>1. PICK calls \in SUBSET ServerCall :
        /\ GiveUp(calls) /\ \A d \in calls : Known(d)
        /\ \/ serving["phone"] \in calls /\ refresh'.pc # "posted"
           \/ (\A d \in calls : d.at \in {"login", "logout"}) /\ UNCHANGED refresh
  BY DEF GivesUp
<1>2. UNCHANGED <<issued, recorded, blacklisted, doubled>>  BY DEF GivesUp
<1> DEFINE p == serving["phone"]  On == {"blacklist", "issue"}
<1>3. /\ serving'["phone"] = IF p \in calls THEN NoCall ELSE p
      /\ \A w \in Slot : serving'[w] # serving[w] =>
           serving[w] = NoCall /\ serving'[w] \in calls
      /\ \A v, w \in Slot :
           /\ serving'[v] # serving[v] /\ serving'[w] # serving[w]
           /\ serving'[v] = serving'[w]
           => v = w
  BY <1>1, GivenUp
<1>4. NoCall.at = "none"  BY DEF NoCall
<1>5. \A d \in calls : d.at \in On => d = p  BY <1>1 DEF Known
<1>6. CASE p.at \notin On \/ p \notin calls
  <2>1. \A d \in calls : d.at \notin On  BY <1>5, <1>6
  <2>2. \A w \in Slot : serving'[w] # serving[w] =>
          serving'[w].at \notin On /\ serving[w].at \notin On
    BY <1>3, <1>4, <2>1
  <2>3. serving'["phone"] = p \/ (p.at \notin On /\ serving'["phone"].at \notin On)
    BY <1>3, <1>4, <1>6
  <2>4. SameBegun  BY <2>2, <2>3, WorkerIs DEF SameBegun
  <2>. QED  BY <1>2, <2>4, PairsKept
<1>7. CASE p.at \in On /\ p \in calls
  <2>1. "phone" \in Begun /\ "phone" \notin Begun'
    BY <1>3, <1>4, <1>7, WorkerIs DEF Begun
  <2>2. \A w \in Slot : w \in Begun => w \in Begun' /\ serving'[w] = serving[w]
    BY <1>3, <1>4 DEF Begun
  <2>3. \A w \in Slot : w \in Begun' \ Begun => serving'[w] # serving[w] /\ serving'[w] = p
    BY <1>3, <1>5 DEF Begun
  <2>4. Begun \subseteq Worker /\ Begun' \subseteq Worker  BY DEF Begun
  <2> DEFINE rest == Begun \ {"phone"}
  <2>5. IsFiniteSet(rest) /\ Cardinality(rest) = Cardinality(Begun) - 1
    BY <2>1, PairsFinite, FS_RemoveElement
  <2>6. /\ Cardinality(Begun) \in Nat /\ Cardinality(recorded) \in Nat
        /\ Cardinality(Sure) \in Nat /\ doubled \in Nat
        /\ Cardinality(recorded') = Cardinality(recorded) /\ doubled' = doubled
    BY <1>2, PairsFinite
  <2>7. Live' = Live  BY <1>2 DEF Live
  <2>8. \A w \in rest : w \in Begun' /\ serving'[w].tok = serving[w].tok
    BY <2>2, <2>4, WorkerIs
  <2>9. CASE \E v \in Slot : v \in Begun' \ Begun
    <3>1. PICK v \in Slot : v \in Begun' \ Begun  BY <2>9
    <3>2. \A w \in Slot : w \in Begun' \ Begun => w = v  BY <1>3, <2>3, <3>1
    <3>3. Begun' = rest \cup {v} /\ v \notin rest
      BY <2>1, <2>4, <2>8, <3>1, <3>2, WorkerIs
    <3>4. Cardinality(Begun') = Cardinality(rest) + 1  BY <2>5, <3>3, FS_AddElement
    <3>5. Cardinality(Begun') = Cardinality(Begun)  BY <2>5, <2>6, <3>4
    <3>6. serving'[v].tok = p.tok  BY <2>3, <3>1
    <3>7. Passed \subseteq Passed'
      <4>1. ASSUME NEW w \in Begun PROVE serving[w].tok \in Passed'
        <5>1. CASE w = "phone"  BY <3>1, <3>6, <5>1 DEF Passed
        <5>2. CASE w # "phone"
          <6>1. w \in Begun' /\ serving'[w].tok = serving[w].tok  BY <2>8, <4>1, <5>2
          <6>. QED  BY <6>1 DEF Passed
        <5>. QED  BY <5>1, <5>2
      <4>. QED  BY <4>1 DEF Passed
    <3>8. Sure' \subseteq Sure  BY <2>7, <3>7 DEF Sure
    <3>9. Cardinality(Sure') <= Cardinality(Sure) /\ Cardinality(Sure') \in Nat
      BY <3>8, PairsFinite, CountedIn
    <3> HIDE DEF p, rest
    <3>. QED  BY <2>6, <3>5, <3>9 DEF PairInv
  <2>10. CASE ~ \E v \in Slot : v \in Begun' \ Begun
    <3>1. Begun' = rest  BY <2>1, <2>4, <2>8, <2>10, WorkerIs
    <3>2. Cardinality(Begun') = Cardinality(Begun) - 1  BY <2>5, <3>1
    <3>3. Passed \subseteq Passed' \cup {p.tok}
      <4>1. ASSUME NEW w \in Begun PROVE serving[w].tok \in Passed' \cup {p.tok}
        <5>1. CASE w = "phone"  BY <5>1
        <5>2. CASE w # "phone"
          <6>1. w \in Begun' /\ serving'[w].tok = serving[w].tok  BY <2>8, <4>1, <5>2
          <6>. QED  BY <6>1 DEF Passed
        <5>. QED  BY <5>1, <5>2
      <4>. QED  BY <4>1 DEF Passed
    <3> DEFINE x == p.tok
    <3>4. Sure' \subseteq Sure \cup {x}
      <4>1. Passed \subseteq Passed' \cup {x}  BY <3>3
      <4> HIDE DEF x
      <4>. QED  BY <2>7, <4>1 DEF Sure
    <3> HIDE DEF x
    <3>5. Cardinality(Sure') <= Cardinality(Sure) + 1 /\ Cardinality(Sure') \in Nat
      BY <3>4, PairsFinite, CountedMore
    <3> HIDE DEF p, rest
    <3>. QED  BY <2>6, <3>2, <3>5 DEF PairInv
  <2>. QED  BY <2>9, <2>10
<1>. QED  BY <1>6, <1>7

LEMMA LivePairStep == TypeInv /\ ServingInv /\ PairInv /\ [Next]_vars => PairInv'
<1> SUFFICES ASSUME TypeInv, ServingInv, PairInv, [Next]_vars PROVE PairInv'  OBVIOUS
<1>1. CASE PhoneOnly
  <2>1. SameBegun  BY <1>1 DEF PhoneOnly, SameBegun
  <2>. QED  BY <1>1, <2>1, PairsKept DEF PhoneOnly
<1>2. CASE ReadRefreshToken
  <2>1. ReadRefreshTokenDoes  BY <1>2, ReadRefreshTokenEffect
  <2>2. serving["phone"].at = "none"  BY <2>1 DEF ServingInv, ReadRefreshTokenDoes
  <2>3. SameBegun  BY <2>1, <2>2 DEF ReadRefreshTokenDoes, ServesOne, SameBegun
  <2>4. UNCHANGED <<issued, recorded, doubled, blacklisted>>
    BY <2>1 DEF ReadRefreshTokenDoes
  <2>. QED  BY <2>3, <2>4, PairsKept
<1>3. CASE LoginAnswered
  <2>1. LoginAnsweredDoes  BY <1>3, LoginAnsweredEffect
  <2>2. SameBegun  BY <2>1 DEF LoginAnsweredDoes, SameBegun
  <2>. QED  BY <2>1, <2>2, PairsLogin DEF LoginAnsweredDoes
<1>4. ASSUME NEW w \in Worker, CheckRefresh(w), serving[w].tok \in blacklisted PROVE PairInv'
  <2>1. CheckRefreshDoes(w)  BY <1>4, CheckRefreshEffect
  <2>2. SameBegun  BY <1>4, <2>1 DEF CheckRefreshDoes, ServesOne, SameBegun
  <2>3. UNCHANGED <<issued, recorded, doubled, blacklisted>>
    BY <1>4, <2>1 DEF CheckRefreshDoes
  <2>. QED  BY <2>2, <2>3, PairsKept
<1>5. ASSUME NEW w \in Worker, BlacklistRefresh(w) PROVE PairInv'
  <2>1. BlacklistRefreshDoes(w)  BY <1>5, BlacklistRefreshEffect
  <2>2. SameBegun  BY <2>1 DEF BlacklistRefreshDoes, ServesOne, SameBegun
  <2>3. UNCHANGED <<issued, recorded, doubled>> /\ blacklisted \subseteq blacklisted'
    BY <2>1 DEF BlacklistRefreshDoes
  <2>. QED  BY <2>2, <2>3, PairsKept
<1>6. ASSUME NEW w \in Worker, ServeLate(w) PROVE PairInv'
  <2>1. ServeLateDoes(w)  BY <1>6, ServeLateEffect
  <2>2. SameBegun  BY <2>1 DEF ServeLateDoes, ServesOne, SameBegun
  <2>3. CASE serving[w].at = "login"
    BY <2>1, <2>2, <2>3, PairsLogin DEF ServeLateDoes
  <2>4. CASE serving[w].at = "logout"
    <3>1. UNCHANGED <<issued, recorded, doubled>> /\ blacklisted \subseteq blacklisted'
      BY <2>1, <2>4 DEF ServeLateDoes, Revoke
    <3>. QED  BY <2>2, <3>1, PairsKept
  <2>. QED  BY <2>1, <2>3, <2>4 DEF ServeLateDoes
<1>. QED
  BY <1>1, <1>2, <1>3, <1>4, <1>5, <1>6, ServerSteps, PairsChecked, PairsIssued, PairsGivenUp

LEMMA LivePairInit == Init => PairInv
<1> SUFFICES ASSUME Init PROVE PairInv  OBVIOUS
<1>1. TypeInv  BY TypeInit
<1>2. Begun = {}  BY DEF Init, Begun, NoCall
<1>3. Sure \subseteq recorded  BY DEF Init, Sure, Live
<1>4. Cardinality(Sure) <= Cardinality(recorded)  BY <1>1, <1>3, PairsFinite, CountedIn
<1>5. Cardinality(Begun) = 0 /\ doubled = 0  BY <1>2, FS_EmptySet DEF Init
<1>. QED  BY <1>1, <1>4, <1>5, PairsFinite DEF PairInv

(* An accepted pair is a sure one, or that of a refresh which has passed.    *)
LEMMA LivePairs == TypeInv /\ PairInv => OneLivePair
<1> SUFFICES ASSUME TypeInv, PairInv PROVE OneLivePair  OBVIOUS
<1>1. IsFiniteSet(Passed) /\ Cardinality(Passed) <= Cardinality(Begun)
  <2> DEFINE f == [w \in Begun |-> serving[w].tok]
  <2>1. f \in Surjection(Begun, Passed)  BY DEF Surjection, Passed
  <2> HIDE DEF f
  <2>. QED  BY <2>1, PairsFinite, FS_Surjection
<1>2. /\ IsFiniteSet(Sure \cup Passed)
      /\ Cardinality(Sure \cup Passed) <= Cardinality(Sure) + Cardinality(Passed)
  <2>1. /\ IsFiniteSet(Sure \cup Passed)
        /\ Cardinality(Sure \cup Passed)
             = Cardinality(Sure) + Cardinality(Passed) - Cardinality(Sure \cap Passed)
    BY <1>1, PairsFinite, FS_Union
  <2>2. Cardinality(Sure \cap Passed) \in Nat  BY PairsFinite, CountedIn
  <2>3. Cardinality(Sure) \in Nat /\ Cardinality(Passed) \in Nat
    BY <1>1, PairsFinite, FS_CardinalityType
  <2>. QED  BY <2>1, <2>2, <2>3
<1>3. Live \subseteq Sure \cup Passed  BY DEF Sure
<1>4. Cardinality(Live) <= Cardinality(Sure \cup Passed)
  BY <1>2, <1>3, CountedIn
<1>5. /\ Cardinality(Live) \in Nat /\ Cardinality(Sure) \in Nat /\ Cardinality(Begun) \in Nat
      /\ Cardinality(recorded) \in Nat /\ doubled \in Nat
      /\ Cardinality(Passed) \in Nat /\ Cardinality(Sure \cup Passed) \in Nat
  BY <1>1, <1>2, PairsFinite, FS_CardinalityType
<1>6. Cardinality(Live) <= Cardinality(recorded) + doubled
  BY <1>1, <1>2, <1>4, <1>5 DEF PairInv
<1>. QED  BY <1>6 DEF OneLivePair, Live

(* At most one of the pairs that descend from a login is accepted, however   *)
(* many requests ask for a refresh, however many answers are lost and        *)
(* whatever calls the server still serves for a phone that was restarted:    *)
(* only a refresh which passed the check of a token between another's check  *)
(* and its blacklisting leaves one pair more.                                *)
THEOREM PairsReplaced == Spec => []OneLivePair
<1>1. Spec => []PairInv
  BY ServerInv, LivePairInit, LivePairStep, PTL DEF Spec
<1>. QED  BY <1>1, ServerInv, LivePairs, PTL

(* What each step does to Sound: one lemma for each action, one step for    *)
(* each part of it.                                                         *)
LEMMA Nothing ==
  \A s \in StoreCells :
    s = [access |-> 0, refresh |-> 0, session |-> None]
      <=> s.access = 0 /\ s.refresh = 0 /\ s.session = None
BY SessionsAssumption DEF StoreCells, Pair

(* The tokens at hand are of pairs that were issued, as are those used up.   *)
LEMMA Stored ==
  ASSUME TypeInv
  PROVE  /\ store.refresh # 0 => store.refresh \in DOMAIN issued
         /\ store.access # 0 => store.access \in DOMAIN issued
         /\ refresh.new # 0 => refresh.new \in DOMAIN issued
<1>1. DOMAIN issued = 1..Len(issued)  BY Types, LenProperties
<1>2. HeldKnown  BY Parts
<1>. QED  BY <1>1, <1>2, Numbers DEF HeldKnown

LEMMA SpentKnown ==
  ASSUME TypeInv, ServingInv
  PROVE  Spent \subseteq DOMAIN issued /\ Len(issued) + 1 \notin Spent
<1>1. used \subseteq DOMAIN issued  BY Parts DEF RecordsOK
<1>2. \A w \in Slot : serving[w].at \in Spends => serving[w].tok \in DOMAIN issued
  BY ServedToken, WorkerIs DEF Spends
<1>3. Spent \subseteq DOMAIN issued  BY <1>1, <1>2, SpentIs
<1>. QED  BY <1>3, PairsFinite

(* No login is under way while a refresh is posted or stores its pair.       *)
LEMMA NoLoginYet ==
  ASSUME Sound, refresh.pc \notin {"idle", "read"}
  PROVE  login.pc = "idle" /\ ~NoRefreshToken
<1>1. ~NoRefreshToken  BY DEF NoRefreshToken
<1>2. ~SigningIn  BY DEF Sound, FlowsInv, OldWork
<1>. QED  BY <1>1, <1>2 DEF Sound, FlowsInv, SignedOutInv

(* The server goes on with a call that the phone has given up, or with the   *)
(* check of the refresh the phone waits for.                                 *)
LEMMA SoundServer ==
  ASSUME TypeInv, Sound,
         UNCHANGED <<call, refresh, store, auth, epoch, clears, restore, login, logout>>,
         refresh.pc = "posted" =>
           (serving'["phone"].at = "issue" <=> serving["phone"].at = "issue"),
         Spent' \subseteq Spent, recorded \subseteq recorded',
         \A i \in DOMAIN issued : issued'[i] = issued[i]
  PROVE  Sound'
<1>1. TokensAtHand  BY Parts
<1>2. /\ store.refresh # 0 => issued'[store.refresh] = issued[store.refresh]
      /\ store.access # 0 => issued'[store.access] = issued[store.access]
      /\ refresh.new # 0 => issued'[refresh.new] = issued[refresh.new]
  BY Stored
<1>3. \A i \in recorded : issued'[i] = issued[i]
  BY PairsFinite
<1>4. Rotating' <=> Rotating  BY DEF Rotating
<1>11. FlowsInv'
  BY DEF Sound, FlowsInv, SignedOut, SigningIn, OldWork
<1>12. RestoreInv'
  BY DEF Sound, RestoreInv, SignedOut
<1>13. RestoreCallInv'
  BY DEF Sound, RestoreCallInv
<1>14. RestoreStoreInv'
  BY <1>2 DEF Sound, RestoreStoreInv
<1>15. ClearInv'
  BY DEF Sound, ClearInv, NoRefreshToken
<1>16. SignedOutInv'
  BY DEF Sound, SignedOutInv, SignedOut, SigningIn, NoRefreshToken
<1>17. SigningInInv'
  BY <1>3 DEF Sound, SigningInInv, SigningIn
<1>18. RefreshInv'
  BY <1>1, <1>2 DEF Sound, RefreshInv, TokensAtHand
<1>19. StoreInv'
  BY <1>2, <1>4 DEF Sound, StoreInv, Clearing
<1>20. SignedInInv'
  BY <1>2 DEF Sound, SignedInInv, Clearing
<1>. QED  BY <1>11, <1>12, <1>13, <1>14, <1>15, <1>16, <1>17, <1>18, <1>19, <1>20 DEF Sound

(* A refresh that failed tells the requests that wait for it to clear.       *)
LEMMA SoundFailed ==
  ASSUME TypeInv, Sound, refresh.pc \in {"posted", "saveAccess"}, Completed(0),
         UNCHANGED <<issued, recorded, store, auth, epoch, clears, restore, login, logout>>
  PROVE  Sound'
<1>1. HeldKnown /\ TokensAtHand /\ ClearsBegin /\ Awaited
  BY Parts
<1>2. login.pc = "idle" /\ ~NoRefreshToken
  BY NoLoginYet
<1>3. CompletedDoes(0)
  BY CompletedEffect, SessionsAssumption DEF Pair
<1>4. \A c \in Channel : call[c].pc = "idle" <=> call'[c].pc = "idle"
  BY <1>3 DEF CompletedDoes
<1>5. restore.pc # "idle" /\ epoch = 0 => restore.pc = "me"
  BY <1>1, ChannelIs DEF Sound, RestoreInv, Awaited
<1>6. /\ refresh'.pc = "idle" /\ Clearing'
      /\ \A c \in Channel :
           IF call[c].pc = "waiting" THEN call'[c].pc = "clear" /\ call'[c].k = 1
           ELSE call'[c] = call[c]
  BY <1>1, <1>3 DEF CompletedDoes, RefreshIs, Clearing, Awaited, ClearsBegin
<1>11. FlowsInv'
  BY <1>2 DEF Sound, SignedOut, SigningIn, FlowsInv
<1>12. RestoreInv'
  BY <1>4, <1>5, ChannelIs DEF Sound, RestoreInv, SignedOut
<1>13. RestoreCallInv'
  BY <1>6, ChannelIs DEF Sound, RestoreCallInv
<1>14. RestoreStoreInv'
  BY DEF Sound, RestoreStoreInv
<1>15. ClearInv'
  BY <1>2, <1>6 DEF Sound, ClearInv
<1>16. SignedOutInv'
  BY <1>2 DEF Sound, SignedOut, SigningIn, SignedOutInv
<1>17. SigningInInv'
  BY <1>2 DEF SigningIn, SigningInInv
<1>18. RefreshInv'
  BY <1>6 DEF RefreshInv
<1>19. StoreInv'
  BY <1>6 DEF Sound, StoreInv
<1>20. SignedInInv'
  BY <1>6 DEF Sound, SignedInInv
<1>. QED  BY <1>11, <1>12, <1>13, <1>14, <1>15, <1>16, <1>17, <1>18, <1>19, <1>20 DEF Sound

LEMMA SoundAsk ==
  ASSUME TypeInv, Sound, NEW c \in Api, Ask(c), ~overlap, ~overlap'
  PROVE  Sound'
<1>0. AskDoes(c)
  BY AskEffect
<1>11. FlowsInv'
  BY <1>0 DEF Sound, SigningIn, OldWork, FlowsInv, AskDoes, Asked
<1>12. RestoreInv'
  BY <1>0 DEF Sound, FlowsInv, RestoreInv, AskDoes, Asked
<1>13. RestoreCallInv'
  BY <1>0 DEF Sound, FlowsInv, RestoreCallInv, AskDoes
<1>14. RestoreStoreInv'
  BY <1>0 DEF Sound, RestoreStoreInv, AskDoes
<1>15. ClearInv'
  BY <1>0 DEF Sound, NoRefreshToken, ClearInv, AskDoes, Asked, CallIs
<1>16. SignedOutInv'
  BY <1>0 DEF Sound, NoRefreshToken, SignedOut, SigningIn, OldWork, SignedOutInv,
    AskDoes, Asked, CallIs
<1>17. SigningInInv'
  BY <1>0 DEF Sound, SigningIn, SigningInInv, AskDoes
<1>18. RefreshInv'
  BY <1>0 DEF Sound, Rotating, SignedOut, RefreshInv, AskDoes, Asked
<1>19. StoreInv'
  BY <1>0 DEF Sound, Rotating, Clearing, SigningIn, OldWork, SignedOutInv, SignedOut,
    StoreInv, AskDoes, Asked, CallIs
<1>20. SignedInInv'
  BY <1>0 DEF Sound, Clearing, SignedOut, SignedInInv, AskDoes, Asked, CallIs
<1>. QED  BY <1>11, <1>12, <1>13, <1>14, <1>15, <1>16, <1>17, <1>18, <1>19, <1>20 DEF Sound

LEMMA SoundAttach ==
  ASSUME TypeInv, Sound, NEW c \in Channel, Attach(c), ~overlap, ~overlap'
  PROVE  Sound'
<1>0. AttachDoes(c)
  BY AttachEffect
<1>11. FlowsInv'
  BY <1>0 DEF Sound, SignedOut, SigningIn, OldWork, FlowsInv, AttachDoes, CallIs
<1>12. RestoreInv'
  BY <1>0 DEF Sound, SignedOut, RestoreInv, AttachDoes, CallIs
<1>13. RestoreCallInv'
  BY <1>0 DEF Sound, RestoreInv, SignedOut, RestoreCallInv, AttachDoes, CallIs
<1>14. RestoreStoreInv'
  BY <1>0 DEF Sound, RestoreStoreInv, AttachDoes
<1>15. ClearInv'
  BY <1>0 DEF Sound, NoRefreshToken, ClearInv, AttachDoes, CallIs
<1>16. SignedOutInv'
  BY <1>0 DEF Sound, NoRefreshToken, SignedOut, SigningIn, SignedOutInv, AttachDoes, CallIs
<1>17. SigningInInv'
  BY <1>0 DEF Sound, SigningIn, SigningInInv, AttachDoes
<1>18. RefreshInv'
  BY <1>0 DEF Sound, Rotating, RefreshInv, AttachDoes, CallIs
<1>19. StoreInv'
  BY <1>0 DEF Sound, Rotating, Clearing, SignedOutInv, SignedOut, StoreInv, AttachDoes, CallIs
<1>20. SignedInInv'
  BY <1>0 DEF Sound, Clearing, SignedInInv, AttachDoes, CallIs
<1>. QED  BY <1>11, <1>12, <1>13, <1>14, <1>15, <1>16, <1>17, <1>18, <1>19, <1>20 DEF Sound

LEMMA SoundSucceed ==
  ASSUME TypeInv, Sound, NEW c \in Channel, Succeed(c), ~overlap, ~overlap'
  PROVE  Sound'
<1>0. SucceedDoes(c)
  BY SucceedEffect
<1>1. HeldKnown /\ TokensAtHand /\ ClearsBegin /\ Awaited
  BY Parts
<1>11. FlowsInv'
  BY <1>0 DEF Sound, SignedOut, SigningIn, OldWork, FlowsInv, SucceedDoes, CallMoves
<1>12. RestoreInv'
  BY <1>0 DEF Sound, SignedOut, RestoreInv, SucceedDoes, CallMoves, CallGone, CallIs
<1>13. RestoreCallInv'
  BY <1>0, ChannelIs, SessionsAssumption
    DEF Sound, SignedOut, RestoreCallInv, SucceedDoes, CallMoves, CallGone, Served,
    CallIs
<1>14. RestoreStoreInv'
  BY <1>0 DEF Sound, RestoreStoreInv, SucceedDoes
<1>15. ClearInv'
  BY <1>0 DEF Sound, NoRefreshToken, ClearInv, SucceedDoes, CallMoves, CallGone, Served, CallIs
<1>16. SignedOutInv'
  BY <1>0 DEF Sound, NoRefreshToken, SignedOut, SigningIn, SignedOutInv, SucceedDoes,
    CallMoves, CallGone
<1>17. SigningInInv'
  <2>1. login.pc \in {"saveAccess", "saveRefresh", "persist"} => login.tok \notin Spent'
    <3>1. CASE c # "logout"
      BY <1>0, <3>1 DEF Sound, SigningInInv, SucceedDoes
    <3>2. CASE c = "logout"
      <4>1. /\ logout.pc = "post" /\ call[c].body = logout.tok
            /\ Spent' \subseteq Spent \cup {call[c].body}
        BY <1>0, <1>1, <3>2 DEF TokensAtHand, SucceedDoes
      <4>2. ~SigningIn  BY <4>1 DEF Sound, FlowsInv, OldWork
      <4>3. login.pc = "saveAccess" => logout.tok # login.tok /\ login.tok \notin Spent
        BY <4>1 DEF Sound, SigningInInv
      <4>. QED  BY <4>1, <4>2, <4>3 DEF SigningIn
    <3>. QED  BY <3>1, <3>2
  <2>. QED  BY <1>0, <2>1 DEF Sound, SigningIn, SigningInInv, SucceedDoes
<1>18. RefreshInv'
  BY <1>0, <1>1 DEF Sound, Rotating, TokensAtHand, RefreshInv, SucceedDoes, Served
<1>19. StoreInv'
  BY <1>0, <1>1 DEF Sound, Rotating, Clearing, TokensAtHand, StoreInv, SucceedDoes,
    CallMoves, CallGone, Served, CallIs
<1>20. SignedInInv'
  BY <1>0 DEF Sound, Clearing, SignedInInv, SucceedDoes, CallMoves, CallGone, Served, CallIs
<1>. QED  BY <1>11, <1>12, <1>13, <1>14, <1>15, <1>16, <1>17, <1>18, <1>19, <1>20 DEF Sound

LEMMA SoundDenied ==
  ASSUME TypeInv, Sound, NEW c \in Channel, Denied(c), ~overlap, ~overlap'
  PROVE  Sound'
<1>0. DeniedDoes(c)
  BY DeniedEffect
<1>1. HeldKnown /\ TokensAtHand /\ ClearsBegin /\ Awaited
  BY Parts
<1>11. FlowsInv'
  BY <1>0 DEF Sound, SignedOut, SigningIn, OldWork, FlowsInv, DeniedDoes, CallMoves
<1>12. RestoreInv'
  BY <1>0 DEF Sound, SignedOut, RestoreInv, DeniedDoes, CallMoves, CallIs
<1>13. RestoreCallInv'
  BY <1>0 DEF Sound, RestoreInv, FlowsInv, SignedOut, RestoreCallInv, DeniedDoes,
    CallMoves, RefreshIs, CallIs
<1>14. RestoreStoreInv'
  BY <1>0 DEF Sound, RestoreStoreInv, DeniedDoes
<1>15. ClearInv'
  <2>1. call'[c].k = 1 /\ \A d \in Channel : d # c => call'[d] = call[d]
    BY <1>0, <1>1 DEF ClearsBegin, DeniedDoes, CallMoves, CallIs
  <2>2. NoRefreshToken => NoRefreshToken'
    BY <1>0 DEF NoRefreshToken, DeniedDoes, RefreshIs
  <2>3. UNCHANGED <<logout, store>>
    BY <1>0 DEF DeniedDoes
  <2>4. \A d \in Channel : call'[d].pc = "clear" /\ call'[d].k = 3 => NoRefreshToken
    BY <2>1 DEF Sound, ClearInv
  <2>. QED  BY <2>2, <2>3, <2>4 DEF Sound, ClearInv
<1>16. SignedOutInv'
  BY <1>0 DEF Sound, NoRefreshToken, SignedOut, SigningIn, OldWork, SignedOutInv,
    DeniedDoes, CallMoves, RefreshIs
<1>17. SigningInInv'
  BY <1>0 DEF Sound, SigningIn, SigningInInv, DeniedDoes
<1>18. RefreshInv'
  BY <1>0 DEF Sound, Rotating, RefreshInv, DeniedDoes, CallMoves, RefreshIs, CallIs
<1>19. StoreInv'
  BY <1>0 DEF Sound, Rotating, Clearing, SigningIn, OldWork, SignedOutInv, SignedOut,
    StoreInv, DeniedDoes, CallMoves, RefreshIs, CallIs
<1>20. SignedInInv'
  BY <1>0 DEF Sound, Clearing, SignedInInv, DeniedDoes, CallMoves, RefreshIs, CallIs
<1>. QED  BY <1>11, <1>12, <1>13, <1>14, <1>15, <1>16, <1>17, <1>18, <1>19, <1>20 DEF Sound

LEMMA SoundLoseRequest ==
  ASSUME TypeInv, Sound, NEW c \in Channel, LoseRequest(c), ~overlap, ~overlap'
  PROVE  Sound'
<1>0. LoseRequestDoes(c)
  BY LoseRequestEffect
<1>1. HeldKnown /\ TokensAtHand /\ ClearsBegin /\ Awaited
  BY Parts
<1>11. FlowsInv'
  BY <1>0 DEF Sound, SignedOut, SigningIn, OldWork, FlowsInv, LoseRequestDoes, CallMoves
<1>12. RestoreInv'
  BY <1>0 DEF Sound, SignedOut, RestoreInv, LoseRequestDoes, CallMoves, CallGone, Served, CallIs
<1>13. RestoreCallInv'
  BY <1>0, ChannelIs, SessionsAssumption DEF Sound, SignedOut, RestoreCallInv,
    LoseRequestDoes, CallMoves, CallGone, Served, CallIs
<1>14. RestoreStoreInv'
  BY <1>0 DEF Sound, RestoreStoreInv, LoseRequestDoes
<1>15. ClearInv'
  <2>1. call'[c].k = 1 /\ \A d \in Channel : d # c => call'[d] = call[d]
    BY <1>0, <1>1 DEF ClearsBegin, LoseRequestDoes, CallMoves, CallGone, CallIs
  <2>2. NoRefreshToken => NoRefreshToken'
    BY <1>0 DEF NoRefreshToken, LoseRequestDoes, RefreshIs
  <2>3. UNCHANGED <<logout, store>>
    BY <1>0 DEF LoseRequestDoes
  <2>4. \A d \in Channel : call'[d].pc = "clear" /\ call'[d].k = 3 => NoRefreshToken
    BY <2>1 DEF Sound, ClearInv
  <2>. QED  BY <2>2, <2>3, <2>4 DEF Sound, ClearInv
<1>16. SignedOutInv'
  BY <1>0 DEF Sound, NoRefreshToken, SignedOut, SigningIn, OldWork, SignedOutInv,
    LoseRequestDoes, CallMoves, CallGone
<1>17. SigningInInv'
  <2>1. login.pc \in {"saveAccess", "saveRefresh", "persist"} => login.tok \notin Spent'
    <3>1. CASE c # "logout"
      BY <1>0, <3>1 DEF Sound, SigningInInv, LoseRequestDoes
    <3>2. CASE c = "logout"
      <4>1. /\ logout.pc = "post" /\ call[c].body = logout.tok
            /\ Spent' \subseteq Spent \cup {call[c].body}
        BY <1>0, <1>1, <3>2 DEF TokensAtHand, LoseRequestDoes
      <4>2. ~SigningIn  BY <4>1 DEF Sound, FlowsInv, OldWork
      <4>3. login.pc = "saveAccess" => logout.tok # login.tok /\ login.tok \notin Spent
        BY <4>1 DEF Sound, SigningInInv
      <4>. QED  BY <4>1, <4>2, <4>3 DEF SigningIn
    <3>. QED  BY <3>1, <3>2
  <2>. QED  BY <1>0, <2>1 DEF Sound, SigningIn, SigningInInv, LoseRequestDoes
<1>18. RefreshInv'
  BY <1>0, <1>1 DEF Sound, Rotating, TokensAtHand, RefreshInv, LoseRequestDoes, Served
<1>19. StoreInv'
  BY <1>0, <1>1 DEF Sound, Rotating, Clearing, TokensAtHand, StoreInv, LoseRequestDoes,
    CallMoves, CallGone, Served, CallIs
<1>20. SignedInInv'
  BY <1>0 DEF Sound, Clearing, NoRefreshToken, SignedOut, SignedInInv, LoseRequestDoes,
    CallMoves, CallGone, Served, CallIs
<1>. QED  BY <1>11, <1>12, <1>13, <1>14, <1>15, <1>16, <1>17, <1>18, <1>19, <1>20 DEF Sound

LEMMA SoundInvalidateSession ==
  ASSUME TypeInv, Sound, NEW c \in Channel, InvalidateSession(c), ~overlap, ~overlap'
  PROVE  Sound'
<1>0. InvalidateDoes(c)
  BY InvalidateEffect
<1>1. HeldKnown /\ TokensAtHand /\ ClearsBegin /\ Awaited
  BY Parts
<1>2. Emptying(call[c].k) /\ refresh.pc = "idle"
  BY <1>0, Types, DeleteEffect DEF InvalidateDoes
<1>4. /\ \A d \in Channel : d # c => call'[d] = call[d]
      /\ call'[c].pc \in {"clear", "idle", "failed"}
      /\ call'[c].pc = "clear" =>
           call'[c].k \in {1, call[c].k + 1} /\ (call'[c].k = 1 \/ call[c].k < 3)
      /\ call[c].pc = "clear" /\ call[c].k \in {1, 2, 3}
  BY <1>0, Cells DEF InvalidateDoes, CallMoves, CallGone, ClearingFrom, CallIs
<1>5. /\ store'.refresh = IF call[c].k = 2 THEN 0 ELSE store.refresh
      /\ store'.access = IF call[c].k = 1 THEN 0 ELSE store.access
      /\ store'.session = IF call[c].k = 3 THEN None ELSE store.session
  BY <1>2 DEF Emptying, StoreIs
<1>6. /\ UNCHANGED <<refresh, restore, login, logout, issued, recorded, blacklisted>>
      /\ \/ call[c].k < 3 /\ call'[c].pc = "clear" /\ UNCHANGED <<auth, epoch, clears>>
         \/ /\ call[c].k = 3 /\ auth' = "unauthenticated" /\ epoch' = epoch + 1
  BY <1>0 DEF InvalidateDoes, Invalidated, ClearingFrom, CallIs
<1>7. restore.pc # "idle" /\ epoch = 0 => c = "restore" /\ restore.pc = "me"
  BY <1>1, <1>4 DEF Sound, RestoreInv, TokensAtHand
<1>11. FlowsInv'
  BY <1>0, <1>2, ChannelIs, SessionsAssumption DEF Sound, Awaited, SignedOut,
    SigningIn, OldWork, FlowsInv, InvalidateDoes, CallIs, StoreIs, Emptying,
    ClearingFrom, Invalidated
<1>12. RestoreInv'
  BY <1>4, <1>6, <1>7, Types, ChannelIs
  DEF Sound, RestoreInv, SignedOut
<1>13. RestoreCallInv'
  BY <1>4, <1>5, <1>6, <1>7, Types, ChannelIs
  DEF Sound, RestoreCallInv, RestoreInv, SignedOut
<1>14. RestoreStoreInv'
  BY <1>0, <1>2 DEF Sound, RestoreInv, Awaited, RestoreStoreInv, InvalidateDoes
<1>15. ClearInv'
  BY <1>2, <1>4, <1>5, <1>6, <1>7, ChannelIs
  DEF Sound, ClearInv, NoRefreshToken
<1>16. SignedOutInv'
  BY <1>0, <1>2 DEF Sound, ClearInv, FlowsInv, RestoreInv, RestoreStoreInv,
    NoRefreshToken, SignedOut, SigningIn, OldWork, SignedOutInv, InvalidateDoes,
    CallIs, CallMoves, CallGone, StoreIs, Emptying, ClearingFrom, Invalidated
<1>17. SigningInInv'
  BY <1>0, <1>2 DEF Sound, FlowsInv, RestoreInv, SigningIn, OldWork, SigningInInv,
    InvalidateDoes, CallIs
<1>18. RefreshInv'
  BY <1>0, <1>2 DEF Sound, Rotating, RefreshInv, InvalidateDoes
<1>19. StoreInv'
  BY <1>0, <1>2 DEF Sound, ClearInv, NoRefreshToken, Clearing, SigningIn, OldWork,
    SignedOutInv, SignedOut, StoreInv, InvalidateDoes, CallIs, CallMoves, CallGone,
    StoreIs, Emptying, ClearingFrom, Invalidated
<1>20. SignedInInv'
  <2>1. auth' \in User => call'[c].pc = "clear" /\ UNCHANGED auth
    BY <1>6, SessionsAssumption
  <2>2. auth' \in User => Clearing'
    BY <2>1 DEF Clearing
  <2>3. auth' \in User \ HasCompany => store' = [access |-> 0, refresh |-> 0, session |-> None]
    BY <1>2, <1>5, <2>1, Nothing, Types DEF Sound, SignedInInv, Emptying, StoreIs
  <2>. QED  BY <2>2, <2>3, SessionsAssumption DEF SignedInInv
<1>. QED  BY <1>11, <1>12, <1>13, <1>14, <1>15, <1>16, <1>17, <1>18, <1>19, <1>20 DEF Sound

LEMMA SoundClear ==
  ASSUME TypeInv, Sound, NEW i \in DOMAIN clears, Clear(i), ~overlap, ~overlap'
  PROVE  Sound'
<1>0. ClearDoes(i)
  BY ClearEffect
<1>11. FlowsInv'
  BY <1>0 DEF Sound, SignedOut, SigningIn, OldWork, FlowsInv, ClearDoes, Emptying
<1>12. RestoreInv'
  BY <1>0 DEF Sound, SignedOut, RestoreInv, ClearDoes
<1>13. RestoreCallInv'
  BY <1>0 DEF Sound, RestoreInv, RestoreCallInv, ClearDoes
<1>14. RestoreStoreInv'
  BY <1>0 DEF Sound, RestoreInv, RestoreStoreInv, ClearDoes, Emptying
<1>15. ClearInv'
  BY <1>0 DEF Sound, NoRefreshToken, ClearInv, ClearDoes, Emptying, StoreIs
<1>16. SignedOutInv'
  BY <1>0 DEF Sound, NoRefreshToken, SignedOut, SigningIn, SignedOutInv, ClearDoes,
    Emptying, StoreIs
<1>17. SigningInInv'
  BY <1>0 DEF Sound, FlowsInv, SigningIn, OldWork, SigningInInv, ClearDoes
<1>18. RefreshInv'
  BY <1>0 DEF Sound, FlowsInv, ClearInv, Rotating, SigningIn, OldWork, SignedOutInv,
    NoRefreshToken, SignedOut, RefreshInv, ClearDoes, Emptying
<1>19. StoreInv'
  BY <1>0 DEF Sound, Rotating, Clearing, SignedOutInv, SignedOut, StoreInv, ClearDoes,
    Emptying, StoreIs
<1>20. SignedInInv'
  BY <1>0, SessionsAssumption
    DEF Sound, FlowsInv, RestoreInv, NoRefreshToken, SignedOut, SignedInInv, ClearDoes
<1>. QED  BY <1>11, <1>12, <1>13, <1>14, <1>15, <1>16, <1>17, <1>18, <1>19, <1>20 DEF Sound

LEMMA SoundReadRefreshToken ==
  ASSUME TypeInv, Sound, ReadRefreshToken, ~overlap, ~overlap'
  PROVE  Sound'
<1>0. ReadRefreshTokenDoes
  BY ReadRefreshTokenEffect
<1>1. HeldKnown /\ TokensAtHand /\ ClearsBegin /\ Awaited
  BY Parts
<1>3. Completed(0) => CompletedDoes(0)
  BY <1>0, CompletedEffect, SessionsAssumption DEF ReadRefreshTokenDoes, Pair
<1>4. \A c \in Channel : call[c].pc = "idle" <=> call'[c].pc = "idle"
  BY <1>0, <1>3 DEF ReadRefreshTokenDoes, CompletedDoes
<1>5. restore.pc # "idle" /\ epoch = 0 => restore.pc = "me"
  BY <1>0, <1>1, ChannelIs DEF Sound, RestoreInv, Awaited, ReadRefreshTokenDoes
<1>11. FlowsInv'
  BY <1>0, <1>3 DEF Sound, SignedOut, SigningIn, OldWork, FlowsInv, ReadRefreshTokenDoes
<1>12. RestoreInv'
  BY <1>0, <1>4, <1>5, ChannelIs
  DEF Sound, RestoreInv, ReadRefreshTokenDoes, SignedOut
<1>13. RestoreCallInv'
  BY <1>0, <1>3, ChannelIs, SessionsAssumption
    DEF Sound, SignedOut, RestoreCallInv, ReadRefreshTokenDoes, RefreshIs, CompletedDoes
<1>14. RestoreStoreInv'
  BY <1>0 DEF Sound, RestoreStoreInv, ReadRefreshTokenDoes
<1>15. ClearInv'
  BY <1>0, <1>3 DEF Sound, NoRefreshToken, ClearInv, ReadRefreshTokenDoes, RefreshIs, CompletedDoes
<1>16. SignedOutInv'
  BY <1>0, <1>3 DEF Sound, NoRefreshToken, SignedOut, SigningIn, OldWork, SignedOutInv,
    ReadRefreshTokenDoes, RefreshIs, CompletedDoes
<1>17. SigningInInv'
  BY <1>0, <1>3 DEF Sound, SigningIn, SigningInInv, ReadRefreshTokenDoes, RefreshIs
<1>18. RefreshInv'
  BY <1>0, <1>3 DEF Sound, Rotating, RefreshInv, ReadRefreshTokenDoes, RefreshIs, CompletedDoes
<1>19. StoreInv'
  BY <1>0, <1>3 DEF Sound, Rotating, Clearing, SigningIn, OldWork, SignedOutInv,
    SignedOut, StoreInv, ReadRefreshTokenDoes, RefreshIs
<1>20. SignedInInv'
  BY <1>0, <1>3 DEF Sound, Clearing, SignedInInv, ReadRefreshTokenDoes, RefreshIs, CompletedDoes
<1>. QED  BY <1>11, <1>12, <1>13, <1>14, <1>15, <1>16, <1>17, <1>18, <1>19, <1>20 DEF Sound

LEMMA SoundCheckRefresh ==
  ASSUME TypeInv, ServingInv, Sound, NEW w \in Worker, CheckRefresh(w)
  PROVE  Sound'
<1>1. CheckRefreshDoes(w)
  BY CheckRefreshEffect
<1>2. UNCHANGED <<issued, recorded, store, auth, epoch, clears, restore, login, logout>>
  BY <1>1 DEF CheckRefreshDoes
<1>3. CASE w = "phone" /\ Completed(0)
  <2>1. refresh.pc = "posted"  BY <1>1, <1>3 DEF ServingInv, CheckRefreshDoes
  <2>. QED  BY <1>2, <1>3, <2>1, SoundFailed
<1>4. CASE UNCHANGED <<call, refresh>>
  <2>1. serving'["phone"].at = "issue" <=> serving["phone"].at = "issue"
    BY <1>1, WorkerIs DEF CheckRefreshDoes, ServesOne
  <2>2. Spent' \subseteq Spent  BY <1>1 DEF CheckRefreshDoes
  <2>. QED  BY <1>2, <1>4, <2>1, <2>2, SoundServer
<1>. QED  BY <1>1, <1>3, <1>4 DEF CheckRefreshDoes

(* The phone's own refresh uses up the token it is replacing.                *)
LEMMA SoundBlacklistRefresh ==
  ASSUME TypeInv, ServingInv, Sound, NEW w \in Worker, BlacklistRefresh(w)
  PROVE  Sound'
<1>1. BlacklistRefreshDoes(w)
  BY BlacklistRefreshEffect
<1>2. UNCHANGED <<issued, recorded, call, refresh, store, auth, epoch, clears,
                  restore, login, logout>>
  BY <1>1 DEF BlacklistRefreshDoes
<1>3. CASE w \in Slot
  <2>1. serving'["phone"] = serving["phone"]
    BY <1>1, <1>3, WorkerIs DEF BlacklistRefreshDoes, ServesOne
  <2>2. Spent' \subseteq Spent  BY <1>1, <1>3 DEF BlacklistRefreshDoes
  <2>. QED  BY <1>2, <2>1, <2>2, SoundServer
<1>4. CASE w = "phone"
  <2>1. refresh.pc = "posted"  BY <1>1, <1>4 DEF ServingInv, BlacklistRefreshDoes
  <2>2. login.pc = "idle"  BY <2>1, NoLoginYet
  <2>3. Rotating'
    BY <1>1, <1>2, <1>4, <2>1 DEF Rotating, BlacklistRefreshDoes, ServesOne
  <2>4. FlowsInv' /\ RestoreInv' /\ RestoreCallInv' /\ RestoreStoreInv'
    BY <1>2 DEF Sound, FlowsInv, RestoreInv, RestoreCallInv, RestoreStoreInv, SignedOut,
       SigningIn, OldWork
  <2>5. ClearInv' /\ SignedOutInv'
    BY <1>2 DEF Sound, ClearInv, SignedOutInv, NoRefreshToken, SignedOut, SigningIn
  <2>6. SigningInInv'
    BY <1>2, <2>2 DEF SigningInInv, SigningIn
  <2>7. RefreshInv'
    BY <1>2, <2>1 DEF Sound, RefreshInv
  <2>8. StoreInv' /\ SignedInInv'
    BY <1>2, <2>3 DEF Sound, StoreInv, SignedInInv, Clearing
  <2>. QED  BY <2>4, <2>5, <2>6, <2>7, <2>8 DEF Sound
<1>. QED  BY <1>3, <1>4, WorkerIs

(* The phone's own refresh is answered with a pair of the same user.         *)
LEMMA SoundIssueRefresh ==
  ASSUME TypeInv, ServingInv, Sound, NEW w \in Worker, IssueRefresh(w)
  PROVE  Sound'
<1> DEFINE t == serving[w].tok  n == Len(issued) + 1
<1>1. IssueRefreshDoes(w)
  BY IssueRefreshEffect
<1>2. UNCHANGED <<recorded, call, store, auth, epoch, clears, restore, login, logout>>
  BY <1>1 DEF IssueRefreshDoes
<1>3. /\ Len(issued') = n /\ issued'[n] = issued[t]
      /\ \A i \in DOMAIN issued : issued'[i] = issued[i]
  BY <1>1, Types, Issued, LenProperties DEF IssueRefreshDoes
<1>4. Spent' \subseteq Spent /\ ServesOne(w, "none", 0) /\ serving[w].at = "issue"
  BY <1>1 DEF IssueRefreshDoes
<1>5. CASE w \in Slot
  <2>1. serving'["phone"] = serving["phone"] /\ UNCHANGED refresh
    BY <1>1, <1>5, WorkerIs DEF IssueRefreshDoes, ServesOne
  <2>. QED  BY <1>2, <1>3, <1>4, <2>1, SoundServer
<1>6. CASE w = "phone"
  <2>1. /\ refresh'.pc = "saveAccess" /\ refresh'.tok = refresh.tok /\ refresh'.new = n
        /\ refresh.pc = "posted" /\ t = refresh.tok
    BY <1>1, <1>4, <1>6 DEF ServingInv, IssueRefreshDoes, RefreshIs
  <2>2. login.pc = "idle" /\ ~NoRefreshToken  BY <2>1, NoLoginYet
  <2>3. refresh.tok = store.refresh /\ store.refresh # 0
    BY <2>1, Parts DEF Sound, RefreshInv, TokensAtHand
  <2>4. /\ issued'[n] = issued[store.refresh]
        /\ issued'[store.refresh] = issued[store.refresh]
        /\ store.access # 0 => issued'[store.access] = issued[store.access]
    BY <1>3, <2>1, <2>3, Stored
  <2>5. n \notin Spent'  BY <1>4, SpentKnown
  <2> HIDE DEF n, t
  <2>11. FlowsInv'
    BY <1>2, <2>2 DEF Sound, FlowsInv, SignedOut, SigningIn
  <2>12. RestoreInv'
    BY <1>2 DEF Sound, RestoreInv, SignedOut
  <2>13. RestoreCallInv'
    BY <1>2 DEF Sound, RestoreCallInv
  <2>14. RestoreStoreInv'
    BY <1>2, <2>4 DEF Sound, RestoreStoreInv
  <2>15. ClearInv'
    BY <1>2, <2>2 DEF Sound, ClearInv
  <2>16. SignedOutInv'
    BY <1>2, <2>2 DEF Sound, SignedOutInv, SignedOut, SigningIn
  <2>17. SigningInInv'
    BY <1>2, <2>2 DEF SigningInInv, SigningIn
  <2>18. RefreshInv'
    BY <1>2, <2>1, <2>3, <2>4, <2>5 DEF RefreshInv
  <2>19. StoreInv'
    BY <1>2, <2>1, <2>4 DEF Sound, StoreInv, Rotating
  <2>20. SignedInInv'
    BY <1>2, <2>4 DEF Sound, SignedInInv, Clearing
  <2>. QED
    BY <2>11, <2>12, <2>13, <2>14, <2>15, <2>16, <2>17, <2>18, <2>19, <2>20 DEF Sound
<1>. QED  BY <1>5, <1>6, WorkerIs

LEMMA SoundServeLate ==
  ASSUME TypeInv, ServingInv, Sound, NEW w \in Worker, ServeLate(w)
  PROVE  Sound'
<1>1. ServeLateDoes(w)
  BY ServeLateEffect
<1>2. /\ UNCHANGED <<call, refresh, store, auth, epoch, clears, restore, login, logout>>
      /\ Spent' \subseteq Spent /\ recorded \subseteq recorded'
  BY <1>1 DEF ServeLateDoes
<1>3. \A i \in DOMAIN issued : issued'[i] = issued[i]
  BY <1>1, Types, Issued, LenProperties DEF ServeLateDoes
<1>4. serving'["phone"] = serving["phone"]
  BY <1>1, WorkerIs DEF ServeLateDoes, ServesOne
<1>. QED  BY <1>2, <1>3, <1>4, SoundServer

LEMMA SoundSaveAccess ==
  ASSUME TypeInv, Sound, SaveAccess, ~overlap, ~overlap'
  PROVE  Sound'
<1>0. SaveAccessDoes
  BY SaveAccessEffect
<1>1. HeldKnown /\ TokensAtHand /\ ClearsBegin /\ Awaited
  BY Parts
<1>4. /\ UNCHANGED <<auth, epoch, call, clears, restore, login, logout, issued>>
      /\ store'.access = refresh.new /\ store'.refresh = store.refresh
      /\ store'.session = store.session
      /\ refresh.pc = "saveAccess" /\ refresh.new # 0
      /\ store.refresh = refresh.tok /\ refresh.tok # 0
      /\ issued[refresh.new] = issued[store.refresh]
  BY <1>0, <1>1 DEF SaveAccessDoes, StoreIs, TokensAtHand, Sound, RefreshInv, Rotating
<1>11. FlowsInv'
  BY <1>0 DEF Sound, SignedOut, SigningIn, OldWork, FlowsInv, SaveAccessDoes, RefreshIs
<1>12. RestoreInv'
  BY <1>0 DEF Sound, SignedOut, RestoreInv, SaveAccessDoes
<1>13. RestoreCallInv'
  <2>1. restore.pc = "me" /\ epoch = 0 => call["restore"].pc = "waiting"
    BY <1>1, <1>4 DEF Sound, RestoreInv, Awaited
  <2>. QED  BY <1>4, <2>1 DEF Sound, RestoreCallInv
<1>14. RestoreStoreInv'
  BY <1>0, <1>1 DEF Sound, RestoreCallInv, RestoreInv, Awaited, RestoreStoreInv,
    SaveAccessDoes, RefreshIs
<1>15. ClearInv'
  BY <1>0 DEF Sound, NoRefreshToken, ClearInv, SaveAccessDoes, RefreshIs, StoreIs
<1>16. SignedOutInv'
  BY <1>0 DEF Sound, NoRefreshToken, SignedOut, SigningIn, SignedOutInv,
    SaveAccessDoes, RefreshIs, StoreIs
<1>17. SigningInInv'
  BY <1>0 DEF Sound, FlowsInv, SigningIn, OldWork, SigningInInv, SaveAccessDoes
<1>18. RefreshInv'
  BY <1>0 DEF Sound, Rotating, RefreshInv, SaveAccessDoes, RefreshIs, StoreIs
<1>19. StoreInv'
  BY <1>0 DEF Sound, RefreshInv, Rotating, Clearing, SigningIn, StoreInv,
    SaveAccessDoes, RefreshIs, StoreIs
<1>20. SignedInInv'
  BY <1>4 DEF Sound, SignedInInv, Clearing
<1>. QED  BY <1>11, <1>12, <1>13, <1>14, <1>15, <1>16, <1>17, <1>18, <1>19, <1>20 DEF Sound

LEMMA SoundSaveRefresh ==
  ASSUME TypeInv, Sound, SaveRefresh, ~overlap, ~overlap'
  PROVE  Sound'
<1>0. SaveRefreshDoes
  BY SaveRefreshEffect
<1>1. HeldKnown /\ TokensAtHand /\ ClearsBegin /\ Awaited
  BY Parts
<1>3. Completed(refresh.new) => CompletedDoes(refresh.new)
  BY <1>0, CompletedEffect, SessionsAssumption DEF SaveRefreshDoes, Pair
<1>4. \A c \in Channel : call[c].pc = "idle" <=> call'[c].pc = "idle"
  BY <1>0, <1>3 DEF SaveRefreshDoes, CompletedDoes
<1>5. restore.pc # "idle" /\ epoch = 0 => restore.pc = "me"
  BY <1>0, <1>1, ChannelIs DEF Sound, RestoreInv, Awaited, SaveRefreshDoes
<1>6. /\ refresh.new # 0 /\ refresh.tok # 0 /\ store.refresh = refresh.tok
      /\ store.access = refresh.new
      /\ issued[refresh.new] = issued[store.refresh]
      /\ logout.pc = "idle" => refresh.new \notin Spent
      /\ ~NoRefreshToken
  BY <1>0, <1>1 DEF SaveRefreshDoes, TokensAtHand, Sound, RefreshInv, Rotating, NoRefreshToken
<1>7. /\ \A c \in Channel :
           IF call[c].pc = "waiting"
           THEN call'[c].pc = "attach" /\ call'[c].retried = TRUE
           ELSE call'[c] = call[c]
      /\ UNCHANGED <<auth, epoch, clears, restore, login, logout, issued, serving, Spent>>
      /\ store'.access = store.access /\ store'.refresh = refresh.new
      /\ store'.session = store.session
  BY <1>0, <1>3, <1>6 DEF SaveRefreshDoes, CompletedDoes, StoreIs
<1>8. Clearing' <=> Clearing
  BY <1>7 DEF Clearing
<1>11. FlowsInv'
  BY <1>0 DEF Sound, SignedOut, SigningIn, OldWork, FlowsInv, SaveRefreshDoes
<1>12. RestoreInv'
  BY <1>0, <1>4, <1>5, ChannelIs
  DEF Sound, RestoreInv, SaveRefreshDoes, SignedOut
<1>13. RestoreCallInv'
  BY <1>6, <1>7, ChannelIs DEF Sound, RestoreCallInv
<1>14. RestoreStoreInv'
  BY <1>0, <1>1, <1>3, Numbers
    DEF Sound, RestoreCallInv, RestoreInv, Awaited, RestoreStoreInv, SaveRefreshDoes
<1>15. ClearInv'
  BY <1>6, <1>7 DEF Sound, ClearInv
<1>16. SignedOutInv'
  BY <1>0, <1>3
    DEF Sound, NoRefreshToken, SignedOut, SigningIn, SignedOutInv, SaveRefreshDoes,
    StoreIs
<1>17. SigningInInv'
  BY <1>0, <1>3 DEF Sound, FlowsInv, SigningIn, OldWork, SigningInInv, SaveRefreshDoes, StoreIs
<1>18. RefreshInv'
  BY <1>0, <1>3 DEF Sound, Rotating, RefreshInv, SaveRefreshDoes, StoreIs, CompletedDoes, RefreshIs
<1>19. StoreInv'
  BY <1>6, <1>7, <1>8 DEF Sound, StoreInv
<1>20. SignedInInv'
  BY <1>6, <1>7, <1>8 DEF Sound, SignedInInv
<1>. QED  BY <1>11, <1>12, <1>13, <1>14, <1>15, <1>16, <1>17, <1>18, <1>19, <1>20 DEF Sound

LEMMA SoundLoseRefresh ==
  ASSUME TypeInv, Sound, LoseRefresh
  PROVE  Sound'
BY LoseRefreshEffect, SoundFailed DEF LoseRefreshDoes

LEMMA SoundLoginAnswered ==
  ASSUME TypeInv, ServingInv, Sound, LoginAnswered, ~overlap, ~overlap'
  PROVE  Sound'
<1>0. LoginAnsweredDoes
  BY LoginAnsweredEffect
<1>2. Issue(login.user) =>
        /\ Len(issued') = Len(issued) + 1
        /\ issued'[Len(issued) + 1] = login.user
        /\ \A i \in 1..Len(issued) : issued'[i] = issued[i]
        /\ DOMAIN issued' = DOMAIN issued \cup {Len(issued) + 1}
  BY <1>0, Types, Issued DEF LoginAnsweredDoes
<1>3. Len(issued) + 1 \notin Spent /\ logout.tok # Len(issued) + 1
  BY SpentKnown, Parts, Numbers DEF HeldKnown
<1>11. FlowsInv'
  BY <1>0, <1>2 DEF Sound, SignedOut, SigningIn, OldWork, FlowsInv, LoginAnsweredDoes, FlowIs
<1>12. RestoreInv'
  BY <1>0 DEF Sound, SignedOut, RestoreInv, LoginAnsweredDoes
<1>13. RestoreCallInv'
  BY <1>0 DEF Sound, RestoreCallInv, LoginAnsweredDoes
<1>14. RestoreStoreInv'
  BY <1>0, <1>2 DEF Sound, RestoreInv, Awaited, RestoreStoreInv, LoginAnsweredDoes
<1>15. ClearInv'
  BY <1>0, <1>2 DEF Sound, NoRefreshToken, ClearInv, LoginAnsweredDoes, FlowIs
<1>16. SignedOutInv'
  BY <1>0, <1>2 DEF Sound, NoRefreshToken, SignedOut, SigningIn, OldWork, SignedOutInv,
    LoginAnsweredDoes, FlowIs
<1>17. SigningInInv'
  BY <1>0, <1>2, <1>3 DEF SigningIn, SigningInInv, LoginAnsweredDoes, FlowIs
<1>18. RefreshInv'
  BY <1>0, <1>2 DEF Sound, FlowsInv, RestoreInv, ClearInv, Rotating, SigningIn,
    OldWork, SignedOutInv, NoRefreshToken, SignedOut, RefreshInv, LoginAnsweredDoes
<1>19. StoreInv'
  BY <1>0, <1>2 DEF Sound, FlowsInv, RestoreInv, RefreshInv, ClearInv, NoRefreshToken,
    Rotating, Clearing, SigningIn, OldWork, SignedOutInv, SignedOut, StoreInv,
    LoginAnsweredDoes, FlowIs
<1>20. SignedInInv'
  BY <1>0, <1>2, SessionsAssumption DEF Sound, StoreInv, RefreshInv, ClearInv,
    FlowsInv, RestoreInv, NoRefreshToken, SignedOut, SignedInInv, LoginAnsweredDoes,
    FlowIs
<1>. QED  BY <1>11, <1>12, <1>13, <1>14, <1>15, <1>16, <1>17, <1>18, <1>19, <1>20 DEF Sound

LEMMA SoundStartLogin ==
  ASSUME TypeInv, Sound, NEW u \in User, StartLogin(u), ~overlap, ~overlap'
  PROVE  Sound'
<1>0. StartLoginDoes(u)
  BY StartLoginEffect
<1>11. FlowsInv'
  BY <1>0, SessionsAssumption
    DEF Sound, SignedOut, SigningIn, OldWork, FlowsInv, StartLoginDoes, FlowIs
<1>12. RestoreInv'
  BY <1>0 DEF Sound, SignedOut, RestoreInv, StartLoginDoes
<1>13. RestoreCallInv'
  BY <1>0 DEF Sound, RestoreCallInv, StartLoginDoes
<1>14. RestoreStoreInv'
  BY <1>0 DEF Sound, RestoreStoreInv, StartLoginDoes
<1>15. ClearInv'
  BY <1>0 DEF Sound, NoRefreshToken, ClearInv, StartLoginDoes, FlowIs
<1>16. SignedOutInv'
  BY <1>0 DEF Sound, NoRefreshToken, SigningIn, SignedOutInv, StartLoginDoes, FlowIs
<1>17. SigningInInv'
  BY <1>0 DEF SigningIn, SigningInInv, StartLoginDoes, FlowIs
<1>18. RefreshInv'
  BY <1>0 DEF Sound, Rotating, RefreshInv, StartLoginDoes, FlowIs
<1>19. StoreInv'
  BY <1>0 DEF Sound, Rotating, Clearing, SignedOutInv, SignedOut, StoreInv, StartLoginDoes
<1>20. SignedInInv'
  BY <1>0 DEF Sound, Clearing, SignedInInv, StartLoginDoes, FlowIs
<1>. QED  BY <1>11, <1>12, <1>13, <1>14, <1>15, <1>16, <1>17, <1>18, <1>19, <1>20 DEF Sound

LEMMA SoundLoginLost ==
  ASSUME TypeInv, Sound, LoginLost, ~overlap, ~overlap'
  PROVE  Sound'
<1>0. LoginLostDoes
  BY LoginLostEffect
<1>11. FlowsInv'
  BY <1>0, SessionsAssumption DEF Sound, Awaited, SignedOut, SigningIn, OldWork,
    FlowsInv, LoginLostDoes, FlowEnds, FlowIs
<1>12. RestoreInv'
  BY <1>0 DEF Sound, SignedOut, RestoreInv, LoginLostDoes
<1>13. RestoreCallInv'
  BY <1>0 DEF Sound, RestoreCallInv, LoginLostDoes
<1>14. RestoreStoreInv'
  BY <1>0 DEF Sound, RestoreStoreInv, LoginLostDoes
<1>15. ClearInv'
  BY <1>0 DEF Sound, NoRefreshToken, ClearInv, LoginLostDoes, FlowEnds, FlowIs
<1>16. SignedOutInv'
  BY <1>0 DEF Sound, FlowsInv, NoRefreshToken, SignedOut, SigningIn, OldWork,
    SignedOutInv, LoginLostDoes, FlowEnds, FlowIs
<1>17. SigningInInv'
  BY <1>0 DEF SigningIn, SigningInInv, LoginLostDoes, FlowEnds, FlowIs
<1>18. RefreshInv'
  BY <1>0 DEF Sound, Rotating, RefreshInv, LoginLostDoes, FlowEnds
<1>19. StoreInv'
  BY <1>0 DEF Sound, Rotating, Clearing, SignedOutInv, SignedOut, StoreInv, LoginLostDoes
<1>20. SignedInInv'
  BY <1>0, SessionsAssumption DEF SignedInInv, LoginLostDoes, FlowEnds
<1>. QED  BY <1>11, <1>12, <1>13, <1>14, <1>15, <1>16, <1>17, <1>18, <1>19, <1>20 DEF Sound

LEMMA SoundLoginSaves ==
  ASSUME TypeInv, Sound, LoginSaves, ~overlap, ~overlap'
  PROVE  Sound'
<1>0. LoginSavesDoes
  BY LoginSavesEffect
<1>1. HeldKnown /\ TokensAtHand /\ ClearsBegin /\ Awaited
  BY Parts
<1>4. /\ refresh.pc = "idle" /\ clears = <<>> /\ restore.pc = "idle" /\ logout.pc = "idle"
      /\ UNCHANGED <<refresh, clears, restore, logout, call, issued, recorded, serving,
                     Spent, auth>>
      /\ login.k = 1
  BY <1>0, <1>1 DEF LoginSavesDoes, OldWork, ClearsBegin
<1>5. \/ /\ login.pc = "saveAccess" /\ login'.pc = "saveRefresh"
         /\ store'.access = login.tok /\ store'.refresh = store.refresh
      \/ /\ login.pc = "saveRefresh" /\ login'.pc = "persist" /\ login'.k = login.k
         /\ store'.access = store.access /\ store'.refresh = login.tok
  BY <1>0 DEF LoginSavesDoes, FlowMoves, FlowIs, StoreIs
<1>6. /\ login'.tok = login.tok /\ login'.user = login.user
      /\ store'.session = store.session
  BY <1>0 DEF LoginSavesDoes, FlowMoves, FlowIs, StoreIs
<1>7. login.pc = "saveAccess" => store.refresh = 0 /\ store.session = None
  BY DEF Sound, FlowsInv, SignedOutInv, SigningIn, NoRefreshToken
<1>11. FlowsInv'
  BY <1>0, <1>1, Numbers, ChannelIs, SessionsAssumption DEF Sound, RestoreInv,
    TokensAtHand, Awaited, SignedOut, SigningIn, OldWork, FlowsInv, LoginSavesDoes,
    StoreIs, FlowIs, FlowMoves
<1>12. RestoreInv'
  BY <1>4 DEF RestoreInv
<1>13. RestoreCallInv'
  BY <1>4 DEF RestoreCallInv
<1>14. RestoreStoreInv'
  BY <1>0 DEF Sound, RestoreInv, RestoreStoreInv, LoginSavesDoes, StoreIs
<1>15. ClearInv'
  BY <1>0, <1>1, Numbers, ChannelIs, SessionsAssumption DEF Sound, FlowsInv,
    RestoreInv, ClearsBegin, TokensAtHand, NoRefreshToken, SignedOut, SigningIn,
    OldWork, ClearInv, LoginSavesDoes, StoreIs, FlowIs, FlowMoves
<1>16. SignedOutInv'
  BY <1>0 DEF Sound, SigningIn, SignedOutInv, LoginSavesDoes, StoreIs, FlowIs, FlowMoves
<1>17. SigningInInv'
  BY <1>4, <1>5, <1>6, <1>7 DEF Sound, SigningInInv, SigningIn
<1>18. RefreshInv'
  BY <1>0 DEF Sound, FlowsInv, ClearInv, Rotating, SigningIn, OldWork, SignedOutInv,
    NoRefreshToken, SignedOut, RefreshInv, LoginSavesDoes, StoreIs
<1>19. StoreInv'
  BY <1>4, <1>5, <1>6, <1>7 DEF Sound, StoreInv, SigningInInv
<1>20. SignedInInv'
  BY <1>0, SessionsAssumption DEF Sound, ClearInv, FlowsInv, RestoreInv,
    NoRefreshToken, SignedOut, SignedInInv, LoginSavesDoes
<1>. QED  BY <1>11, <1>12, <1>13, <1>14, <1>15, <1>16, <1>17, <1>18, <1>19, <1>20 DEF Sound

LEMMA SoundLoginPersists ==
  ASSUME TypeInv, Sound, LoginPersists, ~overlap, ~overlap'
  PROVE  Sound'
<1>0. LoginPersistsDoes
  BY LoginPersistsEffect
<1>2. IF login.user \in HasCompany THEN StoreIs(store.access, store.refresh, login.user)
      ELSE Emptying(login.k) /\ refresh.pc = "idle"
  BY <1>0, Types, PersistEffect DEF LoginPersistsDoes
<1>4. /\ refresh.pc = "idle" /\ clears = <<>> /\ restore.pc = "idle" /\ logout.pc = "idle"
      /\ UNCHANGED <<refresh, clears, restore, logout, call, issued, recorded, serving, Spent>>
      /\ login.pc = "persist" /\ login.k \in {1, 2, 3} /\ login.epoch = epoch /\ SignedOut
      /\ login.user \in User
  BY <1>0, Cells DEF LoginPersistsDoes, Sound, FlowsInv, SigningIn, OldWork
<1>5. /\ login.tok # 0 /\ issued[login.tok] = login.user
      /\ login.tok \in recorded \ Spent
      /\ store.session = None
      /\ store.access = IF login.k > 1 THEN 0 ELSE login.tok
      /\ store.refresh = IF login.k > 2 THEN 0 ELSE login.tok
      /\ login.k > 1 => login.user \notin HasCompany
  <2>1. login.tok \in recorded \ Spent  BY <1>4 DEF Sound, SigningInInv
  <2>2. recorded \subseteq DOMAIN issued  BY Parts DEF RecordsOK
  <2>3. login.tok # 0  BY <2>1, <2>2, Types, LenProperties
  <2>. QED  BY <1>4, <2>3 DEF Sound, SigningInInv, SigningIn
<1>6. \/ /\ login.user \in HasCompany /\ login.k = 1
         /\ login'.pc = "idle" /\ auth' = login.user
         /\ store'.access = login.tok /\ store'.refresh = login.tok /\ store'.session = login.user
      \/ /\ login.user \notin HasCompany /\ login.k = 3
         /\ login'.pc = "idle" /\ auth' = login.user
         /\ store'.access = 0 /\ store'.refresh = 0 /\ store'.session = None
      \/ /\ login.user \notin HasCompany /\ login.k < 3 /\ UNCHANGED auth
         /\ login'.pc = "persist" /\ login'.user = login.user /\ login'.tok = login.tok
         /\ login'.k = login.k + 1
         /\ store'.access = 0 /\ store'.session = None
         /\ store'.refresh = IF login.k > 1 THEN 0 ELSE login.tok
  <2>1. CASE login.user \in HasCompany
    BY <1>0, <1>2, <1>4, <1>5, <2>1 DEF LoginPersistsDoes, StoreIs, FlowEnds, FlowIs
  <2>2. CASE login.user \notin HasCompany /\ login.k = 3
    BY <1>0, <1>2, <1>4, <1>5, <2>2 DEF LoginPersistsDoes, Emptying, StoreIs, FlowEnds, FlowIs
  <2>3. CASE login.user \notin HasCompany /\ login.k # 3
    BY <1>0, <1>2, <1>4, <1>5, <2>3 DEF LoginPersistsDoes, Emptying, StoreIs, FlowIs
  <2>. QED  BY <2>1, <2>2, <2>3
<1>11. FlowsInv'
  BY <1>0, <1>2, ChannelIs, SessionsAssumption DEF Sound, Awaited, SignedOut,
    SigningIn, OldWork, FlowsInv, LoginPersistsDoes, StoreIs, FlowIs, FlowEnds, Emptying
<1>12. RestoreInv'
  BY <1>4 DEF RestoreInv
<1>13. RestoreCallInv'
  BY <1>4 DEF RestoreCallInv
<1>14. RestoreStoreInv'
  BY <1>0, <1>2 DEF Sound, RestoreCallInv, RestoreInv, Awaited, RestoreStoreInv, LoginPersistsDoes
<1>15. ClearInv'
  BY <1>0, <1>2, SessionsAssumption DEF Sound, FlowsInv, RestoreInv, SignedOut,
    SigningIn, OldWork, ClearInv, LoginPersistsDoes, StoreIs
<1>16. SignedOutInv'
  BY <1>0, <1>2, SessionsAssumption DEF Sound, ClearInv, FlowsInv, SignedOut,
    SigningIn, OldWork, SignedOutInv, LoginPersistsDoes, StoreIs, FlowIs, FlowEnds,
    Emptying
<1>17. SigningInInv'
  BY <1>4, <1>5, <1>6 DEF SigningInInv, SigningIn
<1>18. RefreshInv'
  BY <1>0, <1>2 DEF Sound, Rotating, SigningIn, SignedOut, RefreshInv,
    LoginPersistsDoes, StoreIs, FlowIs, FlowEnds
<1>19. StoreInv'
  BY <1>4, <1>5, <1>6 DEF StoreInv
<1>20. SignedInInv'
  <2>1. store' \in StoreCells
    BY <1>0, <1>2 DEF Emptying, StoreIs
  <2>2. auth \notin User  BY <1>4, SessionsAssumption DEF SignedOut
  <2>. QED  BY <1>4, <1>5, <1>6, <2>1, <2>2, Nothing, SessionsAssumption DEF SignedInInv
<1>. QED  BY <1>11, <1>12, <1>13, <1>14, <1>15, <1>16, <1>17, <1>18, <1>19, <1>20 DEF Sound

LEMMA SoundStartLogout ==
  ASSUME TypeInv, Sound, StartLogout, ~overlap, ~overlap'
  PROVE  Sound'
<1>0. StartLogoutDoes
  BY StartLogoutEffect
<1>11. FlowsInv'
  BY <1>0 DEF Sound, SigningIn, FlowsInv, StartLogoutDoes, FlowIs
<1>12. RestoreInv'
  BY <1>0 DEF Sound, FlowsInv, RestoreInv, StartLogoutDoes
<1>13. RestoreCallInv'
  BY <1>0 DEF Sound, FlowsInv, RestoreCallInv, StartLogoutDoes
<1>14. RestoreStoreInv'
  BY <1>0 DEF Sound, RestoreStoreInv, StartLogoutDoes
<1>15. ClearInv'
  BY <1>0 DEF Sound, NoRefreshToken, ClearInv, StartLogoutDoes, FlowIs
<1>16. SignedOutInv'
  BY <1>0 DEF Sound, NoRefreshToken, SignedOut, SigningIn, SignedOutInv, StartLogoutDoes, FlowIs
<1>17. SigningInInv'
  BY <1>0 DEF Sound, SigningIn, SigningInInv, StartLogoutDoes, FlowIs
<1>18. RefreshInv'
  BY <1>0 DEF Sound, Rotating, RefreshInv, StartLogoutDoes, FlowIs
<1>19. StoreInv'
  BY <1>0 DEF Sound, Rotating, Clearing, SignedOutInv, SignedOut, StoreInv, StartLogoutDoes
<1>20. SignedInInv'
  BY <1>0 DEF Sound, Clearing, SignedInInv, StartLogoutDoes, FlowIs
<1>. QED  BY <1>11, <1>12, <1>13, <1>14, <1>15, <1>16, <1>17, <1>18, <1>19, <1>20 DEF Sound

LEMMA SoundLogoutReads ==
  ASSUME TypeInv, Sound, LogoutReads, ~overlap, ~overlap'
  PROVE  Sound'
<1>0. LogoutReadsDoes
  BY LogoutReadsEffect
<1>1. HeldKnown /\ TokensAtHand /\ ClearsBegin /\ Awaited
  BY Parts
<1>4. call["logout"].pc = "idle" /\ logout.k = 1 /\ "logout" \in Channel
  BY <1>0, <1>1 DEF TokensAtHand, ClearsBegin, LogoutReadsDoes
<1>5. /\ logout'.pc \in {"wipe", "post"} /\ logout'.k = 1
      /\ UNCHANGED <<issued, recorded, serving, Spent, store, auth, refresh, login>>
  BY <1>0, <1>4 DEF LogoutReadsDoes, FlowMoves, FlowIs
<1>6. /\ \A c \in Channel : c # "logout" => call'[c] = call[c]
      /\ call'["logout"].pc \in {"idle", "attach"}
  BY <1>0, <1>4 DEF LogoutReadsDoes, Asked, CallIs
<1>7. Clearing' <=> Clearing
  BY <1>4, <1>6 DEF Clearing
<1>11. FlowsInv'
  BY <1>0 DEF Sound, SignedOut, SigningIn, OldWork, FlowsInv, LogoutReadsDoes, CallIs
<1>12. RestoreInv'
  BY <1>0 DEF Sound, SignedOut, RestoreInv, LogoutReadsDoes
<1>13. RestoreCallInv'
  BY <1>0 DEF Sound, RestoreInv, RestoreCallInv, LogoutReadsDoes
<1>14. RestoreStoreInv'
  BY <1>0 DEF Sound, RestoreStoreInv, LogoutReadsDoes
<1>15. ClearInv'
  BY <1>4, <1>5, <1>6 DEF Sound, ClearInv, NoRefreshToken
<1>16. SignedOutInv'
  BY <1>0 DEF Sound, NoRefreshToken, SignedOut, SigningIn, SignedOutInv,
    LogoutReadsDoes, CallIs, Asked
<1>17. SigningInInv'
  <2>1. login.pc = "saveAccess" => store.refresh = 0
    BY DEF Sound, FlowsInv, SignedOutInv, SigningIn, NoRefreshToken
  <2>2. logout'.pc = "post" => store.refresh # 0
    BY <1>0 DEF LogoutReadsDoes, FlowMoves, FlowIs
  <2>. QED  BY <1>5, <2>1, <2>2 DEF Sound, SigningIn, SigningInInv
<1>18. RefreshInv'
  BY <1>0 DEF Sound, Rotating, RefreshInv, LogoutReadsDoes, CallIs, Asked, FlowIs, FlowMoves
<1>19. StoreInv'
  BY <1>5, <1>7 DEF Sound, StoreInv, Rotating
<1>20. SignedInInv'
  BY <1>0, <1>5, <1>7 DEF Sound, SignedInInv, LogoutReadsDoes
<1>. QED  BY <1>11, <1>12, <1>13, <1>14, <1>15, <1>16, <1>17, <1>18, <1>19, <1>20 DEF Sound

LEMMA SoundLogoutCallEnds ==
  ASSUME TypeInv, Sound, LogoutCallEnds, ~overlap, ~overlap'
  PROVE  Sound'
<1>0. LogoutCallEndsDoes
  BY LogoutCallEndsEffect
<1>1. HeldKnown /\ TokensAtHand /\ ClearsBegin /\ Awaited
  BY Parts
<1>11. FlowsInv'
  BY <1>0 DEF Sound, SignedOut, SigningIn, OldWork, FlowsInv, LogoutCallEndsDoes, CallGone
<1>12. RestoreInv'
  BY <1>0 DEF Sound, SignedOut, RestoreInv, LogoutCallEndsDoes
<1>13. RestoreCallInv'
  BY <1>0 DEF Sound, RestoreInv, RestoreCallInv, LogoutCallEndsDoes
<1>14. RestoreStoreInv'
  BY <1>0 DEF Sound, RestoreStoreInv, LogoutCallEndsDoes
<1>15. ClearInv'
  <2>1. /\ logout'.pc = "wipe" /\ logout'.k = 1
        /\ UNCHANGED <<store, refresh>>
        /\ \A c \in Channel : c # "logout" => call'[c] = call[c]
        /\ call'["logout"].pc = "idle"
    BY <1>0, <1>1 DEF LogoutCallEndsDoes, FlowMoves, FlowIs, CallGone, CallIs, ClearsBegin
  <2>. QED  BY <2>1 DEF Sound, ClearInv, NoRefreshToken
<1>16. SignedOutInv'
  BY <1>0 DEF Sound, NoRefreshToken, SignedOut, SigningIn, OldWork, SignedOutInv,
    LogoutCallEndsDoes, CallGone, FlowMoves
<1>17. SigningInInv'
  BY <1>0 DEF Sound, SigningIn, SigningInInv, LogoutCallEndsDoes, FlowMoves, FlowIs
<1>18. RefreshInv'
  BY <1>0 DEF Sound, Rotating, RefreshInv, LogoutCallEndsDoes, CallGone, FlowMoves, FlowIs, CallIs
<1>19. StoreInv'
  BY <1>0 DEF Sound, Rotating, Clearing, SigningIn, OldWork, SignedOutInv, SignedOut,
    StoreInv, LogoutCallEndsDoes, CallGone, FlowMoves, FlowIs, CallIs
<1>20. SignedInInv'
  BY <1>0 DEF Sound, SignedInInv, LogoutCallEndsDoes, FlowMoves, FlowIs
<1>. QED  BY <1>11, <1>12, <1>13, <1>14, <1>15, <1>16, <1>17, <1>18, <1>19, <1>20 DEF Sound

LEMMA SoundLogoutClears ==
  ASSUME TypeInv, Sound, LogoutClears, ~overlap, ~overlap'
  PROVE  Sound'
<1>0. LogoutClearsDoes
  BY LogoutClearsEffect
<1>2. Emptying(logout.k) /\ refresh.pc = "idle"
  BY <1>0, Types, DeleteEffect DEF LogoutClearsDoes
<1>4. /\ store'.refresh = IF logout.k = 2 THEN 0 ELSE store.refresh
      /\ store'.access = IF logout.k = 1 THEN 0 ELSE store.access
      /\ store'.session = IF logout.k = 3 THEN None ELSE store.session
      /\ store' \in StoreCells
      /\ UNCHANGED <<refresh, call, issued>> /\ refresh.pc = "idle"
  BY <1>0, <1>2 DEF LogoutClearsDoes, Emptying, StoreIs
<1>5. /\ logout.k \in {1, 2, 3} /\ logout.pc \in {"wipe", "clearAuth"}
      /\ \/ /\ logout.k < 3 /\ UNCHANGED auth
            /\ logout'.pc = logout.pc /\ logout'.k = logout.k + 1
         \/ /\ logout.pc = "wipe" /\ logout.k = 3 /\ UNCHANGED auth
            /\ logout'.pc = "clearAuth" /\ logout'.k = 1
         \/ logout'.pc = "idle" /\ auth' = "unauthenticated"
  BY <1>0, Cells DEF LogoutClearsDoes, FlowIs, FlowEnds
<1>11. FlowsInv'
  BY <1>0, <1>2, ChannelIs, SessionsAssumption DEF Sound, Awaited, SignedOut,
    SigningIn, OldWork, FlowsInv, LogoutClearsDoes, StoreIs, FlowIs, FlowEnds, Emptying
<1>12. RestoreInv'
  BY <1>0 DEF Sound, SignedOut, RestoreInv, LogoutClearsDoes
<1>13. RestoreCallInv'
  BY <1>0, <1>2 DEF Sound, RestoreInv, FlowsInv, SignedOut, RestoreCallInv,
    LogoutClearsDoes, StoreIs, FlowIs, FlowEnds, Emptying
<1>14. RestoreStoreInv'
  BY <1>0, <1>2 DEF Sound, RestoreCallInv, RestoreInv, Awaited, RestoreStoreInv, LogoutClearsDoes
<1>15. ClearInv'
  <2>1. NoRefreshToken => NoRefreshToken'
    BY <1>4 DEF NoRefreshToken
  <2>2. \A c \in Channel : call'[c].pc = "clear" /\ call'[c].k = 3 => NoRefreshToken'
    BY <1>4, <2>1 DEF Sound, ClearInv
  <2>3. logout'.pc = "wipe" /\ logout'.k = 3 => NoRefreshToken'
    BY <1>4, <1>5 DEF NoRefreshToken
  <2>4. logout'.pc = "clearAuth" => NoRefreshToken' /\ store'.session = None
    BY <1>4, <1>5, <2>1 DEF Sound, ClearInv
  <2>5. logout'.pc = "clearAuth" /\ logout'.k > 1 => store'.access = 0
    BY <1>4, <1>5 DEF Sound, ClearInv
  <2>. QED  BY <2>2, <2>3, <2>4, <2>5 DEF ClearInv
<1>16. SignedOutInv'
  BY <1>0, <1>2, SessionsAssumption DEF Sound, ClearInv, FlowsInv, RestoreInv,
    RestoreStoreInv, NoRefreshToken, SignedOut, SigningIn, OldWork, SignedOutInv,
    LogoutClearsDoes, StoreIs, FlowIs, FlowEnds, Emptying
<1>17. SigningInInv'
  BY <1>0, <1>2 DEF Sound, FlowsInv, RestoreInv, SigningIn, OldWork, SigningInInv,
    LogoutClearsDoes, StoreIs, FlowIs, FlowEnds, Emptying
<1>18. RefreshInv'
  BY <1>0, <1>2 DEF Sound, Rotating, SignedOut, RefreshInv, LogoutClearsDoes
<1>19. StoreInv'
  BY <1>0, <1>2 DEF Sound, ClearInv, NoRefreshToken, Rotating, Clearing, SigningIn,
    OldWork, SignedOutInv, SignedOut, StoreInv, LogoutClearsDoes, StoreIs, FlowIs,
    FlowEnds, Emptying
<1>20. SignedInInv'
  <2>1. auth' \in User => logout'.pc \in {"wipe", "clearAuth"} /\ UNCHANGED auth
    BY <1>5, SessionsAssumption
  <2>2. auth' \in User \ HasCompany => store' = [access |-> 0, refresh |-> 0, session |-> None]
    BY <1>4, <2>1, Nothing, Types DEF Sound, SignedInInv
  <2>. QED  BY <2>1, <2>2, SessionsAssumption DEF SignedInInv
<1>. QED  BY <1>11, <1>12, <1>13, <1>14, <1>15, <1>16, <1>17, <1>18, <1>19, <1>20 DEF Sound

LEMMA SoundRestoreReads ==
  ASSUME TypeInv, Sound, RestoreReads, ~overlap, ~overlap'
  PROVE  Sound'
<1>0. RestoreReadsDoes
  BY RestoreReadsEffect
<1>1. HeldKnown /\ TokensAtHand /\ ClearsBegin /\ Awaited
  BY Parts
<1>11. FlowsInv'
  BY <1>0 DEF Sound, SignedOut, SigningIn, OldWork, FlowsInv, RestoreReadsDoes, Asked,
    FlowIs, FlowMoves, CallIs
<1>12. RestoreInv'
  BY <1>0 DEF Sound, RestoreInv, RestoreReadsDoes, Asked, FlowIs, FlowMoves, CallIs
<1>13. RestoreCallInv'
  BY <1>0 DEF RestoreCallInv, RestoreReadsDoes, Asked, FlowIs, FlowMoves, CallIs
<1>14. RestoreStoreInv'
  BY <1>0, <1>1 DEF RestoreStoreInv, RestoreReadsDoes, FlowMoves, FlowIs, ClearsBegin
<1>15. ClearInv'
  BY <1>0 DEF Sound, NoRefreshToken, ClearInv, RestoreReadsDoes, Asked, FlowIs, FlowMoves, CallIs
<1>16. SignedOutInv'
  BY <1>0 DEF Sound, NoRefreshToken, SignedOut, SigningIn, SignedOutInv,
    RestoreReadsDoes, Asked, FlowIs
<1>17. SigningInInv'
  BY <1>0 DEF Sound, SigningIn, SigningInInv, RestoreReadsDoes
<1>18. RefreshInv'
  BY <1>0 DEF Sound, Rotating, RefreshInv, RestoreReadsDoes, Asked
<1>19. StoreInv'
  BY <1>0 DEF Sound, RestoreInv, Rotating, Clearing, SigningIn, StoreInv,
    RestoreReadsDoes, Asked, FlowIs
<1>20. SignedInInv'
  BY <1>0 DEF Sound, RestoreInv, Clearing, NoRefreshToken, SignedOut, SignedInInv,
    RestoreReadsDoes, Asked
<1>. QED  BY <1>11, <1>12, <1>13, <1>14, <1>15, <1>16, <1>17, <1>18, <1>19, <1>20 DEF Sound

LEMMA SoundRestoreCallEnds ==
  ASSUME TypeInv, Sound, RestoreCallEnds, ~overlap, ~overlap'
  PROVE  Sound'
<1>0. RestoreCallEndsDoes
  BY RestoreCallEndsEffect
<1>1. HeldKnown /\ TokensAtHand /\ ClearsBegin /\ Awaited
  BY Parts
<1>11. FlowsInv'
  BY <1>0 DEF Sound, RestoreInv, TokensAtHand, Awaited, SignedOut, SigningIn, OldWork,
    FlowsInv, RestoreCallEndsDoes, CallGone, FlowIs, FlowMoves, FlowEnds
<1>12. RestoreInv'
  BY <1>0 DEF Sound, SignedOut, RestoreInv, RestoreCallEndsDoes, CallGone, FlowIs,
    FlowMoves, FlowEnds, CallIs
<1>13. RestoreCallInv'
  BY <1>0 DEF RestoreCallInv, RestoreCallEndsDoes, FlowIs, FlowMoves, FlowEnds
<1>14. RestoreStoreInv'
  <2>1. /\ restore'.pc \in {"recheck", "persist", "idle"} /\ UNCHANGED <<store, issued>>
        /\ restore'.pc = "persist" =>
             /\ call["restore"].pc = "ok" /\ restore.epoch = epoch /\ restore.pc = "me"
             /\ restore'.user = issued[call["restore"].tok]
    BY <1>0 DEF RestoreCallEndsDoes, FlowMoves, FlowIs, FlowEnds
  <2>2. restore'.pc = "persist" => epoch = 0 /\ login.pc = "idle"
    BY <2>1 DEF Sound, RestoreInv
  <2>3. restore'.pc = "persist" =>
          /\ store.access = call["restore"].tok /\ store.access # 0 /\ store.refresh # 0
    BY <1>1, <2>1, <2>2 DEF Sound, RestoreCallInv, TokensAtHand
  <2>. QED  BY <2>1, <2>2, <2>3 DEF Sound, StoreInv, RestoreStoreInv
<1>15. ClearInv'
  BY <1>0 DEF Sound, NoRefreshToken, ClearInv, RestoreCallEndsDoes, CallGone, FlowIs,
    FlowMoves, FlowEnds, CallIs
<1>16. SignedOutInv'
  BY <1>0 DEF Sound, NoRefreshToken, SignedOut, SigningIn, SignedOutInv,
    RestoreCallEndsDoes, CallGone, FlowIs
<1>17. SigningInInv'
  BY <1>0 DEF Sound, SigningIn, SigningInInv, RestoreCallEndsDoes
<1>18. RefreshInv'
  BY <1>0 DEF Sound, Rotating, RefreshInv, RestoreCallEndsDoes, CallGone
<1>19. StoreInv'
  BY <1>0 DEF Sound, Rotating, Clearing, SigningIn, OldWork, SignedOutInv, SignedOut,
    StoreInv, RestoreCallEndsDoes, CallGone, FlowIs, FlowMoves, FlowEnds, CallIs
<1>20. SignedInInv'
  BY <1>0 DEF Sound, Clearing, SignedInInv, RestoreCallEndsDoes, CallGone, CallIs
<1>. QED  BY <1>11, <1>12, <1>13, <1>14, <1>15, <1>16, <1>17, <1>18, <1>19, <1>20 DEF Sound

LEMMA SoundRestoreRechecks ==
  ASSUME TypeInv, Sound, RestoreRechecks, ~overlap, ~overlap'
  PROVE  Sound'
<1>0. RestoreRechecksDoes
  BY RestoreRechecksEffect
<1>1. HeldKnown /\ TokensAtHand /\ ClearsBegin /\ Awaited
  BY Parts
<1>4. /\ restore.pc = "recheck" /\ restore.k = 1 /\ restore.tok # 0
      /\ UNCHANGED <<store, auth, epoch, call, refresh, clears, login, logout>>
      /\ \/ /\ store.refresh = restore.tok
            /\ restore'.pc = "wipe" /\ restore'.k = 1 /\ restore'.epoch = restore.epoch
         \/ /\ restore.epoch = epoch
            /\ restore'.pc = "clearAuth" /\ restore'.k = 1 /\ restore'.epoch = restore.epoch
         \/ restore'.pc = "idle"
  BY <1>0, <1>1 DEF RestoreRechecksDoes, FlowMoves, FlowIs, FlowEnds, TokensAtHand, ClearsBegin
<1>5. epoch # 0 => store.refresh = 0
  BY <1>4 DEF Sound, RestoreInv, FlowsInv, OldWork, SignedOutInv, NoRefreshToken
<1>11. FlowsInv'
  BY <1>0 DEF Sound, RestoreInv, TokensAtHand, Awaited, SignedOut, SigningIn, OldWork,
    FlowsInv, RestoreRechecksDoes, FlowIs, FlowMoves
<1>12. RestoreInv'
  BY <1>4, <1>5 DEF Sound, RestoreInv, SignedOut
<1>13. RestoreCallInv'
  BY <1>0 DEF RestoreCallInv, RestoreRechecksDoes, FlowIs, FlowMoves, FlowEnds
<1>14. RestoreStoreInv'
  BY <1>4 DEF RestoreStoreInv
<1>15. ClearInv'
  BY <1>0 DEF Sound, NoRefreshToken, ClearInv, RestoreRechecksDoes, FlowIs, FlowMoves
<1>16. SignedOutInv'
  BY <1>0 DEF Sound, NoRefreshToken, SignedOut, SigningIn, OldWork, SignedOutInv,
    RestoreRechecksDoes, FlowIs, FlowMoves
<1>17. SigningInInv'
  BY <1>0 DEF Sound, SigningIn, SigningInInv, RestoreRechecksDoes
<1>18. RefreshInv'
  BY <1>0 DEF Sound, Rotating, RefreshInv, RestoreRechecksDoes, FlowIs
<1>19. StoreInv'
  BY <1>0 DEF Sound, Rotating, Clearing, SigningIn, OldWork, SignedOutInv, SignedOut,
    StoreInv, RestoreRechecksDoes
<1>20. SignedInInv'
  BY <1>0 DEF Sound, Clearing, SignedInInv, RestoreRechecksDoes, FlowIs
<1>. QED  BY <1>11, <1>12, <1>13, <1>14, <1>15, <1>16, <1>17, <1>18, <1>19, <1>20 DEF Sound

LEMMA SoundRestoreClears ==
  ASSUME TypeInv, Sound, RestoreClears, ~overlap, ~overlap'
  PROVE  Sound'
<1>0. RestoreClearsDoes
  BY RestoreClearsEffect
<1>2. Emptying(restore.k) /\ refresh.pc = "idle"
  BY <1>0, Types, DeleteEffect DEF RestoreClearsDoes
<1>11. FlowsInv'
  BY <1>0, <1>2 DEF Sound, RestoreInv, TokensAtHand, SigningIn, OldWork, FlowsInv,
    RestoreClearsDoes, FlowIs, FlowEnds, Emptying, StoreIs
<1>12. RestoreInv'
  BY <1>0 DEF Sound, RestoreInv, RestoreClearsDoes, FlowIs, FlowEnds
<1>13. RestoreCallInv'
  BY <1>0 DEF RestoreCallInv, RestoreClearsDoes, FlowIs, FlowEnds
<1>14. RestoreStoreInv'
  <2>1. /\ store'.refresh = IF restore.k = 2 THEN 0 ELSE store.refresh
        /\ store'.access = IF restore.k = 1 THEN 0 ELSE store.access
    BY <1>2 DEF Emptying, StoreIs
  <2>2. /\ restore.k \in {1, 2, 3} /\ restore.pc \in {"wipe", "clearAuth"}
        /\ \/ restore.k < 3 /\ restore'.pc = restore.pc /\ restore'.k = restore.k + 1
           \/ restore'.pc = "clearAuth" /\ restore'.k = 1
           \/ restore'.pc = "idle"
    BY <1>0, Cells DEF RestoreClearsDoes, FlowIs, FlowEnds
  <2>. QED  BY <2>1, <2>2 DEF Sound, RestoreStoreInv
<1>15. ClearInv'
  BY <1>0, <1>2 DEF Sound, NoRefreshToken, ClearInv, RestoreClearsDoes, FlowIs,
    FlowEnds, Emptying, StoreIs
<1>16. SignedOutInv'
  BY <1>0, <1>2 DEF Sound, RestoreStoreInv, NoRefreshToken, SignedOut, SigningIn,
    OldWork, SignedOutInv, RestoreClearsDoes, FlowIs, FlowEnds, Emptying, StoreIs
<1>17. SigningInInv'
  BY <1>0, <1>2 DEF Sound, FlowsInv, RestoreInv, SigningIn, OldWork, SigningInInv,
    RestoreClearsDoes, FlowIs, StoreIs
<1>18. RefreshInv'
  BY <1>0, <1>2 DEF Sound, Rotating, SignedOut, RefreshInv, RestoreClearsDoes
<1>19. StoreInv'
  BY <1>0, <1>2 DEF Sound, NoRefreshToken, Rotating, Clearing, SigningIn, OldWork,
    SignedOutInv, SignedOut, StoreInv, RestoreClearsDoes, FlowIs, FlowEnds, Emptying,
    StoreIs
<1>20. SignedInInv'
  BY <1>0, <1>2, SessionsAssumption DEF Sound, StoreInv, RefreshInv, ClearInv,
    FlowsInv, RestoreInv, NoRefreshToken, SignedOut, SignedInInv, RestoreClearsDoes,
    FlowIs, FlowEnds
<1>. QED  BY <1>11, <1>12, <1>13, <1>14, <1>15, <1>16, <1>17, <1>18, <1>19, <1>20 DEF Sound

LEMMA SoundRestorePersists ==
  ASSUME TypeInv, Sound, RestorePersists, ~overlap, ~overlap'
  PROVE  Sound'
<1>0. RestorePersistsDoes
  BY RestorePersistsEffect
<1>2. IF restore.user \in HasCompany THEN StoreIs(store.access, store.refresh, restore.user)
      ELSE Emptying(restore.k) /\ refresh.pc = "idle"
  BY <1>0, Types, PersistEffect DEF RestorePersistsDoes
<1>11. FlowsInv'
  BY <1>0, <1>2 DEF Sound, RestoreInv, TokensAtHand, SigningIn, OldWork, FlowsInv,
    RestorePersistsDoes, StoreIs, FlowIs, FlowEnds
<1>12. RestoreInv'
  BY <1>0 DEF Sound, RestoreInv, RestorePersistsDoes, FlowIs, FlowEnds
<1>13. RestoreCallInv'
  BY <1>0 DEF RestoreCallInv, RestorePersistsDoes, FlowIs, FlowEnds
<1>14. RestoreStoreInv'
  BY <1>0 DEF Sound, RestoreStoreInv, RestorePersistsDoes, FlowIs, FlowEnds
<1>15. ClearInv'
  BY <1>0, <1>2 DEF Sound, RestoreInv, ClearInv, RestorePersistsDoes, StoreIs
<1>16. SignedOutInv'
  BY <1>0, <1>2, SessionsAssumption DEF Sound, RestoreStoreInv, NoRefreshToken,
    SignedOut, SigningIn, OldWork, SignedOutInv, RestorePersistsDoes, StoreIs
<1>17. SigningInInv'
  BY <1>0, <1>2
    DEF Sound, RestoreInv, SigningIn, OldWork, SigningInInv, RestorePersistsDoes,
    StoreIs
<1>18. RefreshInv'
  BY <1>0, <1>2 DEF Sound, Rotating, RefreshInv, RestorePersistsDoes, StoreIs, FlowIs, FlowEnds
<1>19. StoreInv'
  BY <1>0, <1>2 DEF Sound, Rotating, Clearing, SigningIn, OldWork, SignedOutInv,
    SignedOut, StoreInv, RestorePersistsDoes, StoreIs, FlowIs, FlowEnds, Emptying
<1>20. SignedInInv'
  BY <1>0, <1>2 DEF Sound, RestoreInv, RestoreStoreInv, SignedInInv,
    RestorePersistsDoes, StoreIs, FlowIs
<1>. QED  BY <1>11, <1>12, <1>13, <1>14, <1>15, <1>16, <1>17, <1>18, <1>19, <1>20 DEF Sound

LEMMA SoundRestart ==
  ASSUME TypeInv, ServingInv, Sound, Restart, ~overlap, ~overlap'
  PROVE  Sound'
<1>0. RestartDoes
  BY RestartEffect
<1>1. HeldKnown /\ TokensAtHand /\ ClearsBegin /\ Awaited
  BY Parts
<1>11. FlowsInv'
  BY <1>0, SessionsAssumption
    DEF Sound, SigningIn, OldWork, FlowsInv, RestartDoes, RefreshIs, FlowIs, FlowEnds
<1>12. RestoreInv'
  BY <1>0, ChannelIs DEF RestoreInv, RestartDoes, FlowIs, FlowEnds
<1>13. RestoreCallInv'
  BY <1>0 DEF RestoreCallInv, RestartDoes, FlowIs
<1>14. RestoreStoreInv'
  BY <1>0 DEF RestoreStoreInv, RestartDoes, FlowIs
<1>15. ClearInv'
  BY <1>0 DEF ClearInv, RestartDoes, FlowIs, FlowEnds
<1>16. SignedOutInv'
  BY <1>0 DEF SignedOut, SignedOutInv, RestartDoes, RefreshIs, FlowIs
<1>17. SigningInInv'
  BY <1>0 DEF Sound, SigningIn, SigningInInv, RestartDoes, RefreshIs, FlowIs, FlowEnds
<1>18. RefreshInv'
  BY <1>0 DEF Rotating, RefreshInv, RestartDoes, RefreshIs
<1>19. StoreInv'
  BY <1>0, <1>1, Numbers, ChannelIs, SessionsAssumption DEF Sound, FlowsInv,
    RestoreInv, RefreshInv, ClearInv, NoRefreshToken, Rotating, Clearing, SigningIn,
    OldWork, SignedOutInv, SignedOut, StoreInv, RestartDoes, RefreshIs, FlowIs, FlowEnds
<1>20. SignedInInv'
  BY <1>0, SessionsAssumption DEF SignedInInv, RestartDoes, RefreshIs
<1>. QED  BY <1>11, <1>12, <1>13, <1>14, <1>15, <1>16, <1>17, <1>18, <1>19, <1>20 DEF Sound

LEMMA SoundResetPassword ==
  ASSUME TypeInv, Sound, NEW u \in User, ResetPassword(u), ~overlap, ~overlap'
  PROVE  Sound'
<1>0. ResetDoes(u)
  BY ResetEffect
<1>11. FlowsInv'
  BY <1>0 DEF Sound, SignedOut, SigningIn, OldWork, FlowsInv, ResetDoes
<1>12. RestoreInv'
  BY <1>0 DEF Sound, SignedOut, RestoreInv, ResetDoes
<1>13. RestoreCallInv'
  BY <1>0 DEF Sound, RestoreCallInv, ResetDoes
<1>14. RestoreStoreInv'
  BY <1>0 DEF Sound, RestoreStoreInv, ResetDoes
<1>15. ClearInv'
  BY <1>0 DEF Sound, NoRefreshToken, ClearInv, ResetDoes
<1>16. SignedOutInv'
  BY <1>0 DEF Sound, NoRefreshToken, SignedOut, SigningIn, SignedOutInv, ResetDoes
<1>17. SigningInInv'
  BY <1>0 DEF Sound, SigningIn, SigningInInv, ResetDoes
<1>18. RefreshInv'
  BY <1>0 DEF Sound, Rotating, RefreshInv, ResetDoes
<1>19. StoreInv'
  BY <1>0 DEF Sound, Rotating, Clearing, SignedOutInv, SignedOut, StoreInv, ResetDoes
<1>20. SignedInInv'
  BY <1>0 DEF Sound, Clearing, SignedInInv, ResetDoes
<1>. QED  BY <1>11, <1>12, <1>13, <1>14, <1>15, <1>16, <1>17, <1>18, <1>19, <1>20 DEF Sound

LEMMA SoundExpireAccess ==
  ASSUME TypeInv, Sound, NEW i \in DOMAIN issued, ExpireAccess(i), ~overlap, ~overlap'
  PROVE  Sound'
<1>0. ExpireDoes(i)
  BY TypeExpireAccess
<1>11. FlowsInv'
  BY <1>0 DEF Sound, SignedOut, SigningIn, OldWork, FlowsInv, ExpireDoes
<1>12. RestoreInv'
  BY <1>0 DEF Sound, SignedOut, RestoreInv, ExpireDoes
<1>13. RestoreCallInv'
  BY <1>0 DEF Sound, RestoreCallInv, ExpireDoes
<1>14. RestoreStoreInv'
  BY <1>0 DEF Sound, RestoreStoreInv, ExpireDoes
<1>15. ClearInv'
  BY <1>0 DEF Sound, NoRefreshToken, ClearInv, ExpireDoes
<1>16. SignedOutInv'
  BY <1>0 DEF Sound, NoRefreshToken, SignedOut, SigningIn, OldWork, SignedOutInv, ExpireDoes
<1>17. SigningInInv'
  BY <1>0 DEF Sound, SigningIn, SigningInInv, ExpireDoes
<1>18. RefreshInv'
  BY <1>0 DEF Sound, Rotating, RefreshInv, ExpireDoes
<1>19. StoreInv'
  BY <1>0 DEF Sound, Rotating, Clearing, SigningIn, OldWork, SignedOutInv, SignedOut,
    StoreInv, ExpireDoes
<1>20. SignedInInv'
  BY <1>0 DEF Sound, Clearing, SignedInInv, ExpireDoes
<1>. QED  BY <1>11, <1>12, <1>13, <1>14, <1>15, <1>16, <1>17, <1>18, <1>19, <1>20 DEF Sound

LEMMA SoundUnchanged ==
  ASSUME Sound, UNCHANGED vars
  PROVE  Sound'
<1>1. UNCHANGED <<issued, recorded, serving, Spent, store, auth, epoch, call, refresh,
                  clears, restore, login, logout>>
  BY ServerStays DEF vars, flows
<1>2. FlowsInv' /\ RestoreInv' /\ RestoreCallInv' /\ RestoreStoreInv'
  BY <1>1 DEF Sound, FlowsInv, RestoreInv, RestoreCallInv, RestoreStoreInv, SignedOut,
     SigningIn, OldWork
<1>3. ClearInv' /\ SignedOutInv' /\ SigningInInv'
  BY <1>1 DEF Sound, ClearInv, SignedOutInv, SigningInInv, NoRefreshToken, SignedOut, SigningIn
<1>4. RefreshInv' /\ StoreInv' /\ SignedInInv'
  BY <1>1 DEF Sound, RefreshInv, StoreInv, SignedInInv, Rotating, Clearing
<1>. QED  BY <1>2, <1>3, <1>4 DEF Sound

(* Work that overlapped once is not forgotten.                               *)
LEMMA OverlapStays == TypeInv /\ [Next]_vars /\ overlap => overlap'
<1> SUFFICES ASSUME TypeInv, [Next]_vars, overlap PROVE overlap'  OBVIOUS
<1>1. CASE Phone
  <2>1. CASE LoginPersists
    BY <2>1, LoginPersistsEffect, PersistEffect, Types DEF LoginPersistsDoes
  <2>2. CASE RestorePersists
    BY <2>2, RestorePersistsEffect, PersistEffect, Types DEF RestorePersistsDoes
  <2>3. ASSUME NEW flow, DeleteCell(flow) PROVE overlap'  BY <2>3 DEF DeleteCell
  <2>4. CASE \/ \E c \in Channel : InvalidateSession(c)
             \/ \E i \in DOMAIN clears : Clear(i)
             \/ LogoutClears \/ RestoreClears
    BY <2>3, <2>4 DEF InvalidateSession, Clear, LogoutClears, RestoreClears
  <2>5. CASE \/ \E c \in Channel : Attach(c)
             \/ ReadRefreshToken \/ SaveAccess \/ SaveRefresh \/ LoginSaves
             \/ LogoutReads \/ LogoutCallEnds \/ RestoreReads \/ RestoreCallEnds
             \/ RestoreRechecks
    BY <2>5 DEF Attach, ReadRefreshToken, SaveAccess, SaveRefresh, LoginSaves, LogoutReads,
       LogoutCallEnds, RestoreReads, RestoreCallEnds, RestoreRechecks
  <2>. QED  BY <1>1, <2>1, <2>2, <2>4, <2>5 DEF Phone
<1>2. CASE Network
  BY <1>2 DEF Network, Succeed, Denied, CheckRefresh, BlacklistRefresh, IssueRefresh,
     ServeLate, LoginAnswered
<1>3. CASE Environment
  BY <1>3 DEF Environment, Ask, LoseRequest, LoseRefresh, LoginLost, StartLogin, StartLogout,
     Restart, ExpireAccess, ResetPassword
<1>4. CASE UNCHANGED vars  BY <1>4 DEF vars
<1>. QED  BY <1>1, <1>2, <1>3, <1>4 DEF Next

LEMMA SoundStep == TypeInv /\ ServingInv /\ SoundInv /\ [Next]_vars => SoundInv'
<1> SUFFICES ASSUME TypeInv, ServingInv, SoundInv, [Next]_vars, ~overlap' PROVE Sound'
  BY DEF SoundInv
<1>0. ~overlap /\ Sound  BY OverlapStays DEF SoundInv
<1>1. CASE Phone
  BY <1>0, <1>1, SoundAttach, SoundInvalidateSession, SoundClear, SoundReadRefreshToken,
     SoundSaveAccess, SoundSaveRefresh, SoundLoginSaves, SoundLoginPersists,
     SoundLogoutReads, SoundLogoutCallEnds, SoundLogoutClears, SoundRestoreReads,
     SoundRestoreCallEnds, SoundRestoreRechecks, SoundRestoreClears, SoundRestorePersists
  DEF Phone
<1>2. CASE Network
  BY <1>0, <1>2, SoundSucceed, SoundDenied, SoundCheckRefresh, SoundBlacklistRefresh,
     SoundIssueRefresh, SoundServeLate, SoundLoginAnswered
  DEF Network
<1>3. CASE Environment
  BY <1>0, <1>3, SoundAsk, SoundLoseRequest, SoundLoseRefresh, SoundLoginLost,
     SoundStartLogin, SoundStartLogout, SoundRestart, SoundExpireAccess, SoundResetPassword
  DEF Environment
<1>4. CASE UNCHANGED vars  BY <1>0, <1>4, SoundUnchanged
<1>. QED  BY <1>1, <1>2, <1>3, <1>4 DEF Next

(* At the start the restore is about to read the storage.                    *)
LEMMA SoundInit == Init => SoundInv
<1> SUFFICES ASSUME Init PROVE Sound  BY DEF SoundInv
<1>1. /\ auth = "loading" /\ epoch = 0 /\ clears = <<>> /\ Spent = {}
      /\ refresh.pc = "idle" /\ login.pc = "idle" /\ logout.pc = "idle"
      /\ restore.pc = "start" /\ restore.epoch = 0
      /\ \A c \in Channel : call[c].pc = "idle"
  BY DEF Init, NoRefresh, NoFlow, Idle, Spent, NoCall, Worker
<1>2. store.refresh # 0 =>
        /\ issued[store.access] = issued[store.refresh]
        /\ issued[store.refresh] \in HasCompany
  <2>1. CASE store.refresh = 0  BY <2>1
  <2>2. CASE store.refresh # 0
    <3>1. PICK u \in HasCompany :
            issued = <<u>> /\ store = [access |-> 1, refresh |-> 1, session |-> u]
      BY <2>2 DEF Init
    <3>2. Len(issued) = 1 /\ issued[1] = u /\ store.access = 1 /\ store.refresh = 1
      BY <3>1
    <3>. QED  BY <3>2
  <2>. QED  BY <2>1, <2>2
<1>3. FlowsInv /\ RestoreInv /\ RestoreCallInv /\ RestoreStoreInv
  BY <1>1, ChannelIs, SessionsAssumption
  DEF FlowsInv, RestoreInv, RestoreCallInv, RestoreStoreInv, SigningIn
<1>4. ClearInv /\ SignedOutInv /\ SigningInInv /\ RefreshInv
  BY <1>1 DEF ClearInv, SignedOutInv, SignedOut, SigningInInv, SigningIn, RefreshInv, Rotating
<1>5. StoreInv
  BY <1>1, <1>2 DEF StoreInv
<1>6. SignedInInv
  BY <1>1, SessionsAssumption DEF SignedInInv
<1>. QED  BY <1>3, <1>4, <1>5, <1>6 DEF Sound

(* With nothing under way the parts of Sound meet.                           *)
LEMMA SoundWhenQuiet ==
  ASSUME TypeInv, SoundInv
  PROVE  SessionSound
<1> SUFFICES ASSUME Quiet, ~overlap PROVE SessionSound
  BY DEF SessionSound, SessionMatches, SessionUsable
<1>0. Sound  BY DEF SoundInv
<1>1. /\ refresh.pc = "idle" /\ clears = <<>> /\ restore.pc = "idle"
      /\ logout.pc = "idle" /\ login.pc = "idle" /\ ~Clearing /\ ~Rotating /\ ~SigningIn
  BY DEF Quiet, OldWork, Clearing, Rotating, SigningIn
<1>2. auth \in User \/ SignedOut
  <2>1. auth # "loading"  BY <1>0, <1>1 DEF Sound, FlowsInv
  <2>. QED  BY <2>1, Parts DEF RecordsOK, SignedOut
<1>3. CASE auth \in HasCompany
  <2>1. /\ store.session = auth /\ store.access # 0 /\ store.refresh # 0
        /\ issued[store.refresh] = auth
    BY <1>0, <1>1, <1>3 DEF Sound, SignedInInv
  <2>2. /\ issued[store.access] = issued[store.refresh]
        /\ store.refresh \notin Spent
    BY <1>0, <1>1, <2>1 DEF Sound, StoreInv
  <2>. QED  BY <1>3, <2>1, <2>2 DEF SessionSound, SessionMatches, SessionUsable
<1>4. CASE auth \notin HasCompany
  <2>1. store = [access |-> 0, refresh |-> 0, session |-> None]
    <3>1. CASE auth \in User
      BY <1>0, <1>4, <3>1 DEF Sound, SignedInInv
    <3>2. CASE SignedOut
      <4>1. store.access = 0 /\ store.refresh = 0 /\ store.session = None
        BY <1>0, <1>1, <3>2 DEF Sound, SignedOutInv, NoRefreshToken
      <4>. QED  BY <4>1, Nothing, Types
    <3>. QED  BY <1>2, <3>1, <3>2
  <2>. QED  BY <1>4, <2>1 DEF SessionSound, SessionMatches, SessionUsable
<1>. QED  BY <1>3, <1>4

(* Whenever nothing is under way and no two sessions' work overlapped, the   *)
(* controller and the secure storage agree, and the refresh token kept is    *)
(* not used up, nor will it be: through refreshes, lost calls, logins,       *)
(* logouts and restarts, no refresh or logout, of the phone or still served  *)
(* after the phone has given it up, takes the stored token from it.          *)
THEOREM SessionIsSound == Spec => []SessionSound
<1>1. Spec => []SoundInv
  BY ServerInv, SoundInit, SoundStep, PTL DEF Spec
<1>. QED  BY <1>1, ServerInv, SoundWhenQuiet, PTL
=============================================================================
