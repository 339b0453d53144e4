----------------------------- MODULE LoginProofs -----------------------------
(***************************************************************************)
(* The login: its sessions and its throttle.                               *)
(*                                                                         *)
(* TrailMatches and ChangeTakesHold are invariants of AuthSessions, for    *)
(* any number of tabs, sessions and password changes.  The inductive       *)
(* invariant adds, for each row, that it was made by the last change unless *)
(* it is revoked, and, for each login under way, that it read the password *)
(* in force unless a change has overtaken it.  SignOutIsTrue needs to know *)
(* what each request under way was sent with and what the answers mean.    *)
(*                                                                         *)
(* LimitsKept, RefusedOnlyAtLimit, OneClientLeavesRoom and MemoryBounded   *)
(* hold of LoginThrottle, for any number of requests and addresses.  A     *)
(* deque is unsorted and partly forgotten, so none of them is inductive:   *)
(* the invariant relates each deque to the whole history of what it let    *)
(* through, and what entered to what passed and is still in flight.        *)
(***************************************************************************)
EXTENDS AuthSessions, LoginThrottle, FiniteSetTheorems, SequenceTheorems, TLAPS

-----------------------------------------------------------------------------
(* Sessions and their audit trail *)

(* What holds of every row of auth_sessions, at time n and after c changes. *)
GoodRow(r, n, c) ==
  /\ r \in Session
  /\ r.created <= n /\ r.revoked <= n
  /\ (r.revoked = NotRevoked /\ r.created + Lifetime > n) => r.logins = 1
  /\ r.logins <= 1 /\ r.logouts <= 1
  /\ r.logouts = 1 => r.revoked # NotRevoked
  /\ r.seen <= r.made /\ r.made <= c
  /\ r.revoked = NotRevoked => r.made = c

GoodRows == \A s \in 1 .. Len(sessions) : GoodRow(sessions[s], now, changes)

OldOnlyIfOverlapped ==
  \A s \in 1 .. Len(sessions) :
    sessions[s].revoked = NotRevoked =>
      sessions[s].pw = changes \/ sessions[s].seen < changes \/ ChangeUndone

InForce == account = NoAccount \/ account.pw = changes \/ ChangeUndone

ReadsInForce ==
  \A t \in Tabs :
    LET c == call[t]["session"] IN
    c.stage = "read" =>
      /\ c.read.pw = c.pw /\ c.seen <= changes
      /\ c.seen = changes => c.read = NoAccount \/ c.read.pw = changes \/ ChangeUndone

AuthInv == TypeOK /\ GoodRows /\ OldOnlyIfOverlapped /\ InForce /\ ReadsInForce

LEMMA InitAuth == Init => AuthInv
<1> SUFFICES ASSUME Init PROVE AuthInv
  OBVIOUS
<1>1. sessions \in Seq(Session) /\ Len(sessions) = 0
  BY EmptySeq DEF Init
<1>2. Idle \in Call /\ Idle.token = 0 /\ Idle.stage = "none"
  BY BoundsAssumption DEF Idle, Call, NoSession, Passwords, Accounts
<1>3. TypeOK
  BY <1>1, <1>2, BoundsAssumption DEF Init, TypeOK, Statuses, Accounts, NoSession
<1>4. GoodRows /\ OldOnlyIfOverlapped /\ InForce
  BY <1>1 DEF Init, GoodRows, OldOnlyIfOverlapped, InForce
<1>5. ReadsInForce
  BY <1>2 DEF Init, ReadsInForce, Slots
<1> QED
  BY <1>3, <1>4, <1>5 DEF AuthInv

LEMMA AuthImplies == AuthInv => TrailMatches /\ ChangeTakesHold
  BY DEF AuthInv, TypeOK, GoodRows, GoodRow, OldOnlyIfOverlapped, InForce, TrailMatches,
         ChangeTakesHold, Usable, Session, NotRevoked

(* Rows changed one by one are a sequence of as many rows. *)
LEMMA RowsChanged ==
  ASSUME NEW q \in Seq(Session), NEW r, DOMAIN r = DOMAIN q, r = [s \in DOMAIN q |-> r[s]],
         \A s \in 1 .. Len(q) : r[s] \in Session
  PROVE  r \in Seq(Session) /\ Len(r) = Len(q)
<1>1. Len(q) \in Nat /\ DOMAIN q = 1 .. Len(q)
  BY LenProperties
<1>2. r \in [1 .. Len(q) -> Session]
  BY <1>1
<1>3. r \in Seq(Session)
  BY <1>1, <1>2, SeqDef
<1> QED
  BY <1>1, <1>2, <1>3, LenProperties

(* A login that has just read the account, and found its password right. *)
FreshRead(c) == c.seen = changes /\ c.read = account /\ account.pw = c.pw

(* A step that keeps what the rows say of their logins, revokes some, and  *)
(* changes neither the account nor a login that has read it.               *)
LEMMA QuietStep ==
  ASSUME AuthInv, TypeOK', changes' = changes, account' = account,
         Len(sessions') = Len(sessions), GoodRows',
         \A s \in 1 .. Len(sessions) :
           /\ sessions'[s].pw = sessions[s].pw /\ sessions'[s].seen = sessions[s].seen
           /\ sessions'[s].made = sessions[s].made
           /\ sessions'[s].rehashed = sessions[s].rehashed
           /\ sessions'[s].revoked = NotRevoked => sessions[s].revoked = NotRevoked,
         \A t \in Tabs : call'[t]["session"].stage = "read" =>
           \/ call'[t]["session"] = call[t]["session"]
           \/ FreshRead(call'[t]["session"])
  PROVE  AuthInv'
<1>1. ChangeUndone' <=> ChangeUndone
  BY DEF ChangeUndone
<1>2. OldOnlyIfOverlapped' /\ InForce'
  BY <1>1 DEF AuthInv, OldOnlyIfOverlapped, InForce
<1>3. ReadsInForce'
  <2> SUFFICES ASSUME NEW t \in Tabs, call'[t]["session"].stage = "read"
               PROVE  LET c == call'[t]["session"] IN
                      /\ c.read.pw = c.pw /\ c.seen <= changes
                      /\ c.seen = changes =>
                           c.read = NoAccount \/ c.read.pw = changes \/ ChangeUndone
    BY <1>1 DEF ReadsInForce
  <2>1. CASE call'[t]["session"] = call[t]["session"]
    BY <2>1 DEF AuthInv, ReadsInForce
  <2>2. CASE FreshRead(call'[t]["session"])
    BY <2>2 DEF FreshRead, AuthInv, InForce, TypeOK
  <2> QED
    BY <2>1, <2>2
<1> QED
  BY <1>2, <1>3 DEF AuthInv

(* Purging and logging out keep a good row good. *)
LEMMA KeptRow ==
  ASSUME NEW r, now \in Nat, changes \in Nat, GoodRow(r, now, changes)
  PROVE  /\ GoodRow(KeptEvents(r), now, changes)
         /\ KeptEvents(r).pw = r.pw /\ KeptEvents(r).seen = r.seen
         /\ KeptEvents(r).made = r.made /\ KeptEvents(r).rehashed = r.rehashed
         /\ KeptEvents(r).revoked = r.revoked
<1> DEFINE a == IF r.created < now - Retention THEN 0 ELSE r.logins
           b == IF r.revoked < now - Retention THEN 0 ELSE r.logouts
<1>1. r \in Session
  BY DEF GoodRow
<1>2. KeptEvents(r) = [r EXCEPT !.logins = a, !.logouts = b]
  BY <1>1 DEF KeptEvents, Session
<1>3. a \in Nat /\ b \in Nat /\ a <= 1 /\ b <= 1
  BY <1>1 DEF GoodRow, Session
<1>4. (r.revoked = NotRevoked /\ r.created + Lifetime > now) => a = 1
  BY <1>1, RetentionAssumption DEF GoodRow, Session
<1>5. b = 1 => r.revoked # NotRevoked
  BY <1>1 DEF GoodRow, Session
<1> HIDE DEF a, b
<1> QED
  BY <1>1, <1>2, <1>3, <1>4, <1>5 DEF GoodRow, Session

LEMMA LoggedOutRow ==
  ASSUME NEW r, now \in Nat, changes \in Nat, GoodRow(r, now, changes)
  PROVE  /\ GoodRow(LoggedOut(r), now, changes)
         /\ LoggedOut(r).pw = r.pw /\ LoggedOut(r).seen = r.seen
         /\ LoggedOut(r).made = r.made /\ LoggedOut(r).rehashed = r.rehashed
         /\ LoggedOut(r).revoked # NotRevoked
<1>1. r \in Session
  BY DEF GoodRow
<1>2. CASE r.revoked # NotRevoked
  BY <1>2 DEF LoggedOut
<1>3. CASE r.revoked = NotRevoked
  <2>1. LoggedOut(r) = [r EXCEPT !.revoked = now, !.logouts = r.logouts + 1]
    BY <1>1, <1>3 DEF LoggedOut, Session
  <2>2. r.logouts = 0 /\ now # NotRevoked
    BY <1>1, <1>3 DEF GoodRow, Session, NotRevoked
  <2>3. /\ LoggedOut(r) \in Session
        /\ LoggedOut(r).revoked = now /\ LoggedOut(r).logouts = 1
        /\ LoggedOut(r).created = r.created /\ LoggedOut(r).logins = r.logins
        /\ LoggedOut(r).pw = r.pw /\ LoggedOut(r).seen = r.seen
        /\ LoggedOut(r).made = r.made /\ LoggedOut(r).rehashed = r.rehashed
    <3>1. r.logouts + 1 = 1
      BY <2>2
    <3>2. LoggedOut(r) = [r EXCEPT !.revoked = now, !.logouts = 1]
      BY <2>1, <3>1
    <3>3. now \in Nat \cup {NotRevoked} /\ 1 \in Nat
      OBVIOUS
    <3>4. LoggedOut(r) \in Session
      BY <1>1, <3>2, <3>3 DEF Session
    <3> QED
      BY <1>1, <3>2, <3>4 DEF Session
  <2> QED
    BY <1>1, <2>2, <2>3 DEF GoodRow, Session
<1> QED
  BY <1>2, <1>3

(* The operator's steps. *)
LEMMA OperatorStep == AuthInv /\ Operator => AuthInv'
<1> SUFFICES ASSUME AuthInv, Operator PROVE AuthInv'
  OBVIOUS
<1>0. Len(sessions) \in Nat /\ DOMAIN sessions = 1 .. Len(sessions)
      /\ (\A s \in 1 .. Len(sessions) : sessions[s] \in Session)
      /\ now \in Nat /\ changes \in Nat
  BY LenProperties, ElementOfSeq, BoundsAssumption DEF AuthInv, TypeOK
<1>1. CASE CreateUser
  <2>1. account' \in Accounts
    BY <1>1, OutOfDateAssumption DEF AuthInv, CreateUser, TypeOK, Accounts, Passwords
  <2>2. TypeOK' /\ account'.pw = changes /\ (ChangeUndone' <=> ChangeUndone)
    BY <1>1, <2>1 DEF AuthInv, CreateUser, TypeOK, ChangeUndone
  <2> QED
    BY <1>1, <2>2
    DEF AuthInv, CreateUser, GoodRows, OldOnlyIfOverlapped, InForce, ReadsInForce
<1>2. CASE SetPassword
  <2>1. \A s \in 1 .. Len(sessions) :
          GoodRow(sessions'[s], now, changes + 1) /\ sessions'[s].revoked # NotRevoked
    <3> SUFFICES ASSUME NEW s \in 1 .. Len(sessions)
                 PROVE  /\ GoodRow(sessions'[s], now, changes + 1)
                        /\ sessions'[s].revoked # NotRevoked
      OBVIOUS
    <3>1. sessions'[s] = Revoked(sessions[s]) /\ GoodRow(sessions[s], now, changes)
      BY <1>0, <1>2 DEF SetPassword, AuthInv, GoodRows
    <3> QED
      BY <1>0, <3>1 DEF Revoked, GoodRow, Session, NotRevoked
  <2>2. sessions' \in Seq(Session) /\ Len(sessions') = Len(sessions)
    <3>1. sessions' = [s \in DOMAIN sessions |-> sessions'[s]]
      BY <1>2 DEF SetPassword
    <3> QED
      BY <1>0, <2>1, <3>1, RowsChanged DEF GoodRow, AuthInv, TypeOK
  <2>3. TypeOK'
    BY <1>2, <2>2, BoundsAssumption DEF AuthInv, TypeOK, SetPassword, Accounts, Passwords
  <2>4. GoodRows' /\ OldOnlyIfOverlapped' /\ InForce'
    BY <1>2, <2>1, <2>2 DEF GoodRows, OldOnlyIfOverlapped, InForce, SetPassword
  <2>5. ReadsInForce'
    <3> SUFFICES ASSUME NEW t \in Tabs, call[t]["session"].stage = "read"
                 PROVE  call[t]["session"].seen < changes + 1
      BY <1>0, <1>2 DEF ReadsInForce, SetPassword, AuthInv, TypeOK, Call, Slots
    <3>1. call[t]["session"].seen \in Nat /\ call[t]["session"].seen <= changes
      BY DEF AuthInv, TypeOK, Call, Slots, ReadsInForce
    <3> QED
      BY <1>0, <3>1
  <2> QED
    BY <2>3, <2>4, <2>5 DEF AuthInv
<1>3. CASE Purge
  <2>1. ASSUME NEW s \in 1 .. Len(sessions)
        PROVE  /\ GoodRow(sessions'[s], now, changes)
               /\ sessions'[s].pw = sessions[s].pw /\ sessions'[s].seen = sessions[s].seen
               /\ sessions'[s].made = sessions[s].made
               /\ sessions'[s].rehashed = sessions[s].rehashed
               /\ sessions'[s].revoked = sessions[s].revoked
    <3>1. sessions'[s] = KeptEvents(sessions[s]) /\ GoodRow(sessions[s], now, changes)
      BY <1>0, <1>3 DEF Purge, AuthInv, GoodRows
    <3> QED
      BY <1>0, <3>1, KeptRow
  <2>2. sessions' \in Seq(Session) /\ Len(sessions') = Len(sessions)
    <3>1. sessions' = [s \in DOMAIN sessions |-> sessions'[s]]
      BY <1>3 DEF Purge
    <3> QED
      BY <1>0, <2>1, <3>1, RowsChanged DEF GoodRow, AuthInv, TypeOK
  <2>3. TypeOK' /\ GoodRows'
    BY <1>3, <2>1, <2>2 DEF AuthInv, TypeOK, Purge, GoodRows
  <2> QED
    BY <1>3, <2>1, <2>2, <2>3, QuietStep DEF Purge
<1>4. CASE Tick
  <2>1. TypeOK' /\ GoodRows'
    <3>1. TypeOK'
      BY <1>4 DEF AuthInv, TypeOK, Tick
    <3>2. ASSUME NEW s \in 1 .. Len(sessions)
          PROVE  GoodRow(sessions[s], now + 1, changes)
      <4>1. GoodRow(sessions[s], now, changes)
        BY DEF AuthInv, GoodRows
      <4> QED
        BY <1>0, <4>1, RetentionAssumption DEF GoodRow, Session, NotRevoked
    <3> QED
      BY <1>4, <3>1, <3>2 DEF Tick, GoodRows
  <2> QED
    BY <1>4, <2>1, QuietStep DEF Tick
<1> QED
  BY <1>1, <1>2, <1>3, <1>4 DEF Operator

(* What every step of a tab or of the API for a tab starts from. *)
LEMMA Typed ==
  ASSUME AuthInv
  PROVE  /\ Len(sessions) \in Nat /\ DOMAIN sessions = 1 .. Len(sessions)
         /\ now \in Nat /\ changes \in Nat /\ changes \in Passwords
         /\ \A s \in 1 .. Len(sessions) :
              sessions[s] \in Session /\ GoodRow(sessions[s], now, changes)
         /\ \A t \in Tabs, k \in Slots :
              call[t][k] \in Call /\ call[t][k].token \in 0 .. Len(sessions)
         /\ Idle \in Call /\ Idle.token = 0 /\ Idle.stage = "none"
         /\ cookie \in 0 .. Len(sessions)
<1>1. Len(sessions) \in Nat /\ DOMAIN sessions = 1 .. Len(sessions)
      /\ \A s \in 1 .. Len(sessions) : sessions[s] \in Session
  BY LenProperties, ElementOfSeq DEF AuthInv, TypeOK
<1>2. now \in Nat /\ changes \in Nat /\ changes \in Passwords
      /\ cookie \in 0 .. Len(sessions)
  BY BoundsAssumption DEF AuthInv, TypeOK, Passwords
<1>3. \A t \in Tabs, k \in Slots :
        call[t][k] \in Call /\ call[t][k].token \in 0 .. Len(sessions)
  BY <1>1 DEF AuthInv, TypeOK, Call
<1>4. Idle \in Call /\ Idle.token = 0 /\ Idle.stage = "none"
  BY BoundsAssumption DEF Idle, Call, NoSession, Passwords, Accounts
<1> QED
  BY <1>1, <1>2, <1>3, <1>4 DEF AuthInv, GoodRows

(* A step that only puts c in one slot of a tab, and perhaps changes what  *)
(* the browser keeps.                                                      *)
LEMMA CallStep ==
  ASSUME AuthInv, NEW t \in Tabs, NEW k \in Slots, NEW c \in Call,
         c.token <= Len(sessions),
         c.stage = "read" => k = "session" /\ FreshRead(c),
         call' = [call EXCEPT ![t][k] = c],
         UNCHANGED <<now, changes, account, sessions>>,
         cookie' \in 0 .. Len(sessions), tab' \in [Tabs -> Statuses]
  PROVE  AuthInv'
<1>1. TypeOK'
  BY DEF AuthInv, TypeOK
<1>2. GoodRows'
  BY DEF AuthInv, GoodRows
<1>3. ASSUME NEW u \in Tabs, call'[u]["session"].stage = "read"
      PROVE  \/ call'[u]["session"] = call[u]["session"]
             \/ FreshRead(call'[u]["session"])
  BY <1>3 DEF AuthInv, TypeOK, Slots
<1> QED
  BY <1>1, <1>2, <1>3, QuietStep

LEMMA VisitorStep ==
  ASSUME AuthInv, NEW t \in Tabs, Visitor(t)
  PROVE  AuthInv'
<1>1. ASSUME NEW k \in Slots, NEW c \in Call, Send(t, k, c), tab' \in [Tabs -> Statuses]
      PROVE  AuthInv'
  <2> DEFINE d == [c EXCEPT !.stage = "sent", !.token = cookie]
  <2>1. d \in Call /\ d.token <= Len(sessions) /\ d.stage = "sent"
    <3>1. cookie \in Nat /\ cookie <= Len(sessions)
      BY Typed
    <3> QED
      BY <3>1 DEF Call
  <2> QED
    BY <1>1, <2>1, Typed, CallStep DEF Send
<1>2. tab \in [Tabs -> Statuses] /\ Idle \in Call
  BY Typed DEF AuthInv, TypeOK
<1>3. CASE Check(t)
  BY <1>1, <1>2, <1>3 DEF Check, Slots, Statuses
<1>4. CASE LogIn(t)
  <2>1. PICK p \in 0 .. changes : Send(t, "session", [Idle EXCEPT !.login = TRUE, !.pw = p])
    BY <1>4 DEF LogIn
  <2>2. [Idle EXCEPT !.login = TRUE, !.pw = p] \in Call
    <3>1. p \in Passwords
      BY BoundsAssumption DEF AuthInv, TypeOK, Passwords
    <3> QED
      BY <1>2, <3>1 DEF Call
  <2> QED
    BY <1>1, <1>2, <1>4, <2>1, <2>2 DEF LogIn, Slots
<1>5. CASE LogOut(t) \/ Request(t)
  BY <1>1, <1>2, <1>5 DEF LogOut, Request, Slots
<1> QED
  BY <1>3, <1>4, <1>5 DEF Visitor

LEMMA BrowserStep ==
  ASSUME AuthInv, NEW t \in Tabs, Browser(t)
  PROVE  AuthInv'
<1>0. tab \in [Tabs -> Statuses] /\ \A x \in Statuses : [tab EXCEPT ![t] = x] \in [Tabs -> Statuses]
  BY DEF AuthInv, TypeOK
<1>1. ASSUME NEW k \in Slots, Done(t, k), cookie' \in 0 .. Len(sessions),
             tab' \in [Tabs -> Statuses]
      PROVE  AuthInv'
  <2>1. Idle \in Call /\ Idle.token <= Len(sessions) /\ Idle.stage # "read"
    BY Typed
  <2> QED
    BY <1>1, <2>1, CallStep DEF Done
<1>2. CASE SessionAnswer(t)
  <2>1. tab' \in [Tabs -> Statuses]
    BY <1>0, <1>2 DEF SessionAnswer, Statuses
  <2>2. cookie' \in 0 .. Len(sessions)
    BY <1>2, Typed DEF SessionAnswer, Slots
  <2> QED
    BY <1>1, <1>2, <2>1, <2>2 DEF SessionAnswer, Slots
<1>3. CASE LogoutAnswer(t)
  BY <1>0, <1>1, <1>3, Typed DEF LogoutAnswer, Slots, Statuses, NoSession
<1>4. CASE PageAnswer(t)
  <2>1. tab' \in [Tabs -> Statuses]
    BY <1>0, <1>4 DEF PageAnswer, Statuses
  <2> QED
    BY <1>1, <1>4, <2>1, Typed DEF PageAnswer, Slots
<1>5. ASSUME NEW k \in Slots, Lose(t, k)
      PROVE  AuthInv'
  <2>1. tab' \in [Tabs -> Statuses] /\ cookie' \in 0 .. Len(sessions)
    BY <1>0, <1>5, Typed DEF Lose, AfterLoss
  <2> QED
    BY <1>1, <1>5, <2>1 DEF Lose
<1> QED
  BY <1>2, <1>3, <1>4, <1>5 DEF Browser

(* The commit of a login appends a row; its password was in force when it  *)
(* was read, and if it is not any more the new row says so.                *)
LEMMA LoginCommitStep ==
  ASSUME AuthInv, NEW t \in Tabs, LoginCommit(t)
  PROVE  AuthInv'
<1> DEFINE c == call[t]["session"]
           row == NewRow(c)
           n == Len(sessions)
<1>1. /\ c \in Call /\ c.stage = "read" /\ c.read.pw = c.pw /\ c.read # NoAccount
      /\ n \in Nat /\ now \in Nat /\ changes \in Nat /\ changes \in Passwords
  <2>1. c \in Call /\ c.stage = "read" /\ c.read.pw = c.pw
    BY Typed DEF LoginCommit, Slots, AuthInv, ReadsInForce
  <2>2. c.pw # -1
    BY <2>1, BoundsAssumption DEF Call, Passwords
  <2>3. c.read # NoAccount
    BY <2>1, <2>2 DEF NoAccount
  <2> QED
    BY <2>1, <2>3, Typed DEF Passwords, AuthInv, TypeOK
<1>2. c.seen \in Nat /\ c.pw \in Passwords /\ c.read.stale \in BOOLEAN
  BY <1>1 DEF Call, Accounts, NoAccount
<1>3. c.seen <= changes /\ (c.seen = changes => c.pw = changes \/ ChangeUndone)
  BY <1>1 DEF AuthInv, ReadsInForce
<1>4. row \in Session /\ GoodRow(row, now, changes)
  BY <1>1, <1>2, <1>3 DEF NewRow, Session, GoodRow, NotRevoked
<1>5. /\ sessions' \in Seq(Session) /\ Len(sessions') = n + 1
      /\ \A s \in 1 .. n : sessions'[s] = sessions[s]
      /\ sessions'[n + 1] = row
  BY <1>1, <1>4 DEF LoginCommit, AuthInv, TypeOK
<1>6. account' \in Accounts /\ UNCHANGED <<now, changes, cookie, tab>>
  BY <1>2 DEF LoginCommit, AuthInv, TypeOK, Accounts
<1>7. call' = [call EXCEPT ![t]["session"] =
                 [Idle EXCEPT !.stage = "answered", !.login = TRUE, !.ok = TRUE,
                              !.token = n + 1]]
  BY DEF LoginCommit, Answered, Idle
<1>8. TypeOK'
  <2>1. [Idle EXCEPT !.stage = "answered", !.login = TRUE, !.ok = TRUE, !.token = n + 1]
          \in Call
    <3>1. Idle \in Call
      BY Typed
    <3>2. [Idle EXCEPT !.stage = "answered", !.login = TRUE] \in Call
      BY <3>1 DEF Call
    <3>3. n + 1 \in Nat
      BY <1>1
    <3> QED
      BY <3>1, <3>2, <3>3 DEF Call, Idle
  <2>2. call' \in [Tabs -> [Slots -> Call]]
    BY <1>7, <2>1 DEF AuthInv, TypeOK
  <2>3. \A u \in Tabs, k \in Slots : call[u][k].token \in 0 .. n
    BY Typed
  <2>4. ASSUME NEW u \in Tabs, NEW k \in Slots
        PROVE  call'[u][k].token <= n + 1
    <3>1. call'[u][k] = call[u][k] \/ call'[u][k].token = n + 1
      BY <1>7, Typed DEF AuthInv, TypeOK, Idle
    <3> QED
      BY <1>1, <2>3, <3>1
  <2> QED
    BY <1>1, <1>5, <1>6, <2>2, <2>4 DEF AuthInv, TypeOK
<1>9. GoodRows'
  BY <1>1, <1>4, <1>5, <1>6 DEF AuthInv, GoodRows
<1>10. ChangeUndone => ChangeUndone'
  BY <1>1, <1>5, <1>6 DEF ChangeUndone
<1>11. c.read.stale /\ c.seen < changes => ChangeUndone'
  BY <1>1, <1>5, <1>6 DEF ChangeUndone, NewRow
<1>12. OldOnlyIfOverlapped'
  <2> SUFFICES ASSUME NEW s \in 1 .. n + 1, sessions'[s].revoked = NotRevoked
               PROVE  \/ sessions'[s].pw = changes \/ sessions'[s].seen < changes
                      \/ ChangeUndone'
    BY <1>5, <1>6 DEF OldOnlyIfOverlapped
  <2>1. CASE s = n + 1
    BY <1>1, <1>2, <1>3, <1>5, <1>10, <2>1 DEF NewRow
  <2>2. CASE s \in 1 .. n
    BY <1>5, <1>10, <2>2 DEF AuthInv, OldOnlyIfOverlapped
  <2> QED
    BY <1>1, <2>1, <2>2
<1>13. InForce'
  <2>1. CASE c.read.stale
    BY <1>1, <1>2, <1>3, <1>6, <1>10, <1>11, <2>1 DEF LoginCommit, InForce
  <2>2. CASE ~c.read.stale
    BY <1>6, <1>10, <2>2 DEF LoginCommit, AuthInv, InForce
  <2> QED
    BY <2>1, <2>2
<1>14. ReadsInForce'
  BY <1>6, <1>7, <1>10 DEF AuthInv, TypeOK, ReadsInForce, Slots, Idle
<1> QED
  BY <1>8, <1>9, <1>12, <1>13, <1>14 DEF AuthInv

LEMMA ApiStep ==
  ASSUME AuthInv, NEW t \in Tabs, Api(t)
  PROVE  AuthInv'
<1>0. tab \in [Tabs -> Statuses]
  BY DEF AuthInv, TypeOK
<1>1. CASE LoginRead(t)
  <2> DEFINE d == [call[t]["session"] EXCEPT !.stage = "read", !.read = account,
                                             !.seen = changes]
  <2>1. d \in Call /\ d.token <= Len(sessions) /\ FreshRead(d)
    BY <1>1, Typed DEF LoginRead, FreshRead, AuthInv, TypeOK, Call, Slots
  <2> QED
    BY <1>0, <1>1, <2>1, Typed, CallStep DEF LoginRead, Slots
<1>2. CASE LoginRefused(t)
  <2> DEFINE d == [[Idle EXCEPT !.login = TRUE] EXCEPT !.stage = "answered"]
  <2>1. d \in Call /\ d.token <= Len(sessions) /\ d.stage = "answered"
    <3>1. Idle \in Call /\ Idle.token = 0 /\ Len(sessions) \in Nat
      BY Typed
    <3>2. [Idle EXCEPT !.login = TRUE] \in Call
      BY <3>1 DEF Call
    <3>3. d = [Idle EXCEPT !.stage = "answered", !.login = TRUE]
      BY DEF Idle
    <3>4. d \in Call
      BY <3>1, <3>3 DEF Call
    <3> QED
      BY <3>1, <3>3, <3>4 DEF Idle
  <2> QED
    BY <1>0, <1>2, <2>1, Typed, CallStep DEF LoginRefused, Answered, Slots
<1>3. CASE LoginCommit(t)
  BY <1>3, LoginCommitStep
<1>4. ASSUME NEW k \in Slots, Authenticate(t, k)
      PROVE  AuthInv'
  <2> DEFINE d == [[call[t][k] EXCEPT !.ok = Usable(call[t][k].token)]
                     EXCEPT !.stage = "answered"]
  <2>0. Usable(call[t][k].token) \in BOOLEAN
    BY DEF Usable
  <2>1. d \in Call /\ d.token <= Len(sessions) /\ d.stage = "answered"
    <3>1. call[t][k] \in Call /\ call[t][k].token <= Len(sessions)
      BY Typed
    <3> DEFINE b == Usable(call[t][k].token)
    <3>2. b \in BOOLEAN
      BY <2>0
    <3> HIDE DEF b
    <3>3. [call[t][k] EXCEPT !.ok = b] \in Call
      BY <3>1, <3>2 DEF Call
    <3>4. [[call[t][k] EXCEPT !.ok = b] EXCEPT !.stage = "answered"] \in Call
          /\ [[call[t][k] EXCEPT !.ok = b] EXCEPT !.stage = "answered"].stage = "answered"
          /\ [[call[t][k] EXCEPT !.ok = b] EXCEPT !.stage = "answered"].token
               = call[t][k].token
      BY <3>1, <3>3 DEF Call
    <3> QED
      BY <3>1, <3>4 DEF b
  <2> QED
    BY <1>0, <1>4, <2>1, Typed, CallStep DEF Authenticate, Answered
<1>5. CASE ServeLogout(t)
  <2> DEFINE c == call[t]["logout"]
             d == [[c EXCEPT !.ok = TRUE] EXCEPT !.stage = "answered"]
  <2>1. c \in Call /\ c.token \in 0 .. Len(sessions) /\ d \in Call
        /\ d.token = c.token /\ d.stage = "answered"
    <3>1. c \in Call /\ c.token \in 0 .. Len(sessions)
      BY Typed DEF Slots
    <3> QED
      BY <3>1 DEF Call
  <2>2. CASE c.token = NoSession
    <3>1. UNCHANGED <<now, changes, account, sessions, cookie, tab>>
          /\ call' = [call EXCEPT ![t]["logout"] = d]
      BY <1>5, <2>2 DEF ServeLogout, Answered
    <3>2. d.token <= Len(sessions) /\ "logout" \in Slots
          /\ cookie \in 0 .. Len(sessions)
      BY <2>1, Typed DEF Slots
    <3> QED
      BY <1>0, <2>1, <3>1, <3>2, CallStep
  <2>3. CASE c.token # NoSession
    <3>1. c.token \in 1 .. Len(sessions) /\ now \in Nat /\ changes \in Nat
      BY <2>1, <2>3, Typed DEF NoSession
    <3>2. GoodRow(sessions[c.token], now, changes)
      BY <3>1, Typed
    <3>3. sessions' = [sessions EXCEPT ![c.token] = LoggedOut(sessions[c.token])]
      BY <1>5, <2>3 DEF ServeLogout
    <3>4. LoggedOut(sessions[c.token]) \in Session
      BY <3>1, <3>2, LoggedOutRow DEF GoodRow
    <3>5. /\ sessions' \in Seq(Session) /\ Len(sessions') = Len(sessions)
          /\ \A s \in 1 .. Len(sessions) :
               sessions'[s] = IF s = c.token THEN LoggedOut(sessions[c.token])
                                             ELSE sessions[s]
      BY <3>1, <3>3, <3>4, ExceptSeq DEF AuthInv, TypeOK
    <3>6. GoodRows'
      BY <1>5, <3>1, <3>2, <3>5, LoggedOutRow DEF ServeLogout, AuthInv, GoodRows
    <3>7. call' = [call EXCEPT ![t]["logout"] = d]
          /\ UNCHANGED <<now, changes, account, cookie, tab>>
      BY <1>5 DEF ServeLogout, Answered
    <3>8. TypeOK'
      BY <2>1, <3>5, <3>7 DEF AuthInv, TypeOK
    <3>9. \A u \in Tabs : call'[u]["session"] = call[u]["session"]
      BY <3>7 DEF AuthInv, TypeOK, Slots
    <3> QED
      BY <3>1, <3>2, <3>5, <3>6, <3>7, <3>8, <3>9, LoggedOutRow, QuietStep
  <2> QED
    BY <2>2, <2>3
<1> QED
  BY <1>1, <1>2, <1>3, <1>4, <1>5 DEF Api

LEMMA AuthStep == AuthInv /\ [Next]_vars => AuthInv'
<1> SUFFICES ASSUME AuthInv, [Next]_vars PROVE AuthInv'
  OBVIOUS
<1>1. CASE UNCHANGED vars
  BY <1>1 DEF vars, AuthInv, TypeOK, GoodRows, OldOnlyIfOverlapped, InForce, ReadsInForce,
              ChangeUndone
<1> QED
  BY <1>1, OperatorStep, VisitorStep, ApiStep, BrowserStep DEF Next

(* AuthService.login, logout, set_password and delete_expired_events: a    *)
(* session that is accepted has its login event, at most one logout event  *)
(* is ever recorded of it, and only of a revoked one.                      *)
THEOREM TrailAlwaysMatches == Spec => []TrailMatches
<1>1. AuthInv /\ [Next]_vars => AuthInv'
  BY AuthStep
<1> QED
  BY InitAuth, AuthImplies, <1>1, PTL DEF Spec

(* AuthService.set_password: only a login that overlapped the last change  *)
(* can leave an old password's session open or put the old password back.  *)
THEOREM ChangesTakeHold == Spec => []ChangeTakesHold
<1>1. AuthInv /\ [Next]_vars => AuthInv'
  BY AuthStep
<1> QED
  BY InitAuth, AuthImplies, <1>1, PTL DEF Spec

-----------------------------------------------------------------------------
(* Signing out *)

(* What a tab knows: while it asks about its session it does not say       *)
(* "signed in", and an answered logout or a 401 names a session that is    *)
(* refused from then on.                                                   *)
Signed(cs, status) ==
  /\ cs["session"].stage # "none" => status # "signed_in"
  /\ cs["logout"].stage = "answered" => ~Usable(cs["logout"].token)
  /\ cs["page"].stage = "answered" /\ ~cs["page"].ok => ~Usable(cs["page"].token)

SignsTrue == \A t \in Tabs : Signed(call[t], tab[t])

(* A session that is refused stays refused.                                *)
RefusedStays == \A s \in 0 .. Len(sessions) : ~Usable(s) => ~Usable(s)'

LEMMA SameRows ==
  ASSUME AuthInv, now' = now \/ now' = now + 1, Len(sessions') \in Nat, Len(sessions') >= Len(sessions),
         \A s \in 1 .. Len(sessions) :
           /\ sessions'[s].created = sessions[s].created
           /\ sessions[s].revoked # NotRevoked => sessions'[s].revoked # NotRevoked
  PROVE  RefusedStays
<1>1. Len(sessions) \in Nat /\ now \in Nat /\ Lifetime \in Nat
      /\ \A s \in 1 .. Len(sessions) : sessions[s].created \in Nat
  <2>1. \A s \in 1 .. Len(sessions) : sessions[s] \in Session
    BY Typed
  <2>2. \A s \in 1 .. Len(sessions) : sessions[s].created \in Nat
    BY <2>1 DEF Session
  <2> QED
    BY <2>2, Typed, RetentionAssumption
<1>2. SUFFICES ASSUME NEW s \in 0 .. Len(sessions), Usable(s)' PROVE Usable(s)
  BY DEF RefusedStays
<1>3. s \in 1 .. Len(sessions)
  BY <1>1, <1>2 DEF Usable
<1> QED
  BY <1>1, <1>2, <1>3 DEF Usable

LEMMA RefusalsStay == AuthInv /\ [Next]_vars => RefusedStays
<1> SUFFICES ASSUME AuthInv, [Next]_vars PROVE RefusedStays
  OBVIOUS
<1>1. /\ Len(sessions) \in Nat /\ DOMAIN sessions = 1 .. Len(sessions) /\ sessions \in Seq(Session)
      /\ \A s \in 1 .. Len(sessions) : sessions[s] \in Session
      /\ now \in Nat /\ changes \in Nat
      /\ \A s \in 1 .. Len(sessions) : GoodRow(sessions[s], now, changes)
  BY Typed DEF AuthInv, TypeOK
<1>2. ASSUME sessions' = sessions, now' = now \/ now' = now + 1 PROVE RefusedStays
  BY <1>1, <1>2, SameRows
<1>3. CASE SetPassword
  <2>1. sessions' = [s \in 1 .. Len(sessions) |-> Revoked(sessions[s])] /\ now' = now
    BY <1>1, <1>3 DEF SetPassword
  <2>2. \A s \in 1 .. Len(sessions) :
          Revoked(sessions[s]).created = sessions[s].created /\ Revoked(sessions[s]) \in Session
          /\ Revoked(sessions[s]).revoked # NotRevoked
    <3>1. SUFFICES ASSUME NEW s \in 1 .. Len(sessions)
                   PROVE  /\ Revoked(sessions[s]).created = sessions[s].created
                          /\ Revoked(sessions[s]) \in Session
                          /\ Revoked(sessions[s]).revoked # NotRevoked
      OBVIOUS
    <3>2. PICK r \in Session : r = sessions[s]
      BY <1>1
    <3>3. now # NotRevoked /\ now \in Nat
      BY <1>1 DEF NotRevoked
    <3>4. CASE r.revoked # NotRevoked
      BY <3>2, <3>4 DEF Revoked
    <3>5. CASE r.revoked = NotRevoked
      <4>1. /\ [r EXCEPT !.revoked = now] \in Session
            /\ [r EXCEPT !.revoked = now].created = r.created
            /\ [r EXCEPT !.revoked = now].revoked = now
        BY <3>3 DEF Session
      <4> QED
        BY <3>2, <3>3, <3>5, <4>1 DEF Revoked
    <3> QED
      BY <3>4, <3>5
  <2>3. Len(sessions') = Len(sessions)
    BY <1>1, <2>1, <2>2, RowsChanged
  <2> QED
    BY <1>1, <2>1, <2>2, <2>3, SameRows
<1>4. CASE Purge
  <2>1. sessions' = [s \in 1 .. Len(sessions) |-> KeptEvents(sessions[s])] /\ now' = now
    BY <1>1, <1>4 DEF Purge
  <2>2. \A s \in 1 .. Len(sessions) :
          /\ KeptEvents(sessions[s]).created = sessions[s].created /\ KeptEvents(sessions[s]) \in Session
          /\ KeptEvents(sessions[s]).revoked = sessions[s].revoked
    <3>1. SUFFICES ASSUME NEW s \in 1 .. Len(sessions)
                   PROVE  /\ KeptEvents(sessions[s]).created = sessions[s].created
                          /\ KeptEvents(sessions[s]) \in Session
                          /\ KeptEvents(sessions[s]).revoked = sessions[s].revoked
      OBVIOUS
    <3>2. PICK r \in Session : r = sessions[s] /\ GoodRow(r, now, changes)
      BY <1>1
    <3>3. GoodRow(KeptEvents(r), now, changes) /\ KeptEvents(r).revoked = r.revoked
      BY <1>1, <3>2, KeptRow
    <3>4. KeptEvents(r).created = r.created
      BY <3>2 DEF KeptEvents, Session
    <3> QED
      BY <3>2, <3>3, <3>4 DEF GoodRow
  <2>3. Len(sessions') = Len(sessions)
    BY <1>1, <2>1, <2>2, RowsChanged
  <2> QED
    BY <1>1, <2>1, <2>2, <2>3, SameRows
<1>5. ASSUME NEW t \in Tabs, LoginCommit(t) PROVE RefusedStays
  <2>1. PICK row : sessions' = Append(sessions, row) /\ now' = now
    BY <1>5 DEF LoginCommit
  <2>2. Len(sessions') = Len(sessions) + 1 /\ \A s \in 1 .. Len(sessions) : sessions'[s] = sessions[s]
    BY <1>1, <2>1
  <2>3. Len(sessions') \in Nat /\ Len(sessions') >= Len(sessions)
    BY <1>1, <2>2
  <2> QED
    BY <2>1, <2>2, <2>3, SameRows
<1>6. ASSUME NEW t \in Tabs, ServeLogout(t) PROVE RefusedStays
  <2>1. PICK k \in 0 .. Len(sessions) : k = call[t]["logout"].token
    BY Typed DEF Slots
  <2>2. CASE k = NoSession
    BY <1>2, <1>6, <2>1, <2>2 DEF ServeLogout
  <2>3. CASE k # NoSession
    <3>1. k \in 1 .. Len(sessions)
      BY <1>1, <2>3 DEF NoSession
    <3>2. PICK r \in Session : r = sessions[k] /\ GoodRow(r, now, changes)
      BY <1>1, <3>1
    <3>3. sessions' = [sessions EXCEPT ![k] = LoggedOut(r)] /\ now' = now
      BY <1>6, <2>1, <2>3, <3>2 DEF ServeLogout
    <3>4. LoggedOut(r) \in Session /\ LoggedOut(r).revoked # NotRevoked
      BY <1>1, <3>2, LoggedOutRow DEF GoodRow
    <3>5. LoggedOut(r).created = r.created
      BY <3>2 DEF LoggedOut, Session
    <3>6. Len(sessions') = Len(sessions)
          /\ \A s \in 1 .. Len(sessions) : sessions'[s] = IF s = k THEN LoggedOut(r) ELSE sessions[s]
      BY <1>1, <3>1, <3>3, <3>4, ExceptSeq
    <3>7. \A s \in 1 .. Len(sessions) :
            /\ sessions'[s].created = sessions[s].created
            /\ sessions[s].revoked # NotRevoked => sessions'[s].revoked # NotRevoked
      BY <3>2, <3>4, <3>5, <3>6
    <3>8. Len(sessions') \in Nat /\ Len(sessions') >= Len(sessions)
      BY <1>1, <3>6
    <3> QED
      BY <3>3, <3>7, <3>8, SameRows
  <2> QED
    BY <2>2, <2>3
<1>7. CASE CreateUser \/ Tick \/ UNCHANGED vars
  BY <1>2, <1>7 DEF CreateUser, Tick, vars
<1>8. ASSUME NEW t \in Tabs, Visitor(t) \/ Browser(t) PROVE RefusedStays
  BY <1>2, <1>8 DEF Visitor, Check, LogIn, LogOut, Request, Send, Browser, SessionAnswer, LogoutAnswer,
                    PageAnswer, Lose, Done
<1>9. ASSUME NEW t \in Tabs, LoginRead(t) \/ LoginRefused(t) \/ \E k \in Slots : Authenticate(t, k)
      PROVE  RefusedStays
  BY <1>2, <1>9 DEF LoginRead, LoginRefused, Authenticate
<1> QED
  BY <1>3, <1>4, <1>5, <1>6, <1>7, <1>8, <1>9 DEF Next, Operator, Api

(* A step that puts c in one slot of a tab.                                *)
LEMMA SlotStep ==
  ASSUME AuthInv, SignsTrue, RefusedStays, NEW t \in Tabs, NEW k \in Slots, NEW c,
         call' = [call EXCEPT ![t][k] = c], \A u \in Tabs : u # t => tab'[u] = tab[u],
         k = "session" /\ c.stage # "none" => tab'[t] # "signed_in",
         k # "session" => (tab'[t] = "signed_in" => tab[t] = "signed_in"),
         k = "logout" /\ c.stage = "answered" => ~Usable(c.token)',
         k = "page" /\ c.stage = "answered" /\ ~c.ok => ~Usable(c.token)'
  PROVE  SignsTrue'
<1>1. SUFFICES ASSUME NEW u \in Tabs PROVE Signed(call[u], tab[u])'
  BY DEF SignsTrue
<1>2. call \in [Tabs -> [Slots -> Call]] /\ Signed(call[u], tab[u])
  BY DEF AuthInv, TypeOK, SignsTrue
<1>3. PICK l, p : l = call[u]["logout"].token /\ p = call[u]["page"].token
  OBVIOUS
<1>4. (~Usable(l) => ~Usable(l)') /\ (~Usable(p) => ~Usable(p)')
  BY <1>3, Typed DEF RefusedStays, Slots
<1>5. PICK cs : cs = call'[u]
  OBVIOUS
<1>6. \A j \in Slots : cs[j] = IF u = t /\ j = k THEN c ELSE call[u][j]
  BY <1>2, <1>5
<1>7. cs["session"].stage # "none" => tab'[u] # "signed_in"
  BY <1>2, <1>6 DEF Signed, Slots
<1>8. cs["logout"].stage = "answered" => ~Usable(cs["logout"].token)'
  <2>1. CASE u = t /\ k = "logout"
    BY <1>6, <2>1 DEF Slots
  <2>2. CASE ~(u = t /\ k = "logout")
    <3>1. cs["logout"] = call[u]["logout"]
      BY <1>6, <2>2 DEF Slots
    <3> QED
      BY <1>2, <1>3, <1>4, <3>1 DEF Signed
  <2> QED
    BY <2>1, <2>2
<1>9. cs["page"].stage = "answered" /\ ~cs["page"].ok => ~Usable(cs["page"].token)'
  <2>1. CASE u = t /\ k = "page"
    BY <1>6, <2>1 DEF Slots
  <2>2. CASE ~(u = t /\ k = "page")
    <3>1. cs["page"] = call[u]["page"]
      BY <1>6, <2>2 DEF Slots
    <3> QED
      BY <1>2, <1>3, <1>4, <3>1 DEF Signed
  <2> QED
    BY <2>1, <2>2
<1> QED
  BY <1>5, <1>7, <1>8, <1>9 DEF Signed

LEMMA SignsStep == AuthInv /\ SignsTrue /\ [Next]_vars => SignsTrue'
<1> SUFFICES ASSUME AuthInv, SignsTrue, [Next]_vars PROVE SignsTrue'
  OBVIOUS
<1>0. RefusedStays
  BY RefusalsStay
<1>1. /\ call \in [Tabs -> [Slots -> Call]] /\ tab \in [Tabs -> Statuses]
      /\ \A t \in Tabs : Signed(call[t], tab[t])
      /\ Idle.stage = "none"
  BY Typed DEF AuthInv, TypeOK, SignsTrue
<1>2. ASSUME UNCHANGED <<call, tab>> PROVE SignsTrue'
  <2>1. SUFFICES ASSUME NEW u \in Tabs PROVE Signed(call[u], tab[u])'
    BY DEF SignsTrue
  <2>2. PICK l, p : l = call[u]["logout"].token /\ p = call[u]["page"].token
    OBVIOUS
  <2>3. (~Usable(l) => ~Usable(l)') /\ (~Usable(p) => ~Usable(p)')
    BY <1>0, <2>2, Typed DEF RefusedStays, Slots
  <2> QED
    BY <1>1, <1>2, <2>2, <2>3 DEF Signed
<1>3. CASE Operator \/ UNCHANGED vars
  BY <1>2, <1>3 DEF Operator, CreateUser, SetPassword, Purge, Tick, vars
<1>4. ASSUME NEW t \in Tabs, Visitor(t) PROVE SignsTrue'
  <2>1. ASSUME NEW k \in Slots, NEW c \in Call, Send(t, k, c), \A u \in Tabs : u # t => tab'[u] = tab[u],
               tab'[t] # "signed_in" \/ (k # "session" /\ tab' = tab)
        PROVE  SignsTrue'
    <3>1. PICK d : d = [c EXCEPT !.stage = "sent", !.token = cookie]
      OBVIOUS
    <3>2. call' = [call EXCEPT ![t][k] = d] /\ d.stage = "sent"
      BY <2>1, <3>1 DEF Send, Call
    <3> QED
      BY <1>0, <2>1, <3>2, SlotStep
  <2>2. Idle \in Call /\ "session" \in Slots /\ "logout" \in Slots /\ "page" \in Slots
    BY Typed DEF Slots
  <2>3. CASE Check(t)
    <3>1. Send(t, "session", Idle) /\ tab' = [tab EXCEPT ![t] = "checking"]
      BY <2>3 DEF Check
    <3>2. tab'[t] # "signed_in" /\ \A u \in Tabs : u # t => tab'[u] = tab[u]
      BY <1>1, <3>1
    <3> QED
      BY <2>1, <2>2, <3>1, <3>2
  <2>4. CASE LogIn(t)
    <3>1. PICK p \in 0 .. changes : Send(t, "session", [Idle EXCEPT !.login = TRUE, !.pw = p])
      BY <2>4 DEF LogIn
    <3>2. [Idle EXCEPT !.login = TRUE, !.pw = p] \in Call
      <4>1. p \in Passwords
        BY BoundsAssumption DEF AuthInv, TypeOK, Passwords
      <4> QED
        BY <2>2, <4>1 DEF Call
    <3>3. tab' = tab /\ tab'[t] # "signed_in"
      BY <2>4 DEF LogIn
    <3> QED
      BY <2>1, <2>2, <3>1, <3>2, <3>3
  <2>5. CASE LogOut(t) \/ Request(t)
    BY <2>1, <2>2, <2>5 DEF LogOut, Request
  <2> QED
    BY <1>4, <2>3, <2>4, <2>5 DEF Visitor
<1>5. ASSUME NEW t \in Tabs, Api(t) PROVE SignsTrue'
  <2>0. tab' = tab /\ Signed(call[t], tab[t])
    BY <1>1, <1>5 DEF Api, LoginRead, LoginRefused, LoginCommit, ServeLogout, Authenticate
  <2>1. ASSUME NEW k \in Slots, NEW c, call' = [call EXCEPT ![t][k] = c], call[t][k].stage # "none",
               k = "logout" /\ c.stage = "answered" => ~Usable(c.token)',
               k = "page" /\ c.stage = "answered" /\ ~c.ok => ~Usable(c.token)'
        PROVE  SignsTrue'
    <3>1. k = "session" => tab'[t] # "signed_in"
      BY <2>0, <2>1 DEF Signed
    <3> QED
      BY <1>0, <2>0, <2>1, <3>1, SlotStep
  <2>2. "session" \in Slots /\ "logout" \in Slots /\ "page" \in Slots
    BY DEF Slots
  <2>3. CASE LoginRead(t) \/ LoginRefused(t) \/ LoginCommit(t)
    <3>1. \E c : call' = [call EXCEPT ![t]["session"] = c]
      BY <2>3 DEF LoginRead, LoginRefused, LoginCommit, Answered
    <3>2. call[t]["session"].stage # "none"
      BY <2>3 DEF LoginRead, LoginRefused, LoginCommit
    <3> QED
      BY <2>1, <2>2, <3>1, <3>2
  <2>4. CASE ServeLogout(t)
    <3>1. PICK c \in Call : c = call[t]["logout"] /\ c.token \in 0 .. Len(sessions) /\ c.stage = "sent"
      BY <2>2, <2>4, Typed DEF ServeLogout
    <3>2. PICK d : d = [[c EXCEPT !.ok = TRUE] EXCEPT !.stage = "answered"] /\ d.token = c.token
      <4>0. /\ [c EXCEPT !.ok = TRUE] \in Call /\ [c EXCEPT !.ok = TRUE].token = c.token
            /\ [c EXCEPT !.ok = TRUE].ok = TRUE
        BY <3>1 DEF Call
      <4>1. PICK e \in Call : e = [c EXCEPT !.ok = TRUE] /\ e.token = c.token
        BY <4>0
      <4>2. [e EXCEPT !.stage = "answered"].token = e.token
        BY <4>1 DEF Call
      <4> QED
        BY <4>1, <4>2
    <3>3. call' = [call EXCEPT ![t]["logout"] = d]
      BY <2>4, <3>1, <3>2 DEF ServeLogout, Answered
    <3>4. ~Usable(c.token)'
      <4>1. CASE c.token = NoSession
        BY <4>1 DEF Usable, NoSession
      <4>2. CASE c.token # NoSession
        <5>1. /\ sessions' = [sessions EXCEPT ![c.token] = LoggedOut(sessions[c.token])]
              /\ c.token \in 1 .. Len(sessions) /\ sessions \in Seq(Session) /\ DOMAIN sessions = 1 .. Len(sessions)
          BY <2>4, <3>1, <4>2, Typed DEF ServeLogout, NoSession, AuthInv, TypeOK
        <5>2. sessions'[c.token] = LoggedOut(sessions[c.token])
          BY <5>1
        <5>3. LoggedOut(sessions[c.token]).revoked # NotRevoked
          BY <5>1, Typed, LoggedOutRow
        <5> QED
          BY <5>2, <5>3 DEF Usable
      <4> QED
        BY <4>1, <4>2
    <3> QED
      BY <2>1, <2>2, <3>1, <3>2, <3>3, <3>4
  <2>5. ASSUME NEW k \in Slots, Authenticate(t, k) PROVE SignsTrue'
    <3>1. PICK c \in Call : c = call[t][k] /\ c.stage = "sent" /\ k # "logout" /\ c.token \in 0 .. Len(sessions)
      BY <2>5, Typed DEF Authenticate
    <3>2. PICK b \in BOOLEAN : b <=> Usable(c.token)
      BY DEF Usable
    <3>3. b = Usable(c.token)
      BY <3>2 DEF Usable
    <3>4. PICK d : /\ d = [[c EXCEPT !.ok = b] EXCEPT !.stage = "answered"]
                   /\ d.token = c.token /\ d.ok = b
      <4>0. /\ [c EXCEPT !.ok = b] \in Call /\ [c EXCEPT !.ok = b].token = c.token
            /\ [c EXCEPT !.ok = b].ok = b
        BY <3>1, <3>2 DEF Call
      <4>1. PICK e \in Call : e = [c EXCEPT !.ok = b] /\ e.token = c.token /\ e.ok = b
        BY <4>0
      <4>2. [e EXCEPT !.stage = "answered"].token = e.token /\ [e EXCEPT !.stage = "answered"].ok = e.ok
        BY <4>1 DEF Call
      <4> QED
        BY <4>1, <4>2
    <3>5. call' = [call EXCEPT ![t][k] = d]
      BY <2>5, <3>1, <3>3, <3>4 DEF Authenticate, Answered
    <3>6. ~b => ~Usable(d.token)'
      BY <1>0, <3>1, <3>2, <3>4 DEF RefusedStays
    <3> QED
      BY <2>1, <3>1, <3>4, <3>5, <3>6
  <2> QED
    BY <1>5, <2>3, <2>4, <2>5 DEF Api
<1>6. ASSUME NEW t \in Tabs, Browser(t) PROVE SignsTrue'
  <2>1. ASSUME NEW k \in Slots, Done(t, k), \A u \in Tabs : u # t => tab'[u] = tab[u],
               k # "session" => (tab'[t] = "signed_in" => tab[t] = "signed_in")
        PROVE  SignsTrue'
    <3>1. call' = [call EXCEPT ![t][k] = Idle]
      BY <2>1 DEF Done
    <3> QED
      BY <1>0, <1>1, <2>1, <3>1, SlotStep
  <2>2. "session" \in Slots /\ "logout" \in Slots /\ "page" \in Slots
    BY DEF Slots
  <2>3. CASE SessionAnswer(t)
    <3>1. Done(t, "session") /\ \A u \in Tabs : u # t => tab'[u] = tab[u]
      BY <1>1, <2>3 DEF SessionAnswer
    <3> QED
      BY <2>1, <2>2, <3>1
  <2>4. CASE LogoutAnswer(t)
    <3>1. Done(t, "logout") /\ (\A u \in Tabs : u # t => tab'[u] = tab[u]) /\ tab'[t] # "signed_in"
      BY <1>1, <2>4 DEF LogoutAnswer
    <3> QED
      BY <2>1, <2>2, <3>1
  <2>5. CASE PageAnswer(t)
    <3>1. Done(t, "page") /\ (\A u \in Tabs : u # t => tab'[u] = tab[u])
          /\ (tab'[t] = "signed_in" => tab[t] = "signed_in")
      BY <1>1, <2>5 DEF PageAnswer
    <3> QED
      BY <2>1, <2>2, <3>1
  <2>6. ASSUME NEW k \in Slots, Lose(t, k) PROVE SignsTrue'
    <3>1. Done(t, k) /\ tab' = tab
      BY <1>1, <2>6 DEF Lose, AfterLoss
    <3> QED
      BY <2>1, <3>1
  <2> QED
    BY <1>6, <2>3, <2>4, <2>5, <2>6 DEF Browser
<1> QED
  BY <1>3, <1>4, <1>5, <1>6 DEF Next

(* A tab that stops saying "signed in" has had the answer of a logout or a *)
(* 401, whose session is refused.                                          *)
LEMMA SignsOutTruly ==
  ASSUME AuthInv, SignsTrue, [Next]_vars, NEW t \in Tabs,
         tab[t] = "signed_in", tab'[t] \in {"signed_out", "expired"}
  PROVE  \E k \in {"logout", "page"} :
           /\ call[t][k] # Idle /\ call'[t][k] = Idle
           /\ call[t][k].stage = "answered" /\ ~Usable(call[t][k].token)
<1>1. /\ call \in [Tabs -> [Slots -> Call]] /\ tab \in [Tabs -> Statuses]
      /\ Signed(call[t], tab[t]) /\ Idle.stage = "none"
      /\ "session" \in Slots /\ "logout" \in Slots /\ "page" \in Slots
  BY Typed DEF AuthInv, TypeOK, SignsTrue, Slots
<1>2. PICK u \in Tabs : Visitor(u) \/ Api(u) \/ Browser(u)
  <2>1. tab' # tab
    OBVIOUS
  <2> QED
    BY <2>1 DEF Next, Operator, CreateUser, SetPassword, Purge, Tick, vars
<1>3. CASE Visitor(u) \/ Api(u)
  BY <1>1, <1>3 DEF Visitor, Check, LogIn, LogOut, Request, Api, LoginRead, LoginRefused, LoginCommit,
                    ServeLogout, Authenticate
<1>4. CASE SessionAnswer(u)
  <2>1. u = t
    BY <1>1, <1>4 DEF SessionAnswer
  <2> QED
    BY <1>1, <1>4, <2>1 DEF SessionAnswer, Signed
<1>5. CASE LogoutAnswer(u)
  <2>1. u = t
    BY <1>1, <1>5 DEF LogoutAnswer
  <2>2. call[t]["logout"].stage = "answered" /\ call'[t]["logout"] = Idle
    BY <1>1, <1>5, <2>1 DEF LogoutAnswer, Done
  <2> QED
    BY <1>1, <2>2 DEF Signed
<1>6. CASE PageAnswer(u)
  <2>1. u = t
    BY <1>1, <1>6 DEF PageAnswer
  <2>2. /\ call[t]["page"].stage = "answered" /\ call'[t]["page"] = Idle
        /\ ~call[t]["page"].ok
    BY <1>1, <1>6, <2>1 DEF PageAnswer, Done
  <2> QED
    BY <1>1, <2>2 DEF Signed
<1>7. CASE \E k \in Slots : Lose(u, k)
  BY <1>1, <1>7 DEF Lose, AfterLoss
<1> QED
  BY <1>2, <1>3, <1>4, <1>5, <1>6, <1>7 DEF Browser

(* setSignedOut, reportSessionExpired: a tab stops saying "signed in" only *)
(* on an answer to a request whose session the API refuses from then on,   *)
(* however the tabs, the losses and the operator's changes interleave.     *)
THEOREM SignOutsAreTrue == Spec => SignOutIsTrue
<1>1. Init => AuthInv /\ SignsTrue
  <2>1. Init => SignsTrue
    BY Typed, InitAuth DEF Init, SignsTrue, Signed, Slots
  <2> QED
    BY <2>1, InitAuth
<1>2. (AuthInv /\ SignsTrue) /\ [Next]_vars => (AuthInv /\ SignsTrue)'
  BY AuthStep, SignsStep
<1>3. AuthInv /\ SignsTrue /\ [Next]_vars =>
        [\A t \in Tabs : (tab[t] = "signed_in" /\ tab'[t] \in {"signed_out", "expired"}) =>
           \E k \in {"logout", "page"} :
             /\ call[t][k] # Idle /\ call'[t][k] = Idle
             /\ call[t][k].stage = "answered" /\ ~Usable(call[t][k].token)]_vars
  BY SignsOutTruly
<1> QED
  BY <1>1, <1>2, <1>3, PTL DEF Spec, SignOutIsTrue

-----------------------------------------------------------------------------
(* The limiter *)

(* The hits a limiter remembers of a key. *)
Deque(lim, k) == IF k \in DOMAIN lim.hits THEN lim.hits[k] ELSE <<>>

IsLimiter(lim, K) ==
  /\ lim = [hits |-> lim.hits, forgot |-> lim.forgot]
  /\ lim.forgot \in Int
  /\ DOMAIN lim.hits \subseteq K
  /\ lim.hits \in [DOMAIN lim.hits -> Seq(Nat)]

LEMMA NewLimiterOK == ASSUME NEW K
                      PROVE  IsLimiter(NewLimiter, K) /\ \A k : Deque(NewLimiter, k) = <<>>
<1>1. <<>> \in Seq(Seq(Nat)) /\ Len(<<>>) = 0
  BY EmptySeq
<1>2. <<>> \in [1 .. 0 -> Seq(Nat)] /\ DOMAIN <<>> = 1 .. 0
  BY <1>1, LenProperties
<1>3. 1 .. 0 = {}
  OBVIOUS
<1>4. NewLimiter.hits = <<>> /\ NewLimiter.forgot \in Int
      /\ NewLimiter = [hits |-> NewLimiter.hits, forgot |-> NewLimiter.forgot]
  BY WindowOK DEF NewLimiter
<1> QED
  BY <1>2, <1>3, <1>4 DEF IsLimiter, Deque

(* A set of positions that has all the later ones ends the sequence.      *)
LEMMA UpperPart ==
  ASSUME NEW m \in Nat, NEW kept \in SUBSET (1 .. m), \A i \in kept : i .. m \subseteq kept
  PROVE  \E n \in 0 .. m : kept = n + 1 .. m /\ Cardinality(kept) = m - n
<1>1. IsFiniteSet(1 .. m) /\ Cardinality(1 .. m) = m
  BY FS_Interval
<1>2. IsFiniteSet(kept) /\ Cardinality(kept) \in Nat /\ Cardinality(kept) <= m
  BY <1>1, FS_Subset, FS_CardinalityType
<1>3. PICK n \in 0 .. m : n = m - Cardinality(kept)
  <2>1. m - Cardinality(kept) \in 0 .. m
    BY <1>2
  <2> QED
    BY <2>1
<1>4. kept \subseteq n + 1 .. m
  <2> SUFFICES ASSUME NEW i \in kept PROVE i \in n + 1 .. m
    OBVIOUS
  <2>1. Cardinality(i .. m) = m - i + 1
    BY FS_Interval
  <2>2. Cardinality(i .. m) <= Cardinality(kept)
    BY <1>2, FS_Subset
  <2> QED
    BY <1>2, <1>3, <2>1, <2>2
<1>5. IsFiniteSet(n + 1 .. m) /\ Cardinality(n + 1 .. m) = m - n
  <2>1. n + 1 \in Int /\ m \in Int /\ n + 1 <= m + 1
    BY <1>3
  <2>2. /\ IsFiniteSet(n + 1 .. m)
        /\ Cardinality(n + 1 .. m) = IF n + 1 > m THEN 0 ELSE m - (n + 1) + 1
    BY <2>1, FS_Interval
  <2> QED
    BY <2>1, <2>2
<1>6. Cardinality(kept) = m - n
  BY <1>2, <1>3
<1> QED
  BY <1>4, <1>5, <1>6, FS_Subset

(* Hits are dropped from the left, up to the first that has not expired.   *)
LEMMA UnexpiredOK ==
  ASSUME NEW h \in Seq(Nat), NEW t \in Nat
  PROVE  \E n \in 0 .. Len(h) :
           /\ Unexpired(h, t) = SubSeq(h, n + 1, Len(h))
           /\ \A i \in 1 .. n : t - h[i] >= Window
           /\ n < Len(h) => t - h[n + 1] < Window
<1> DEFINE kept == {i \in DOMAIN h : \E j \in 1..i : t - h[j] < Window}
<1>1. PICK m \in Nat : m = Len(h) /\ DOMAIN h = 1 .. m /\ \A i \in 1 .. m : h[i] \in Nat
  BY LenProperties, ElementOfSeq
<1>2. kept \subseteq 1 .. m /\ \A i \in kept : i .. m \subseteq kept
  BY <1>1
<1>3. PICK n \in 0 .. m : kept = n + 1 .. m /\ Cardinality(kept) = m - n
  <2> HIDE DEF kept
  <2> QED
    BY <1>2, UpperPart
<1>4. Unexpired(h, t) = SubSeq(h, n + 1, Len(h))
  <2>1. Unexpired(h, t) = SubSeq(h, Len(h) - Cardinality(kept) + 1, Len(h))
    BY DEF Unexpired
  <2> HIDE DEF kept
  <2>2. Len(h) - Cardinality(kept) + 1 = n + 1
    BY <1>1, <1>3
  <2> QED
    BY <2>1, <2>2
<1>5. \A i \in 1 .. n : t - h[i] >= Window
  <2> SUFFICES ASSUME NEW i \in 1 .. n, ~(t - h[i] >= Window) PROVE FALSE
    OBVIOUS
  <2>1. i \in 1 .. m /\ i \in 1 .. i /\ h[i] \in Nat
    BY <1>1
  <2>2. t - h[i] < Window
    BY <2>1, WindowOK
  <2>3. i \in kept
    BY <1>1, <2>1, <2>2
  <2> HIDE DEF kept
  <2> QED
    BY <1>3, <2>3
<1>6. n < Len(h) => t - h[n + 1] < Window
  <2> SUFFICES ASSUME n < m PROVE t - h[n + 1] < Window
    BY <1>1
  <2>1. n + 1 \in kept
    BY <1>3
  <2>2. PICK j \in 1 .. n + 1 : t - h[j] < Window
    BY <2>1
  <2>3. j \notin 1 .. n
    BY <1>1, <1>5, <2>2, WindowOK
  <2> QED
    BY <2>2, <2>3
<1> HIDE DEF kept
<1> QED
  BY <1>1, <1>4, <1>5, <1>6

(* A new key is added, and the idle ones may be forgotten.                 *)
Arrives(lim, k, t, in) ==
  /\ k \in DOMAIN in.hits /\ in.hits[k] = Deque(lim, k)
  /\ \A j \in DOMAIN in.hits \ {k} : j \in DOMAIN lim.hits /\ in.hits[j] = lim.hits[j]
  /\ k \in DOMAIN lim.hits => in = lim
  /\ k \notin DOMAIN lim.hits /\ ~SweepDue(lim, t) =>
       in.forgot = lim.forgot /\ DOMAIN in.hits = DOMAIN lim.hits \cup {k}
  /\ k \notin DOMAIN lim.hits /\ SweepDue(lim, t) =>
       /\ in.forgot = t
       /\ \A j \in DOMAIN lim.hits : j \in DOMAIN in.hits <=> ~IdleKey(lim.hits[j], t)

LEMMA ArrivedOK ==
  ASSUME NEW K, NEW lim, IsLimiter(lim, K), NEW k \in K, NEW t \in Nat
  PROVE  IsLimiter(Arrived(lim, k, t), K) /\ Arrives(lim, k, t, Arrived(lim, k, t))
<1> USE DEF Arrives
<1> DEFINE in == Arrived(lim, k, t)
<1>1. CASE k \in DOMAIN lim.hits
  BY <1>1 DEF Arrived, Deque
<1>2. CASE k \notin DOMAIN lim.hits
  <2> DEFINE kept == {j \in DOMAIN lim.hits : SweepDue(lim, t) => ~IdleKey(lim.hits[j], t)}
             new == [j \in kept \cup {k} |-> IF j = k THEN <<>> ELSE lim.hits[j]]
             f == IF SweepDue(lim, t) THEN t ELSE lim.forgot
  <2>1. in = [hits |-> new, forgot |-> f]
    BY <1>2 DEF Arrived
  <2>2. in.hits = new /\ in.forgot = f
    BY <2>1
  <2>3. DOMAIN new = kept \cup {k} /\ new[k] = <<>> /\ \A j \in kept : new[j] = lim.hits[j]
    BY <1>2
  <2>4. <<>> \in Seq(Nat)
    BY EmptySeq
  <2>5. new \in [kept \cup {k} -> Seq(Nat)]
    BY <2>4 DEF IsLimiter
  <2>6. f \in Int /\ kept \cup {k} \subseteq K
    BY DEF IsLimiter
  <2>7. IsLimiter(in, K)
    <3> HIDE DEF new, f, kept
    <3> QED
      BY <2>1, <2>2, <2>3, <2>5, <2>6 DEF IsLimiter
  <2>8. \A j \in DOMAIN lim.hits : j \in kept <=> (SweepDue(lim, t) => ~IdleKey(lim.hits[j], t))
    OBVIOUS
  <2>9. SweepDue(lim, t) => f = t
    OBVIOUS
  <2>10. ~SweepDue(lim, t) => f = lim.forgot /\ kept = DOMAIN lim.hits
    OBVIOUS
  <2>11. kept \subseteq DOMAIN lim.hits
    OBVIOUS
  <2> HIDE DEF kept, new, f
  <2> QED
    BY <1>2, <2>2, <2>3, <2>7, <2>8, <2>9, <2>10, <2>11 DEF Deque
<1> QED
  BY <1>1, <1>2

(* What check does: expired hits of the key go, and its own is added if    *)
(* fewer than limit are left; other keys keep theirs, or were idle.        *)
Checks(lim, k, t, limit, in, out) ==
  /\ DOMAIN out.hits = DOMAIN in.hits /\ out.forgot = in.forgot
  /\ \A j \in DOMAIN in.hits \ {k} : out.hits[j] = in.hits[j]
  /\ \E n \in 0 .. Len(Deque(lim, k)) :
       LET h == Deque(lim, k) IN
       /\ \A i \in 1 .. n : t - h[i] >= Window
       /\ n < Len(h) => t - h[n + 1] < Window
       /\ Allowed(lim, k, t, limit) <=> Len(h) - n < limit
       /\ out.hits[k] = IF Allowed(lim, k, t, limit) THEN Append(SubSeq(h, n + 1, Len(h)), t)
                        ELSE SubSeq(h, n + 1, Len(h))

LEMMA CheckedOK ==
  ASSUME NEW K, NEW lim, IsLimiter(lim, K), NEW k \in K, NEW t \in Nat, NEW limit \in Nat \ {0}
  PROVE  /\ IsLimiter(Checked(lim, k, t, limit), K)
         /\ Arrives(lim, k, t, Arrived(lim, k, t))
         /\ Checks(lim, k, t, limit, Arrived(lim, k, t), Checked(lim, k, t, limit))
<1> DEFINE out == Checked(lim, k, t, limit)
           in  == Arrived(lim, k, t)
           h   == Deque(lim, k)
           left == Unexpired(h, t)
           new == IF Allowed(lim, k, t, limit) THEN Append(left, t) ELSE left
<1>0. IsLimiter(in, K) /\ Arrives(lim, k, t, in)
  BY ArrivedOK
<1>1. IsLimiter(in, K) /\ k \in DOMAIN in.hits /\ in.hits[k] = h
  BY <1>0 DEF Arrives
<1>2. h \in Seq(Nat)
  BY <1>1 DEF IsLimiter
<1>3. out = [in EXCEPT !.hits[k] = new]
  BY <1>1 DEF Checked
<1>4. PICK n \in 0 .. Len(h) : /\ left = SubSeq(h, n + 1, Len(h))
                               /\ \A i \in 1 .. n : t - h[i] >= Window
                               /\ n < Len(h) => t - h[n + 1] < Window
  BY <1>2, UnexpiredOK
<1>5. Allowed(lim, k, t, limit) <=> Len(left) < limit
  BY <1>1 DEF Allowed
<1> HIDE DEF in, left, h
<1>6. Len(h) \in Nat /\ \A i \in 1 .. Len(h) : h[i] \in Nat
  BY <1>2, LenProperties, ElementOfSeq
<1>7. left \in Seq(Nat) /\ Len(left) = Len(h) - n
  BY <1>4, <1>6, SubSeqProperties
<1>8. new \in Seq(Nat)
  BY <1>7, AppendProperties
<1> HIDE DEF new
<1>9. out = [hits |-> [in.hits EXCEPT ![k] = new], forgot |-> in.forgot]
  BY <1>1, <1>3 DEF IsLimiter
<1>10. out.hits = [in.hits EXCEPT ![k] = new] /\ out.forgot = in.forgot
  BY <1>9
<1>11. /\ DOMAIN out.hits = DOMAIN in.hits /\ out.hits[k] = new
       /\ out.hits \in [DOMAIN in.hits -> Seq(Nat)]
       /\ \A j \in DOMAIN in.hits \ {k} : out.hits[j] = in.hits[j]
  BY <1>1, <1>8, <1>10 DEF IsLimiter
<1>12. IsLimiter(out, K)
  BY <1>1, <1>9, <1>10, <1>11 DEF IsLimiter
<1> HIDE DEF out
<1>13. out.hits[k] = IF Allowed(lim, k, t, limit) THEN Append(SubSeq(h, n + 1, Len(h)), t)
                               ELSE SubSeq(h, n + 1, Len(h))
  BY <1>4, <1>11 DEF new
<1>14. Allowed(lim, k, t, limit) <=> Len(h) - n < limit
  BY <1>5, <1>7
<1> QED
  BY <1>0, <1>4, <1>10, <1>11, <1>12, <1>13, <1>14 DEF out, in, h, Checks

-----------------------------------------------------------------------------
(* A deque and the history of what was let through *)

(* The deque h remembers the last of the times, by readings of the clock   *)
(* that are not too old; what it has forgotten is a window old, less the   *)
(* longest wait.                                                           *)
Tracks(h, times, c) ==
  /\ Len(h) <= Len(times)
  /\ \A j \in 1 .. Len(h) : LET i == Len(times) - Len(h) + j IN
       h[j] <= times[i] /\ times[i] <= h[j] + MaxSkew
  /\ \A i \in 1 .. Len(times) - Len(h) : c - times[i] >= Window - MaxSkew
  /\ \A i \in 1 .. Len(times) : times[i] <= c
  /\ \A i, j \in 1 .. Len(times) : i <= j => times[i] <= times[j]

LEMMA LongAgo ==
  ASSUME NEW c \in Nat, NEW t \in Nat, NEW x \in Nat, NEW y \in Nat,
         t <= c, t - y >= Window, x <= y + MaxSkew
  PROVE  c - x >= Window - MaxSkew
  BY WindowOK, LimitsOK

LEMMA TracksLater ==
  ASSUME NEW h \in Seq(Nat), NEW times \in Seq(Nat), NEW c \in Nat, NEW d \in Nat,
         c <= d, Tracks(h, times, c)
  PROVE  Tracks(h, times, d)
<1>1. PICK m \in Nat, k \in Nat : m = Len(times) /\ k = Len(h)
  BY LenProperties
<1>2. \A i \in 1 .. m : times[i] \in Nat
  BY <1>1, ElementOfSeq
<1>3. \A i \in 1 .. m - k : d - times[i] >= Window - MaxSkew
  <2> TAKE i \in 1 .. m - k
  <2>1. i \in 1 .. m /\ times[i] \in Nat /\ c - times[i] >= Window - MaxSkew
    BY <1>1, <1>2 DEF Tracks
  <2> QED
    BY <2>1, WindowOK, LimitsOK
<1>4. \A i \in 1 .. m : times[i] <= d
  BY <1>1, <1>2 DEF Tracks
<1> QED
  BY <1>1, <1>3, <1>4 DEF Tracks

(* Expired hits are forgotten.                                             *)
LEMMA TracksDropped ==
  ASSUME NEW h \in Seq(Nat), NEW times \in Seq(Nat), NEW c \in Nat, NEW t \in Nat,
         t <= c, Tracks(h, times, c), NEW n \in 0 .. Len(h),
         \A i \in 1 .. n : t - h[i] >= Window
  PROVE  LET g == SubSeq(h, n + 1, Len(h)) IN
         g \in Seq(Nat) /\ Len(g) = Len(h) - n /\ Tracks(g, times, c)
<1> DEFINE g == SubSeq(h, n + 1, Len(h))
<1>1. PICK m \in Nat, k \in Nat : m = Len(times) /\ k = Len(h)
  BY LenProperties
<1>2. /\ \A i \in 1 .. m : times[i] \in Nat
      /\ \A i \in 1 .. k : h[i] \in Nat
  BY <1>1, ElementOfSeq
<1>3. /\ g \in Seq(Nat) /\ Len(g) = k - n
      /\ \A j \in 1 .. k - n : g[j] = h[n + j]
  <2>1. /\ SubSeq(h, n + 1, k) \in Seq(Nat)
        /\ Len(SubSeq(h, n + 1, k)) = IF n + 1 <= k THEN k - (n + 1) + 1 ELSE 0
        /\ \A i \in 1 .. k - (n + 1) + 1 : SubSeq(h, n + 1, k)[i] = h[n + 1 + i - 1]
    <3>1. \A i \in n + 1 .. k : h[i] \in Nat
      BY <1>1, <1>2
    <3>2. n + 1 \in Int /\ k \in Int
      BY <1>1
    <3> QED
      BY <3>1, <3>2, SubSeqProperties
  <2> QED
    BY <1>1, <2>1
<1> HIDE DEF g
<1>4. ASSUME NEW j \in 1 .. k - n
      PROVE  LET i == m - (k - n) + j IN g[j] <= times[i] /\ times[i] <= g[j] + MaxSkew
  <2>1. n + j \in 1 .. k /\ m - k + (n + j) = m - (k - n) + j
    BY <1>1
  <2>2. h[n + j] <= times[m - k + (n + j)] /\ times[m - k + (n + j)] <= h[n + j] + MaxSkew
    BY <1>1, <2>1 DEF Tracks
  <2> QED
    BY <1>3, <2>1, <2>2
<1>5. ASSUME NEW i \in 1 .. m - (k - n) PROVE c - times[i] >= Window - MaxSkew
  <2>1. CASE i \in 1 .. m - k
    BY <1>1, <2>1 DEF Tracks
  <2>2. CASE i > m - k
    <3>1. PICK j \in 1 .. n : i = m - k + j
      <4>1. i - (m - k) \in 1 .. n /\ i = m - k + (i - (m - k))
        BY <1>1, <2>2
      <4> QED
        BY <4>1
    <3>2. j \in 1 .. k /\ h[j] \in Nat /\ t - h[j] >= Window /\ i \in 1 .. m
      BY <1>1, <1>2, <3>1 DEF Tracks
    <3>3. times[i] <= h[j] + MaxSkew /\ times[i] \in Nat
      BY <1>1, <1>2, <3>1, <3>2 DEF Tracks
    <3> QED
      BY <3>2, <3>3, LongAgo
  <2> QED
    BY <1>1, <2>1, <2>2
<1>6. Tracks(g, times, c)
  BY <1>1, <1>3, <1>4, <1>5 DEF Tracks
<1> QED
  BY <1>1, <1>3, <1>6 DEF g

(* All of them are, when the last has expired.                             *)
LEMMA TracksForgotten ==
  ASSUME NEW h \in Seq(Nat), NEW times \in Seq(Nat), NEW c \in Nat, NEW t \in Nat,
         t <= c, Tracks(h, times, c), IdleKey(h, t)
  PROVE  Tracks(<<>>, times, c)
<1>1. PICK m \in Nat, k \in Nat : m = Len(times) /\ k = Len(h)
  BY LenProperties
<1>2. /\ \A i \in 1 .. m : times[i] \in Nat
      /\ \A i \in 1 .. k : h[i] \in Nat
  BY <1>1, ElementOfSeq
<1>3. \A i \in 1 .. m : c - times[i] >= Window - MaxSkew
  <2> TAKE i \in 1 .. m
  <2>1. CASE h = <<>>
    <3>1. k = 0
      BY <1>1, <2>1
    <3> QED
      BY <1>1, <3>1 DEF Tracks
  <2>2. CASE h # <<>> /\ t - h[k] >= Window
    <3>1. k \in Nat \ {0}
      BY <1>1, <2>2, EmptySeq
    <3>2. k \in 1 .. k /\ m - k + k = m /\ m \in 1 .. m
      BY <1>1, <3>1 DEF Tracks
    <3>3. times[m - k + k] <= h[k] + MaxSkew
      BY <1>1, <3>2 DEF Tracks
    <3>4. times[i] <= times[m]
      BY <1>1, <3>2 DEF Tracks
    <3>5. times[m] <= h[k] + MaxSkew /\ h[k] \in Nat /\ times[i] \in Nat /\ times[m] \in Nat
      BY <1>2, <3>2, <3>3
    <3> QED
      <4>1. times[i] <= h[k] + MaxSkew
        <5>1. PICK x \in Nat, y \in Nat, z \in Nat : x = times[i] /\ y = times[m] /\ z = h[k]
          BY <3>5
        <5>2. x <= y /\ y <= z + MaxSkew
          BY <3>4, <3>5, <5>1
        <5>3. MaxSkew \in Nat
          BY LimitsOK
        <5>4. x <= z + MaxSkew
          BY <5>2, <5>3
        <5> QED
          BY <5>1, <5>4
      <4> QED
        BY <2>2, <3>5, <4>1, LongAgo
  <2> QED
    BY <1>1, <2>1, <2>2 DEF IdleKey
<1>4. Len(<<>>) = 0
  OBVIOUS
<1> QED
  BY <1>1, <1>3, <1>4 DEF Tracks

(* A hit that is let through is remembered by its reading of the clock.    *)
LEMMA TracksNew ==
  ASSUME NEW h \in Seq(Nat), NEW times \in Seq(Nat), NEW c \in Nat, NEW t \in Nat,
         t <= c, c <= t + MaxSkew, Tracks(h, times, c)
  PROVE  Tracks(Append(h, t), Append(times, c), c)
<1>1. PICK m \in Nat, k \in Nat : m = Len(times) /\ k = Len(h)
  BY LenProperties
<1>2. /\ \A i \in 1 .. m : times[i] \in Nat
      /\ \A i \in 1 .. k : h[i] \in Nat
  BY <1>1, ElementOfSeq
<1>3. /\ Len(Append(h, t)) = k + 1 /\ Append(h, t)[k + 1] = t
      /\ \A i \in 1 .. k : Append(h, t)[i] = h[i]
  BY <1>1, AppendProperties
<1>4. /\ Len(Append(times, c)) = m + 1 /\ Append(times, c)[m + 1] = c
      /\ \A i \in 1 .. m : Append(times, c)[i] = times[i]
  BY <1>1, AppendProperties
<1>5. PICK g, later : g = Append(h, t) /\ later = Append(times, c)
  OBVIOUS
<1>6. k <= m
  BY <1>1 DEF Tracks
<1>7. ASSUME NEW j \in 1 .. k + 1
      PROVE  LET i == (m + 1) - (k + 1) + j IN g[j] <= later[i] /\ later[i] <= g[j] + MaxSkew
  <2>1. CASE j = k + 1
    BY <1>3, <1>4, <1>5, <2>1, LimitsOK
  <2>2. CASE j \in 1 .. k
    <3>1. (m + 1) - (k + 1) + j = m - k + j /\ m - k + j \in 1 .. m
      BY <1>6, <2>2
    <3>2. h[j] <= times[m - k + j] /\ times[m - k + j] <= h[j] + MaxSkew
      BY <1>1, <2>2 DEF Tracks
    <3> QED
      BY <1>3, <1>4, <1>5, <2>2, <3>1, <3>2
  <2> QED
    BY <2>1, <2>2
<1>8. ASSUME NEW i \in 1 .. (m + 1) - (k + 1) PROVE c - later[i] >= Window - MaxSkew
  <2>1. i \in 1 .. m - k /\ i \in 1 .. m
    BY <1>6
  <2> QED
    BY <1>1, <1>4, <1>5, <2>1 DEF Tracks
<1>9. ASSUME NEW i \in 1 .. m + 1 PROVE later[i] <= c
  BY <1>1, <1>4, <1>5 DEF Tracks
<1>10. ASSUME NEW i \in 1 .. m + 1, NEW j \in 1 .. m + 1, i <= j PROVE later[i] <= later[j]
  <2>1. CASE j = m + 1
    BY <1>4, <1>5, <1>9, <2>1
  <2>2. CASE j \in 1 .. m
    <3>1. i \in 1 .. m
      BY <1>10, <2>2
    <3> QED
      BY <1>1, <1>4, <1>5, <1>10, <2>2, <3>1 DEF Tracks
  <2> QED
    BY <2>1, <2>2
<1>11. PICK a \in Nat, b \in Nat : a = m + 1 /\ b = k + 1
  OBVIOUS
<1>12. a = Len(later) /\ b = Len(g)
  BY <1>3, <1>4, <1>5, <1>11
<1>13. Tracks(g, later, c)
  <2>1. Len(g) <= Len(later)
    BY <1>6, <1>11, <1>12
  <2>2. \A j \in 1 .. Len(g) : LET i == Len(later) - Len(g) + j IN
          g[j] <= later[i] /\ later[i] <= g[j] + MaxSkew
    BY <1>7, <1>11, <1>12
  <2>3. \A i \in 1 .. Len(later) - Len(g) : c - later[i] >= Window - MaxSkew
    BY <1>8, <1>11, <1>12
  <2>4. \A i \in 1 .. Len(later) : later[i] <= c
    BY <1>9, <1>11, <1>12
  <2>5. \A i, j \in 1 .. Len(later) : i <= j => later[i] <= later[j]
    BY <1>10, <1>11, <1>12
  <2> QED
    BY <2>1, <2>2, <2>3, <2>4, <2>5 DEF Tracks
<1> QED
  BY <1>5, <1>13

(* A hit is only let through when the one limit before it is forgotten.    *)
LEMMA SpacedNew ==
  ASSUME NEW h \in Seq(Nat), NEW times \in Seq(Nat), NEW c \in Nat, Tracks(h, times, c),
         NEW limit \in Nat, Len(h) < limit, Spaced(times, limit)
  PROVE  Spaced(Append(times, c), limit)
<1>1. PICK m \in Nat, k \in Nat : m = Len(times) /\ k = Len(h)
  BY LenProperties
<1>2. /\ Len(Append(times, c)) = m + 1 /\ Append(times, c)[m + 1] = c
      /\ \A i \in 1 .. m : Append(times, c)[i] = times[i]
  BY <1>1, AppendProperties
<1>3. PICK later : later = Append(times, c)
  OBVIOUS
<1>4. ASSUME NEW i \in 1 .. (m + 1) - limit
      PROVE  later[i + limit] - later[i] >= Window - MaxSkew
  <2>1. CASE i + limit = m + 1
    <3>1. i \in 1 .. m - k /\ i \in 1 .. m
      BY <1>1, <2>1
    <3>2. c - times[i] >= Window - MaxSkew
      BY <1>1, <3>1 DEF Tracks
    <3> QED
      BY <1>2, <1>3, <2>1, <3>1, <3>2
  <2>2. CASE i + limit # m + 1
    <3>1. i \in 1 .. m - limit /\ i \in 1 .. m /\ i + limit \in 1 .. m
      BY <2>2
    <3>2. times[i + limit] - times[i] >= Window - MaxSkew
      BY <1>1, <3>1 DEF Spaced
    <3> QED
      BY <1>2, <1>3, <3>1, <3>2
  <2> QED
    BY <2>1, <2>2
<1> QED
  BY <1>2, <1>3, <1>4 DEF Spaced

-----------------------------------------------------------------------------
(* The inductive invariant of the throttle *)

ThrottleTypeOK ==
  /\ clock \in Nat
  /\ IsLimiter(client, Addresses) /\ IsLimiter(shared, {Shared})
  /\ pc \in [Threads -> {"idle", "client", "between", "shared"}]
  /\ from \in [Threads -> Addresses \cup {NoAddress}]
  /\ read \in [Threads -> Nat]
  /\ passed \in [Addresses -> Seq(Nat)]
  /\ entered \in [Addresses -> Seq(Nat)]

(* A thread waits for a lock no longer than MaxSkew.                       *)
WaitsShort ==
  \A t \in Threads :
    /\ pc[t] # "idle" => from[t] \in Addresses
    /\ pc[t] \in {"client", "shared"} => read[t] <= clock /\ clock <= read[t] + MaxSkew

ClientTracked ==
  \A a \in Addresses : /\ Tracks(Deque(client, a), passed[a], clock)
                       /\ Spaced(passed[a], ClientLimit)

(* All that entered, of whatever address, in the order of entering.        *)
Merges(ent, who, place, times) ==
  /\ Len(who) = Len(times) /\ Len(place) = Len(times)
  /\ \A i \in 1 .. Len(times) :
       place[i] \in 1 .. Len(ent[who[i]]) /\ times[i] = ent[who[i]][place[i]]
  /\ \A i, j \in 1 .. Len(times) : who[i] = who[j] /\ place[i] = place[j] => i = j
  /\ \A a \in Addresses : \A n \in 1 .. Len(ent[a]) :
       \E i \in 1 .. Len(times) : who[i] = a /\ place[i] = n

SharedTracked ==
  \E who \in Seq(Addresses), place \in Seq(Nat), times \in Seq(Nat) :
    /\ Merges(entered, who, place, times)
    /\ Tracks(Deque(shared, Shared), times, clock)
    /\ Spaced(times, SharedLimit)

(* The requests of an address that have passed and may yet enter.          *)
InFlight(a) == {t \in Threads : pc[t] \in {"between", "shared"} /\ from[t] = a}

(* What entered after the i-th of ent, itself included, and the f requests *)
(* that may yet enter have passed since, but for as many as there are      *)
(* threads.                                                                *)
Follow(ent, pas, f, i) ==
  \E p \in 0 .. Len(pas) :
    /\ \A k \in p + 1 .. Len(pas) : ent[i] <= pas[k]
    /\ Len(ent) - i + 1 + f <= Len(pas) - p + Cardinality(Threads)

RoomLeft ==
  \A a \in Addresses :
    /\ \A i \in 1 .. Len(entered[a]) :
         entered[a][i] <= clock /\ Follow(entered[a], passed[a], Cardinality(InFlight(a)), i)
    /\ Spaced(entered[a], ClientLimit + Cardinality(Threads))

(* A key that is remembered was let through since a window before the last *)
(* sweep.                                                                  *)
Remembered ==
  /\ client.forgot <= clock
  /\ \A a \in DOMAIN client.hits :
       client.hits[a] # <<>> /\ passed[a][Len(passed[a])] > client.forgot - Window

ThrottleInv == /\ ThrottleTypeOK /\ WaitsShort /\ ClientTracked
               /\ SharedTracked /\ RoomLeft /\ Remembered

-----------------------------------------------------------------------------
(* One check *)

(* A check keeps the record of its key.                                    *)
LEMMA CheckTracks ==
  ASSUME NEW K, NEW lim, IsLimiter(lim, K), NEW k \in K, NEW t \in Nat, NEW limit \in Nat \ {0},
         NEW c \in Nat, t <= c, c <= t + MaxSkew,
         NEW times \in Seq(Nat), Tracks(Deque(lim, k), times, c), Spaced(times, limit)
  PROVE  LET out == Checked(lim, k, t, limit) IN
         /\ Allowed(lim, k, t, limit) =>
              Tracks(Deque(out, k), Append(times, c), c) /\ Spaced(Append(times, c), limit)
         /\ ~Allowed(lim, k, t, limit) => Tracks(Deque(out, k), times, c)
<1> DEFINE h == Deque(lim, k)
           out == Checked(lim, k, t, limit)
<1>1. h \in Seq(Nat)
  BY EmptySeq DEF Deque, IsLimiter
<1>0. Arrives(lim, k, t, Arrived(lim, k, t))
      /\ Checks(lim, k, t, limit, Arrived(lim, k, t), out)
  BY CheckedOK
<1>2. PICK n \in 0 .. Len(h) :
         /\ \A i \in 1 .. n : t - h[i] >= Window
         /\ Allowed(lim, k, t, limit) <=> Len(h) - n < limit
         /\ out.hits[k] = IF Allowed(lim, k, t, limit) THEN Append(SubSeq(h, n + 1, Len(h)), t)
                          ELSE SubSeq(h, n + 1, Len(h))
  BY <1>0 DEF Checks
<1>3. Deque(out, k) = out.hits[k]
  <2>1. k \in DOMAIN out.hits
    BY <1>0 DEF Arrives, Checks
  <2> QED
    BY <2>1 DEF Deque
<1> HIDE DEF out, h
<1>4. PICK g : g = SubSeq(h, n + 1, Len(h))
  OBVIOUS
<1>5. g \in Seq(Nat) /\ Len(g) = Len(h) - n /\ Tracks(g, times, c)
  <2>1. Tracks(h, times, c)
    BY DEF h
  <2> QED
    <3>1. /\ SubSeq(h, n + 1, Len(h)) \in Seq(Nat)
          /\ Len(SubSeq(h, n + 1, Len(h))) = Len(h) - n
          /\ Tracks(SubSeq(h, n + 1, Len(h)), times, c)
      BY <1>1, <1>2, <2>1, TracksDropped
    <3> QED
      BY <1>4, <3>1
<1>6. Tracks(Append(g, t), Append(times, c), c)
  BY <1>5, TracksNew
<1>7. Len(g) < limit => Spaced(Append(times, c), limit)
  BY <1>5, SpacedNew
<1>8. Allowed(lim, k, t, limit) => Deque(out, k) = Append(g, t) /\ Len(g) < limit
  BY <1>2, <1>3, <1>4, <1>5
<1>9. ~Allowed(lim, k, t, limit) => Deque(out, k) = g
  BY <1>2, <1>3, <1>4
<1> QED
  BY <1>5, <1>6, <1>7, <1>8, <1>9 DEF out

(* And those of the others, which it may forget.                           *)
LEMMA CheckOthers ==
  ASSUME NEW K, NEW lim, IsLimiter(lim, K), NEW k \in K, NEW t \in Nat, NEW limit \in Nat \ {0},
         NEW c \in Nat, t <= c, NEW j \in K \ {k},
         NEW times \in Seq(Nat), Tracks(Deque(lim, j), times, c)
  PROVE  Tracks(Deque(Checked(lim, k, t, limit), j), times, c)
<1> DEFINE out == Checked(lim, k, t, limit)
           in == Arrived(lim, k, t)
<1>0. Arrives(lim, k, t, in) /\ Checks(lim, k, t, limit, in, out)
  BY CheckedOK
<1> HIDE DEF out, in
<1>1. /\ DOMAIN out.hits = DOMAIN in.hits
      /\ \A i \in DOMAIN in.hits \ {k} : out.hits[i] = in.hits[i]
  BY <1>0 DEF Checks
<1>2. /\ \A i \in DOMAIN in.hits \ {k} : i \in DOMAIN lim.hits /\ in.hits[i] = lim.hits[i]
      /\ k \in DOMAIN lim.hits => in = lim
      /\ k \notin DOMAIN lim.hits /\ ~SweepDue(lim, t) => DOMAIN in.hits = DOMAIN lim.hits \cup {k}
      /\ k \notin DOMAIN lim.hits /\ SweepDue(lim, t) =>
           \A i \in DOMAIN lim.hits : i \in DOMAIN in.hits <=> ~IdleKey(lim.hits[i], t)
  BY <1>0 DEF Arrives
<1>3. CASE j \in DOMAIN out.hits
  BY <1>1, <1>2, <1>3 DEF Deque, out
<1>4. CASE j \notin DOMAIN out.hits /\ j \notin DOMAIN lim.hits
  BY <1>4 DEF Deque, out
<1>5. CASE j \notin DOMAIN out.hits /\ j \in DOMAIN lim.hits
  <2>1. IdleKey(lim.hits[j], t)
    BY <1>1, <1>2, <1>5
  <2>2. lim.hits[j] \in Seq(Nat) /\ Deque(lim, j) = lim.hits[j] /\ Deque(out, j) = <<>>
    BY <1>5 DEF IsLimiter, Deque
  <2>3. Tracks(<<>>, times, c)
    BY <2>1, <2>2, TracksForgotten
  <2> QED
    BY <2>2, <2>3 DEF out
<1> QED
  BY <1>3, <1>4, <1>5

(* A refusal finds as many hits as the limit that are not a window old.    *)
LEMMA RefusedFull ==
  ASSUME NEW K, NEW lim, IsLimiter(lim, K), NEW k \in K, NEW t \in Nat, NEW limit \in Nat \ {0},
         ~Allowed(lim, k, t, limit),
         NEW c \in Nat, NEW times \in Seq(Nat), Tracks(Deque(lim, k), times, c)
  PROVE  Cardinality({i \in DOMAIN times : times[i] > t - Window}) >= limit
<1> DEFINE h == Deque(lim, k)
           late == {i \in DOMAIN times : times[i] > t - Window}
<1>1. h \in Seq(Nat)
  BY EmptySeq DEF Deque, IsLimiter
<1>2. PICK n \in 0 .. Len(h) :
         /\ n < Len(h) => t - h[n + 1] < Window
         /\ Allowed(lim, k, t, limit) <=> Len(h) - n < limit
  <2>1. Checks(lim, k, t, limit, Arrived(lim, k, t), Checked(lim, k, t, limit))
    BY CheckedOK
  <2> QED
    BY <2>1 DEF Checks
<1>3. PICK l \in Nat, m \in Nat :
         l = Len(h) /\ m = Len(times) /\ DOMAIN times = 1 .. m
         /\ (\A i \in 1 .. l : h[i] \in Nat) /\ (\A i \in 1 .. m : times[i] \in Nat)
  BY <1>1, LenProperties, ElementOfSeq
<1>4. Tracks(h, times, c)
  OBVIOUS
<1> HIDE DEF h, late
<1>5. l - n >= limit /\ n < l /\ n \in Nat /\ l <= m
  BY <1>2, <1>3, <1>4 DEF Tracks
<1>6. PICK first \in 1 .. m : first = m - l + n + 1
  BY <1>5
<1>7. times[first] > t - Window
  <2>1. n + 1 \in 1 .. l /\ m - l + (n + 1) = first
    BY <1>5, <1>6
  <2>2. h[n + 1] <= times[m - l + (n + 1)]
    BY <1>3, <1>4, <2>1 DEF Tracks
  <2>3. PICK x \in Nat, y \in Nat : x = h[n + 1] /\ y = times[first]
    BY <1>3, <1>6, <2>1
  <2>4. x <= y /\ t - x < Window
    BY <1>2, <1>3, <1>5, <2>1, <2>2, <2>3
  <2> QED
    BY <2>3, <2>4, WindowOK
<1>8. first .. m \subseteq late
  <2> SUFFICES ASSUME NEW i \in first .. m PROVE i \in late
    OBVIOUS
  <2>1. i \in 1 .. m
    BY <1>6
  <2>2. times[first] <= times[i]
    <3>1. \A a, b \in 1 .. m : a <= b => times[a] <= times[b]
      BY <1>3, <1>4 DEF Tracks
    <3> QED
      BY <2>1, <3>1
  <2>3. PICK x \in Nat, y \in Nat : x = times[first] /\ y = times[i]
    BY <1>3, <1>6, <2>1
  <2>4. y > t - Window
    BY <1>7, <2>2, <2>3, WindowOK
  <2> QED
    BY <1>3, <2>1, <2>3, <2>4 DEF late
<1>9. IsFiniteSet(late)
  <2>1. late \subseteq 1 .. m
    BY <1>3 DEF late
  <2>2. IsFiniteSet(1 .. m)
    BY FS_Interval
  <2> QED
    BY <2>1, <2>2, FS_Subset
<1>10. Cardinality(first .. m) <= Cardinality(late) /\ Cardinality(late) \in Nat
  BY <1>8, <1>9, FS_Subset, FS_CardinalityType
<1>11. Cardinality(first .. m) = m - first + 1
  BY <1>6, FS_Interval
<1>12. Cardinality(late) >= limit
  BY <1>5, <1>6, <1>10, <1>11
<1> QED
  BY <1>12 DEF late

-----------------------------------------------------------------------------
(* The steps *)

LEMMA ThrottleStarts == ThrottleInit => ThrottleInv
<1> SUFFICES ASSUME ThrottleInit PROVE ThrottleInv
  OBVIOUS
<1>1. <<>> \in Seq(Nat) /\ <<>> \in Seq(Addresses) /\ Len(<<>>) = 0
  BY EmptySeq
<1>2. \A K : IsLimiter(NewLimiter, K) /\ \A k : Deque(NewLimiter, k) = <<>>
  BY NewLimiterOK
<1>3. ThrottleTypeOK /\ WaitsShort
  BY <1>1, <1>2 DEF ThrottleInit, ThrottleTypeOK, WaitsShort
<1>4. \A c \in Nat : Tracks(<<>>, <<>>, c)
  BY <1>1 DEF Tracks
<1>5. \A n \in Nat : Spaced(<<>>, n)
  BY <1>1 DEF Spaced
<1>6. ClientTracked
  BY <1>2, <1>4, <1>5, LimitsOK DEF ThrottleInit, ClientTracked
<1>7. SharedTracked
  <2>1. Merges(entered, <<>>, <<>>, <<>>)
    BY <1>1 DEF ThrottleInit, Merges
  <2>2. Tracks(Deque(shared, Shared), <<>>, clock) /\ Spaced(<<>>, SharedLimit)
    BY <1>2, <1>4, <1>5, LimitsOK DEF ThrottleInit
  <2> QED
    BY <1>1, <2>1, <2>2 DEF SharedTracked
<1>8. RoomLeft
  <2>1. ClientLimit + Cardinality(Threads) \in Nat
    BY LimitsOK, ThreadsAssumption, FS_CardinalityType
  <2> QED
    BY <1>1, <1>5, <2>1 DEF ThrottleInit, RoomLeft
<1>9. Remembered
  <2>1. DOMAIN <<>> = {}
    BY <1>1, LenProperties
  <2>2. client.hits = <<>> /\ client.forgot = -Window /\ clock = 0
    BY DEF ThrottleInit, NewLimiter
  <2> QED
    BY <2>1, <2>2, WindowOK DEF Remembered
<1> QED
  BY <1>3, <1>6, <1>7, <1>8, <1>9 DEF ThrottleInv

LEMMA ThrottleTypeStep ==
  ASSUME ThrottleTypeOK, WaitsShort, ThrottleNext
  PROVE  ThrottleTypeOK' /\ WaitsShort'
<1> USE DEF ThrottleTypeOK, WaitsShort
<1>1. ASSUME NEW t \in Threads, NEW a \in Addresses, Arrive(t, a)
      PROVE  ThrottleTypeOK' /\ WaitsShort'
  BY <1>1, LimitsOK DEF Arrive, ReadClock, limiters, history
<1>2. ASSUME NEW t \in Threads, CheckClient(t) PROVE ThrottleTypeOK' /\ WaitsShort'
  <2>1. IsLimiter(client, Addresses) /\ from[t] \in Addresses /\ read[t] \in Nat
        /\ ClientLimit \in Nat \ {0}
    BY <1>2, LimitsOK DEF CheckClient
  <2>2. IsLimiter(Checked(client, from[t], read[t], ClientLimit), Addresses)
    BY <2>1, CheckedOK
  <2>3. IsLimiter(client', Addresses) /\ UNCHANGED <<clock, shared, entered>>
    BY <1>2, <2>2 DEF CheckClient
  <2>4. CASE Answer(t) /\ UNCHANGED passed
    BY <2>3, <2>4 DEF Answer
  <2>5. CASE /\ pc' = [pc EXCEPT ![t] = "between"]
             /\ passed' = [passed EXCEPT ![from[t]] = Append(@, clock)]
             /\ UNCHANGED <<from, read>>
    <3>1. Append(passed[from[t]], clock) \in Seq(Nat)
      BY <2>1, AppendProperties
    <3>2. passed' \in [Addresses -> Seq(Nat)]
      BY <2>1, <2>5, <3>1
    <3> QED
      BY <2>1, <2>3, <2>5, <3>2
  <2> QED
    BY <1>2, <2>4, <2>5 DEF CheckClient
<1>3. ASSUME NEW t \in Threads, Proceed(t) PROVE ThrottleTypeOK' /\ WaitsShort'
  BY <1>3, LimitsOK DEF Proceed, ReadClock, limiters, history
<1>4. ASSUME NEW t \in Threads, CheckShared(t) PROVE ThrottleTypeOK' /\ WaitsShort'
  <2>1. IsLimiter(shared, {Shared}) /\ from[t] \in Addresses /\ read[t] \in Nat
        /\ SharedLimit \in Nat \ {0} /\ Shared \in {Shared}
    BY <1>4, LimitsOK DEF CheckShared
  <2>2. IsLimiter(Checked(shared, Shared, read[t], SharedLimit), {Shared})
    BY <2>1, CheckedOK
  <2>3. IsLimiter(shared', {Shared}) /\ UNCHANGED <<clock, client, passed>> /\ Answer(t)
    BY <1>4, <2>2 DEF CheckShared
  <2>4. Append(entered[from[t]], clock) \in Seq(Nat)
    BY <2>1, AppendProperties
  <2>5. entered' \in [Addresses -> Seq(Nat)]
    BY <1>4, <2>1, <2>4 DEF CheckShared
  <2> QED
    BY <2>3, <2>5 DEF Answer
<1>5. ASSUME TimePasses PROVE ThrottleTypeOK' /\ WaitsShort'
  BY <1>5, LimitsOK DEF TimePasses, limiters, requests, history
<1> QED
  BY <1>1, <1>2, <1>3, <1>4, <1>5 DEF ThrottleNext

LEMMA ClientTrackedStep ==
  ASSUME ThrottleTypeOK, WaitsShort, ClientTracked, ThrottleNext
  PROVE  ClientTracked'
<1> SUFFICES ASSUME NEW a \in Addresses
             PROVE  Tracks(Deque(client', a), passed'[a], clock') /\ Spaced(passed'[a], ClientLimit)
  BY DEF ClientTracked
<1>0. /\ Tracks(Deque(client, a), passed[a], clock) /\ Spaced(passed[a], ClientLimit)
      /\ passed[a] \in Seq(Nat) /\ clock \in Nat
  BY DEF ClientTracked, ThrottleTypeOK
<1>1. CASE UNCHANGED <<clock, client, passed>>
  BY <1>0, <1>1
<1>2. CASE TimePasses
  <2>1. UNCHANGED <<client, passed>> /\ clock' \in Nat /\ clock <= clock'
    BY <1>0, <1>2 DEF TimePasses, limiters, history
  <2>2. Deque(client, a) \in Seq(Nat)
    BY EmptySeq DEF ThrottleTypeOK, IsLimiter, Deque
  <2>3. Tracks(Deque(client, a), passed[a], clock')
    BY <1>0, <2>1, <2>2, TracksLater
  <2> QED
    BY <1>0, <2>1, <2>3
<1>3. ASSUME NEW t \in Threads, CheckClient(t)
      PROVE  Tracks(Deque(client', a), passed'[a], clock') /\ Spaced(passed'[a], ClientLimit)
  <2>1. /\ IsLimiter(client, Addresses) /\ from[t] \in Addresses /\ read[t] \in Nat
        /\ ClientLimit \in Nat \ {0} /\ read[t] <= clock /\ clock <= read[t] + MaxSkew
    BY <1>3, LimitsOK DEF CheckClient, ThrottleTypeOK, WaitsShort
  <2>2. client' = Checked(client, from[t], read[t], ClientLimit) /\ clock' = clock
    BY <1>3 DEF CheckClient
  <2>3. CASE a # from[t]
    <3>1. passed'[a] = passed[a]
      BY <1>3, <2>3 DEF CheckClient, ThrottleTypeOK
    <3>2. a \in Addresses \ {from[t]}
      BY <2>3
    <3>3. Tracks(Deque(client', a), passed[a], clock)
      BY <1>0, <2>1, <2>2, <3>2, CheckOthers
    <3> QED
      BY <1>0, <2>2, <3>1, <3>3
  <2>4. CASE a = from[t]
    <3>1. /\ Allowed(client, a, read[t], ClientLimit) =>
               Tracks(Deque(client', a), Append(passed[a], clock), clock)
               /\ Spaced(Append(passed[a], clock), ClientLimit)
          /\ ~Allowed(client, a, read[t], ClientLimit) => Tracks(Deque(client', a), passed[a], clock)
      BY <1>0, <2>1, <2>2, <2>4, CheckTracks
    <3>2. \/ Allowed(client, a, read[t], ClientLimit) /\ passed'[a] = Append(passed[a], clock)
          \/ ~Allowed(client, a, read[t], ClientLimit) /\ passed'[a] = passed[a]
      BY <1>3, <2>4 DEF CheckClient, ThrottleTypeOK
    <3> QED
      BY <1>0, <2>2, <3>1, <3>2
  <2> QED
    BY <2>3, <2>4
<1> QED
  BY <1>1, <1>2, <1>3 DEF ThrottleNext, Arrive, Proceed, CheckShared, limiters, history

(* One more enters. *)
LEMMA MergesOneMore ==
  ASSUME NEW ent \in [Addresses -> Seq(Nat)], NEW who \in Seq(Addresses), NEW place \in Seq(Nat),
         NEW times \in Seq(Nat), Merges(ent, who, place, times),
         NEW a \in Addresses, NEW c \in Nat,
         NEW new, new = [ent EXCEPT ![a] = Append(@, c)]
  PROVE  Merges(new, Append(who, a), Append(place, Len(ent[a]) + 1), Append(times, c))
<1>1. PICK m \in Nat, l \in Nat : m = Len(times) /\ l = Len(ent[a])
  BY LenProperties
<1>2. /\ Len(who) = m /\ Len(place) = m
      /\ \A i \in 1 .. m : place[i] \in 1 .. Len(ent[who[i]]) /\ times[i] = ent[who[i]][place[i]]
      /\ \A i, j \in 1 .. m : who[i] = who[j] /\ place[i] = place[j] => i = j
      /\ \A b \in Addresses : \A n \in 1 .. Len(ent[b]) :
           \E i \in 1 .. m : who[i] = b /\ place[i] = n
  BY <1>1 DEF Merges
<1>3. PICK w, p, x : w = Append(who, a) /\ p = Append(place, l + 1) /\ x = Append(times, c)
  OBVIOUS
<1>4. /\ Len(w) = m + 1 /\ w[m + 1] = a
      /\ \A i \in 1 .. m : w[i] = who[i] /\ w[i] \in Addresses
  <2>1. \A i \in 1 .. m : who[i] \in Addresses
    BY <1>2, ElementOfSeq
  <2>2. /\ Len(w) = Len(who) + 1 /\ w[Len(who) + 1] = a
        /\ \A i \in 1 .. Len(who) : w[i] = who[i]
    BY <1>3, AppendProperties
  <2> QED
    BY <1>2, <2>1, <2>2
<1>5. /\ Len(p) = m + 1 /\ p[m + 1] = l + 1
      /\ \A i \in 1 .. m : p[i] = place[i] /\ p[i] \in Nat
  <2>1. \A i \in 1 .. m : place[i] \in Nat
    BY <1>2, ElementOfSeq
  <2>2. /\ Len(p) = Len(place) + 1 /\ p[Len(place) + 1] = l + 1
        /\ \A i \in 1 .. Len(place) : p[i] = place[i]
    <3>1. l + 1 \in Nat
      BY <1>1
    <3> QED
      BY <1>3, <3>1, AppendProperties
  <2> QED
    BY <1>2, <2>1, <2>2
<1>6. /\ Len(x) = m + 1 /\ x[m + 1] = c
      /\ \A i \in 1 .. m : x[i] = times[i]
  BY <1>1, <1>3, AppendProperties
<1>7. /\ Len(new[a]) = l + 1 /\ new[a][l + 1] = c
      /\ \A i \in 1 .. l : new[a][i] = ent[a][i]
      /\ \A b \in Addresses \ {a} : new[b] = ent[b]
  <2>1. new[a] = Append(ent[a], c) /\ \A b \in Addresses \ {a} : new[b] = ent[b]
    OBVIOUS
  <2>2. ent[a] \in Seq(Nat)
    OBVIOUS
  <2> QED
    BY <1>1, <2>1, <2>2, AppendProperties
<1>8. ASSUME NEW i \in 1 .. m + 1
      PROVE  p[i] \in 1 .. Len(new[w[i]]) /\ x[i] = new[w[i]][p[i]]
  <2>1. CASE i = m + 1
    BY <1>4, <1>5, <1>6, <1>7, <2>1
  <2>2. CASE i \in 1 .. m
    <3>1. /\ p[i] = place[i] /\ x[i] = times[i] /\ w[i] = who[i] /\ w[i] \in Addresses
          /\ place[i] \in 1 .. Len(ent[who[i]]) /\ times[i] = ent[who[i]][place[i]]
      BY <1>2, <1>4, <1>5, <1>6, <2>2
    <3>2. CASE w[i] = a
      BY <1>1, <1>7, <3>1, <3>2
    <3>3. CASE w[i] # a
      BY <1>7, <3>1, <3>3
    <3> QED
      BY <3>2, <3>3
  <2>3. i = m + 1 \/ i \in 1 .. m
    BY <1>1
  <2> QED
    BY <2>1, <2>2, <2>3
<1>9. ASSUME NEW i \in 1 .. m + 1, NEW j \in 1 .. m + 1, w[i] = w[j], p[i] = p[j]
      PROVE  i = j
  <2>1. \A k \in 1 .. m : w[k] = a => p[k] # l + 1
    <3> SUFFICES ASSUME NEW k \in 1 .. m, w[k] = a, p[k] = l + 1 PROVE FALSE
      OBVIOUS
    <3>1. who[k] = a /\ place[k] = l + 1 /\ place[k] \in 1 .. Len(ent[who[k]])
      BY <1>2, <1>4, <1>5
    <3> QED
      BY <1>1, <3>1
  <2>2. CASE i = m + 1 \/ j = m + 1
    BY <1>4, <1>5, <1>9, <2>1, <2>2
  <2>3. CASE i \in 1 .. m /\ j \in 1 .. m
    BY <1>2, <1>4, <1>5, <1>9, <2>3
  <2> QED
    BY <2>2, <2>3
<1>10. ASSUME NEW b \in Addresses, NEW n \in 1 .. Len(new[b])
       PROVE  \E i \in 1 .. m + 1 : w[i] = b /\ p[i] = n
  <2>1. CASE b = a /\ n = l + 1
    BY <1>4, <1>5, <2>1
  <2>2. CASE ~(b = a /\ n = l + 1)
    <3>1. n \in 1 .. Len(ent[b])
      <4>1. CASE b = a
        <5>1. n \in 1 .. l + 1 /\ n # l + 1
          BY <1>7, <2>2, <4>1
        <5>2. n \in 1 .. l
          BY <1>1, <5>1
        <5>3. Len(ent[b]) = l
          BY <1>1, <4>1
        <5> QED
          BY <5>2, <5>3
      <4>2. CASE b # a
        BY <1>7, <4>2
      <4> QED
        BY <4>1, <4>2
    <3>2. PICK i \in 1 .. m : who[i] = b /\ place[i] = n
      BY <1>2, <3>1
    <3> QED
      BY <1>4, <1>5, <3>2
  <2> QED
    BY <2>1, <2>2
<1>11. Merges(new, w, p, x)
  <2>1. PICK k \in Nat : k = m + 1
    OBVIOUS
  <2>2. Len(w) = Len(x) /\ Len(p) = Len(x) /\ Len(x) = k
    BY <1>4, <1>5, <1>6, <2>1
  <2>3. \A i \in 1 .. k : p[i] \in 1 .. Len(new[w[i]]) /\ x[i] = new[w[i]][p[i]]
    BY <1>8, <2>1
  <2>4. \A i, j \in 1 .. k : w[i] = w[j] /\ p[i] = p[j] => i = j
    BY <1>9, <2>1
  <2>5. \A b \in Addresses : \A n \in 1 .. Len(new[b]) : \E i \in 1 .. k : w[i] = b /\ p[i] = n
    BY <1>10, <2>1
  <2> QED
    BY <2>2, <2>3, <2>4, <2>5 DEF Merges
<1> QED
  BY <1>1, <1>3, <1>11

LEMMA SharedTrackedStep ==
  ASSUME ThrottleTypeOK, WaitsShort, SharedTracked, ThrottleNext
  PROVE  SharedTracked'
<1>1. PICK who \in Seq(Addresses), place \in Seq(Nat), times \in Seq(Nat) :
         /\ Merges(entered, who, place, times)
         /\ Tracks(Deque(shared, Shared), times, clock)
         /\ Spaced(times, SharedLimit)
  BY DEF SharedTracked
<1>2. CASE UNCHANGED <<clock, shared, entered>>
  BY <1>1, <1>2 DEF SharedTracked
<1>3. CASE TimePasses
  <2>1. UNCHANGED <<shared, entered>> /\ clock \in Nat /\ clock' \in Nat /\ clock <= clock'
    BY <1>3 DEF TimePasses, limiters, history, ThrottleTypeOK
  <2>2. Deque(shared, Shared) \in Seq(Nat)
    BY EmptySeq DEF ThrottleTypeOK, IsLimiter, Deque
  <2>3. Tracks(Deque(shared, Shared), times, clock')
    BY <1>1, <2>1, <2>2, TracksLater
  <2> QED
    BY <1>1, <2>1, <2>3 DEF SharedTracked
<1>4. ASSUME NEW t \in Threads, CheckShared(t) PROVE SharedTracked'
  <2>1. /\ IsLimiter(shared, {Shared}) /\ from[t] \in Addresses /\ read[t] \in Nat
        /\ SharedLimit \in Nat \ {0} /\ read[t] <= clock /\ clock <= read[t] + MaxSkew
        /\ clock \in Nat /\ Shared \in {Shared} /\ entered \in [Addresses -> Seq(Nat)]
    BY <1>4, LimitsOK DEF CheckShared, ThrottleTypeOK, WaitsShort
  <2>2. shared' = Checked(shared, Shared, read[t], SharedLimit) /\ clock' = clock
    BY <1>4 DEF CheckShared
  <2>3. /\ Allowed(shared, Shared, read[t], SharedLimit) =>
             Tracks(Deque(shared', Shared), Append(times, clock), clock)
             /\ Spaced(Append(times, clock), SharedLimit)
        /\ ~Allowed(shared, Shared, read[t], SharedLimit) => Tracks(Deque(shared', Shared), times, clock)
    BY <1>1, <2>1, <2>2, CheckTracks
  <2>4. CASE Allowed(shared, Shared, read[t], SharedLimit)
    <3>1. PICK a \in Addresses : a = from[t]
      BY <2>1
    <3>2. entered' = [entered EXCEPT ![a] = Append(@, clock)]
      BY <1>4, <2>4, <3>1 DEF CheckShared
    <3>3. Merges(entered', Append(who, a), Append(place, Len(entered[a]) + 1), Append(times, clock))
      BY <1>1, <2>1, <3>2, MergesOneMore
    <3>4. entered[a] \in Seq(Nat) /\ Len(entered[a]) + 1 \in Nat
      BY <2>1, LenProperties
    <3>5. /\ Append(who, a) \in Seq(Addresses) /\ Append(place, Len(entered[a]) + 1) \in Seq(Nat)
          /\ Append(times, clock) \in Seq(Nat)
      BY <1>1, <2>1, <3>4, AppendProperties
    <3> QED
      BY <2>2, <2>3, <2>4, <3>3, <3>5 DEF SharedTracked
  <2>5. CASE ~Allowed(shared, Shared, read[t], SharedLimit)
    <3>1. entered' = entered
      BY <1>4, <2>5 DEF CheckShared
    <3> QED
      BY <1>1, <2>2, <2>3, <2>5, <3>1 DEF SharedTracked
  <2> QED
    BY <2>4, <2>5
<1> QED
  BY <1>2, <1>3, <1>4 DEF ThrottleNext, Arrive, Proceed, CheckClient, limiters, history

(* The three ways in which what may follow an entry changes: a request     *)
(* that ends, one that passes, one that enters.                            *)
LEMMA FollowEnds ==
  ASSUME NEW ent \in Seq(Nat), NEW pas \in Seq(Nat), NEW f \in Nat, NEW g \in Nat, g <= f,
         NEW i \in 1 .. Len(ent), Follow(ent, pas, f, i)
  PROVE  Follow(ent, pas, g, i)
<1>1. PICK m \in Nat, l \in Nat : m = Len(pas) /\ l = Len(ent)
  BY LenProperties
<1>2. PICK n \in Nat : n = Cardinality(Threads)
  BY ThreadsAssumption, FS_CardinalityType
<1>3. PICK p \in 0 .. m : /\ \A k \in p + 1 .. m : ent[i] <= pas[k]
                          /\ l - i + 1 + f <= m - p + n
  BY <1>1, <1>2 DEF Follow
<1>4. l - i + 1 + g <= m - p + n
  BY <1>1, <1>3
<1> QED
  BY <1>1, <1>2, <1>3, <1>4 DEF Follow

LEMMA FollowPasses ==
  ASSUME NEW ent \in Seq(Nat), NEW pas \in Seq(Nat), NEW f \in Nat, NEW c \in Nat,
         NEW i \in 1 .. Len(ent), ent[i] <= c, Follow(ent, pas, f, i)
  PROVE  Follow(ent, Append(pas, c), f + 1, i)
<1>1. PICK m \in Nat, l \in Nat : m = Len(pas) /\ l = Len(ent)
  BY LenProperties
<1>2. PICK n \in Nat : n = Cardinality(Threads)
  BY ThreadsAssumption, FS_CardinalityType
<1>3. PICK p \in 0 .. m : /\ \A k \in p + 1 .. m : ent[i] <= pas[k]
                          /\ l - i + 1 + f <= m - p + n
  BY <1>1, <1>2 DEF Follow
<1>4. PICK M \in Nat, x \in Seq(Nat) : x = Append(pas, c) /\ M = m + 1
  <2>1. Append(pas, c) \in Seq(Nat) /\ m + 1 \in Nat
    BY <1>1, AppendProperties
  <2> QED
    BY <2>1
<1>5. Len(x) = M /\ x[M] = c /\ \A k \in 1 .. m : x[k] = pas[k]
  BY <1>1, <1>4, AppendProperties
<1>6. \A k \in p + 1 .. M : ent[i] <= x[k]
  <2> TAKE k \in p + 1 .. M
  <2>1. CASE k = M
    BY <1>5, <2>1
  <2>2. CASE k # M
    <3>1. k \in p + 1 .. m /\ k \in 1 .. m
      BY <1>3, <1>4, <2>2
    <3> QED
      BY <1>3, <1>5, <3>1
  <2> QED
    BY <2>1, <2>2
<1>7. l - i + 1 + (f + 1) <= M - p + n /\ p \in 0 .. M
  BY <1>1, <1>3, <1>4
<1>8. Follow(ent, x, f + 1, i)
  BY <1>1, <1>2, <1>5, <1>6, <1>7 DEF Follow
<1> QED
  BY <1>4, <1>8

LEMMA FollowEnters ==
  ASSUME NEW ent \in Seq(Nat), NEW pas \in Seq(Nat), NEW f \in Nat \ {0}, NEW c \in Nat,
         f <= Cardinality(Threads), NEW i \in 1 .. Len(ent) + 1,
         i \in 1 .. Len(ent) => Follow(ent, pas, f, i)
  PROVE  Follow(Append(ent, c), pas, f - 1, i)
<1>1. PICK m \in Nat, l \in Nat : m = Len(pas) /\ l = Len(ent)
  BY LenProperties
<1>2. PICK n \in Nat : n = Cardinality(Threads)
  BY ThreadsAssumption, FS_CardinalityType
<1>3. PICK M \in Nat, x \in Seq(Nat) : x = Append(ent, c) /\ M = l + 1
  <2>1. Append(ent, c) \in Seq(Nat) /\ l + 1 \in Nat
    BY <1>1, AppendProperties
  <2> QED
    BY <2>1
<1>4. Len(x) = M /\ x[M] = c /\ \A k \in 1 .. l : x[k] = ent[k]
  BY <1>1, <1>3, AppendProperties
<1>5. CASE i = M
  <2>1. M - i + 1 + (f - 1) <= m - m + n
    BY <1>2, <1>3, <1>5
  <2>2. m \in 0 .. m /\ \A k \in m + 1 .. m : x[i] <= pas[k]
    BY <1>1
  <2>3. Follow(x, pas, f - 1, i)
    BY <1>1, <1>2, <1>4, <2>1, <2>2 DEF Follow
  <2> QED
    BY <1>3, <2>3
<1>6. CASE i \in 1 .. l
  <2>1. PICK p \in 0 .. m : /\ \A k \in p + 1 .. m : ent[i] <= pas[k]
                            /\ l - i + 1 + f <= m - p + n
    BY <1>1, <1>2, <1>6 DEF Follow
  <2>2. M - i + 1 + (f - 1) <= m - p + n
    BY <1>1, <1>3, <1>6, <2>1
  <2>3. \A k \in p + 1 .. m : x[i] <= pas[k]
    BY <1>4, <1>6, <2>1
  <2>4. Follow(x, pas, f - 1, i)
    BY <1>1, <1>2, <1>4, <2>1, <2>2, <2>3 DEF Follow
  <2> QED
    BY <1>3, <2>4
<1>7. i = M \/ i \in 1 .. l
  BY <1>1, <1>3
<1> QED
  BY <1>5, <1>6, <1>7

(* Entries as many apart as the limit and the threads have the limit of    *)
(* passes between them.                                                    *)
LEMMA SpacedEnters ==
  ASSUME NEW ent \in Seq(Nat), NEW pas \in Seq(Nat), NEW f \in Nat \ {0}, NEW c \in Nat,
         NEW limit \in Nat \ {0}, Spaced(pas, limit),
         Spaced(ent, limit + Cardinality(Threads)),
         \A k \in 1 .. Len(pas) : pas[k] <= c,
         \A i \in 1 .. Len(ent) : Follow(ent, pas, f, i)
  PROVE  Spaced(Append(ent, c), limit + Cardinality(Threads))
<1>1. PICK m \in Nat, l \in Nat : m = Len(pas) /\ l = Len(ent)
  BY LenProperties
<1>2. PICK n \in Nat : n = Cardinality(Threads)
  BY ThreadsAssumption, FS_CardinalityType
<1>3. PICK M \in Nat, d \in Nat \ {0}, x \in Seq(Nat) :
         x = Append(ent, c) /\ M = l + 1 /\ d = limit + n
  <2>1. Append(ent, c) \in Seq(Nat) /\ l + 1 \in Nat /\ limit + n \in Nat \ {0}
    BY <1>1, <1>2, AppendProperties
  <2> QED
    BY <2>1
<1>4. Len(x) = M /\ x[M] = c /\ \A k \in 1 .. l : x[k] = ent[k] /\ x[k] \in Nat
  <2>1. \A k \in 1 .. l : ent[k] \in Nat
    BY <1>1, ElementOfSeq
  <2> QED
    BY <1>1, <1>3, <2>1, AppendProperties
<1>5. ASSUME NEW i \in 1 .. M - d PROVE x[i + d] - x[i] >= Window - MaxSkew
  <2>1. CASE i + d = M /\ i \in 1 .. l
    <3>1. PICK p \in 0 .. m : /\ \A k \in p + 1 .. m : ent[i] <= pas[k]
                              /\ l - i + 1 + f <= m - p + n
      BY <1>1, <1>2, <2>1 DEF Follow
    <3>2. limit + 1 <= m - p
      <4>1. m \in Nat /\ l \in Nat /\ n \in Nat /\ M = l + 1 /\ d = limit + n /\ i \in Nat
        BY <1>1, <1>2, <1>3, <2>1
      <4>2. l - i + 1 = limit + n
        BY <2>1, <4>1
      <4> QED
        BY <3>1, <4>1, <4>2
    <3>3. PICK k \in Nat : k = p + 1
      BY <3>1
    <3>4. k \in p + 1 .. m /\ k \in 1 .. m - limit /\ k \in 1 .. m /\ k + limit \in 1 .. m
      BY <1>1, <3>1, <3>2, <3>3
    <3>5. PICK u \in Nat, v \in Nat, y \in Nat : u = pas[k] /\ v = pas[k + limit] /\ y = x[i]
      BY <1>1, <1>4, <2>1, <3>4, ElementOfSeq
    <3>6. v - u >= Window - MaxSkew
      BY <1>1, <3>4, <3>5 DEF Spaced
    <3>7. y <= u /\ v <= c
      BY <1>1, <1>4, <2>1, <3>1, <3>4, <3>5
    <3>8. c - y >= Window - MaxSkew
      BY <3>6, <3>7, WindowOK, LimitsOK
    <3> QED
      BY <1>4, <2>1, <3>5, <3>8
  <2>2. CASE i \in 1 .. l - d
    <3>1. i \in 1 .. l /\ i + d \in 1 .. l
      BY <1>1, <1>3, <2>2
    <3>2. ent[i + d] - ent[i] >= Window - MaxSkew
      BY <1>1, <1>2, <1>3, <2>2 DEF Spaced
    <3> QED
      BY <1>4, <3>1, <3>2
  <2>3. (i + d = M /\ i \in 1 .. l) \/ i \in 1 .. l - d
    <3>1. M \in Nat /\ d \in Nat \ {0} /\ M = l + 1 /\ l \in Nat
      BY <1>1, <1>3
    <3>2. i \in Nat \ {0} /\ i + d <= M
      BY <3>1
    <3>3. CASE i + d = M
      BY <3>1, <3>2, <3>3
    <3>4. CASE i + d < M
      BY <3>1, <3>2, <3>4
    <3> QED
      BY <3>1, <3>2, <3>3, <3>4
  <2> QED
    BY <2>1, <2>2, <2>3
<1>6. Spaced(x, d)
  BY <1>4, <1>5 DEF Spaced
<1> QED
  BY <1>2, <1>3, <1>6

LEMMA FlightFinite ==
  ASSUME NEW a
  PROVE  /\ IsFiniteSet(InFlight(a)) /\ Cardinality(InFlight(a)) \in Nat
         /\ Cardinality(InFlight(a)) <= Cardinality(Threads)
<1>1. InFlight(a) \subseteq Threads
  BY DEF InFlight
<1> QED
  BY <1>1, ThreadsAssumption, FS_Subset, FS_CardinalityType

(* A request that has passed joins those in flight, one that asks the      *)
(* shared limiter leaves them.                                             *)
LEMMA FlightStep ==
  ASSUME ThrottleTypeOK, WaitsShort, NEW t \in Threads
  PROVE  /\ CheckClient(t) => \A a \in Addresses :
              Cardinality(InFlight(a)') =
                Cardinality(InFlight(a)) + IF a = from[t] /\ Allowed(client, a, read[t], ClientLimit)
                                           THEN 1 ELSE 0
         /\ CheckShared(t) => \A a \in Addresses :
              IF a = from[t] THEN Cardinality(InFlight(a)) # 0
                                  /\ Cardinality(InFlight(a)') = Cardinality(InFlight(a)) - 1
              ELSE Cardinality(InFlight(a)') = Cardinality(InFlight(a))
         /\ Proceed(t) => \A a \in Addresses : InFlight(a)' = InFlight(a)
         /\ \A b \in Addresses : Arrive(t, b) => \A a \in Addresses : InFlight(a)' = InFlight(a)
<1> USE DEF ThrottleTypeOK
<1>1. ASSUME CheckClient(t), NEW a \in Addresses
      PROVE  Cardinality(InFlight(a)') =
                Cardinality(InFlight(a)) + IF a = from[t] /\ Allowed(client, a, read[t], ClientLimit)
                                           THEN 1 ELSE 0
  <2>1. CASE a = from[t] /\ Allowed(client, a, read[t], ClientLimit)
    <3>1. InFlight(a)' = InFlight(a) \cup {t} /\ t \notin InFlight(a)
      BY <1>1, <2>1 DEF CheckClient, InFlight
    <3>2. IsFiniteSet(InFlight(a))
      BY FlightFinite
    <3> QED
      BY <2>1, <3>1, <3>2, FS_AddElement
  <2>2. CASE ~(a = from[t] /\ Allowed(client, a, read[t], ClientLimit))
    <3>1. InFlight(a)' = InFlight(a)
      BY <1>1, <2>2 DEF CheckClient, InFlight, Answer
    <3>2. Cardinality(InFlight(a)) \in Nat
      BY FlightFinite
    <3> QED
      BY <2>2, <3>1, <3>2
  <2> QED
    BY <2>1, <2>2
<1>2. ASSUME CheckShared(t), NEW a \in Addresses
      PROVE  IF a = from[t] THEN Cardinality(InFlight(a)) # 0
                                 /\ Cardinality(InFlight(a)') = Cardinality(InFlight(a)) - 1
             ELSE Cardinality(InFlight(a)') = Cardinality(InFlight(a))
  <2>1. CASE a = from[t]
    <3>1. InFlight(a)' = InFlight(a) \ {t} /\ t \in InFlight(a)
      BY <1>2, <2>1 DEF CheckShared, Answer, InFlight
    <3>2. IsFiniteSet(InFlight(a))
      BY FlightFinite
    <3>3. Cardinality(InFlight(a)') = Cardinality(InFlight(a)) - 1
      BY <3>1, <3>2, FS_RemoveElement
    <3>4. Cardinality(InFlight(a)) # 0
      BY <3>1, <3>2, FS_EmptySet
    <3> QED
      BY <2>1, <3>3, <3>4
  <2>2. CASE a # from[t]
    <3>1. InFlight(a)' = InFlight(a)
      BY <1>2, <2>2 DEF CheckShared, Answer, InFlight
    <3> QED
      BY <2>2, <3>1
  <2> QED
    BY <2>1, <2>2
<1>3. ASSUME Proceed(t), NEW a \in Addresses PROVE InFlight(a)' = InFlight(a)
  BY <1>3 DEF Proceed, ReadClock, InFlight
<1>4. ASSUME NEW b \in Addresses, Arrive(t, b), NEW a \in Addresses PROVE InFlight(a)' = InFlight(a)
  BY <1>4 DEF Arrive, ReadClock, InFlight
<1> QED
  BY <1>1, <1>2, <1>3, <1>4

LEMMA RoomStep ==
  ASSUME ThrottleTypeOK, WaitsShort, ClientTracked, RoomLeft, ThrottleNext
  PROVE  RoomLeft'
<1> SUFFICES ASSUME NEW a \in Addresses
             PROVE  /\ \A i \in 1 .. Len(entered'[a]) :
                         /\ entered'[a][i] <= clock'
                         /\ Follow(entered'[a], passed'[a], Cardinality(InFlight(a)'), i)
                    /\ Spaced(entered'[a], ClientLimit + Cardinality(Threads))
  BY DEF RoomLeft
<1>1. PICK f \in Nat : f = Cardinality(InFlight(a)) /\ f <= Cardinality(Threads)
  BY FlightFinite
<1>2. /\ entered[a] \in Seq(Nat) /\ passed[a] \in Seq(Nat) /\ clock \in Nat
      /\ \A i \in 1 .. Len(entered[a]) : /\ entered[a][i] \in Nat /\ entered[a][i] <= clock
                                         /\ Follow(entered[a], passed[a], f, i)
      /\ Spaced(entered[a], ClientLimit + Cardinality(Threads))
      /\ Spaced(passed[a], ClientLimit)
      /\ \A k \in 1 .. Len(passed[a]) : passed[a][k] <= clock
  BY <1>1, ElementOfSeq DEF ThrottleTypeOK, RoomLeft, ClientTracked, Tracks
<1>3. CASE clock' \in Nat /\ clock <= clock' /\ InFlight(a)' = InFlight(a) /\ UNCHANGED history
  BY <1>1, <1>2, <1>3 DEF history
<1>4. CASE TimePasses
  <2>1. clock' \in Nat /\ clock <= clock' /\ UNCHANGED <<requests, history>>
    BY <1>2, <1>4 DEF TimePasses
  <2>2. InFlight(a)' = InFlight(a)
    BY <2>1 DEF InFlight, requests
  <2> QED
    BY <1>3, <2>1, <2>2
<1>5. ASSUME NEW t \in Threads, Proceed(t) \/ \E b \in Addresses : Arrive(t, b)
      PROVE  InFlight(a)' = InFlight(a) /\ UNCHANGED <<clock, history>>
  BY <1>5, FlightStep DEF Proceed, Arrive
<1>6. ASSUME NEW t \in Threads, CheckClient(t)
      PROVE  /\ \A i \in 1 .. Len(entered'[a]) :
                  /\ entered'[a][i] <= clock'
                  /\ Follow(entered'[a], passed'[a], Cardinality(InFlight(a)'), i)
             /\ Spaced(entered'[a], ClientLimit + Cardinality(Threads))
  <2>1. UNCHANGED <<clock, entered>>
    BY <1>6 DEF CheckClient
  <2>2. CASE a = from[t] /\ Allowed(client, a, read[t], ClientLimit)
    <3>1. passed'[a] = Append(passed[a], clock)
      BY <1>6, <2>2 DEF CheckClient, ThrottleTypeOK
    <3>2. Cardinality(InFlight(a)') = f + 1
      BY <1>1, <1>6, <2>2, FlightStep
    <3>3. \A i \in 1 .. Len(entered[a]) : Follow(entered[a], Append(passed[a], clock), f + 1, i)
      BY <1>2, FollowPasses
    <3> QED
      BY <1>2, <2>1, <3>1, <3>2, <3>3
  <2>3. CASE ~(a = from[t] /\ Allowed(client, a, read[t], ClientLimit))
    <3>1. passed'[a] = passed[a]
      BY <1>6, <2>3 DEF CheckClient, ThrottleTypeOK
    <3>2. Cardinality(InFlight(a)') = f
      BY <1>1, <1>6, <2>3, FlightStep
    <3> QED
      BY <1>2, <2>1, <3>1, <3>2
  <2> QED
    BY <2>2, <2>3
<1>7. ASSUME NEW t \in Threads, CheckShared(t)
      PROVE  /\ \A i \in 1 .. Len(entered'[a]) :
                  /\ entered'[a][i] <= clock'
                  /\ Follow(entered'[a], passed'[a], Cardinality(InFlight(a)'), i)
             /\ Spaced(entered'[a], ClientLimit + Cardinality(Threads))
  <2>1. UNCHANGED <<clock, passed>>
    BY <1>7 DEF CheckShared
  <2>2. CASE a # from[t]
    <3>1. entered'[a] = entered[a]
      BY <1>7, <2>2 DEF CheckShared, ThrottleTypeOK
    <3>2. Cardinality(InFlight(a)') = f
      BY <1>1, <1>7, <2>2, FlightStep
    <3> QED
      BY <1>2, <2>1, <3>1, <3>2
  <2>3. CASE a = from[t]
    <3>1. f \in Nat \ {0} /\ Cardinality(InFlight(a)') = f - 1 /\ f - 1 \in Nat /\ f - 1 <= f
      <4>1. Cardinality(InFlight(a)) # 0
            /\ Cardinality(InFlight(a)') = Cardinality(InFlight(a)) - 1
        BY <1>7, <2>3, FlightStep
      <4> QED
        BY <1>1, <4>1
    <3>2. CASE entered'[a] = entered[a]
      <4>1. \A i \in 1 .. Len(entered[a]) : Follow(entered[a], passed[a], f - 1, i)
        BY <1>2, <3>1, FollowEnds
      <4> QED
        BY <1>2, <2>1, <3>1, <3>2, <4>1
    <3>3. CASE entered'[a] = Append(entered[a], clock)
      <4>1. PICK l \in Nat : l = Len(entered[a])
        BY <1>2, LenProperties
      <4>2. /\ Len(entered'[a]) = l + 1
            /\ \A i \in 1 .. l + 1 : entered'[a][i] <= clock
        <5>1. /\ Len(entered'[a]) = l + 1 /\ entered'[a][l + 1] = clock
              /\ \A i \in 1 .. l : entered'[a][i] = entered[a][i]
          BY <1>2, <3>3, <4>1, AppendProperties
        <5>2. ASSUME NEW i \in 1 .. l + 1 PROVE entered'[a][i] <= clock
          <6>1. CASE i = l + 1
            BY <1>2, <5>1, <6>1
          <6>2. CASE i \in 1 .. l
            BY <1>2, <4>1, <5>1, <6>2
          <6>3. i = l + 1 \/ i \in 1 .. l
            BY <4>1
          <6> QED
            BY <6>1, <6>2, <6>3
        <5> QED
          BY <5>1, <5>2
      <4>3. \A i \in 1 .. Len(entered[a]) + 1 : Follow(Append(entered[a], clock), passed[a], f - 1, i)
        BY <1>1, <1>2, <3>1, FollowEnters
      <4>4. Spaced(Append(entered[a], clock), ClientLimit + Cardinality(Threads))
        BY <1>2, <3>1, LimitsOK, SpacedEnters
      <4> QED
        BY <2>1, <3>1, <3>3, <4>1, <4>2, <4>3, <4>4
    <3> QED
      BY <1>7, <2>3, <3>2, <3>3 DEF CheckShared, ThrottleTypeOK
  <2> QED
    BY <2>2, <2>3
<1> QED
  BY <1>2, <1>3, <1>4, <1>5, <1>6, <1>7 DEF ThrottleNext

(* What a check does to the keys of a limiter: its own key is there with   *)
(* at least one hit; a sweep keeps the keys that are not idle.             *)
LEMMA CheckKeeps ==
  ASSUME NEW K, NEW lim, IsLimiter(lim, K), NEW k \in K, NEW t \in Nat, NEW limit \in Nat \ {0},
         NEW out, out = Checked(lim, k, t, limit)
  PROVE  /\ k \in DOMAIN out.hits /\ out.hits[k] # <<>>
         /\ k \notin DOMAIN lim.hits => Allowed(lim, k, t, limit)
         /\ \A j \in DOMAIN out.hits \ {k} : j \in DOMAIN lim.hits /\ out.hits[j] = lim.hits[j]
         /\ \/ out.forgot = lim.forgot /\ (k \notin DOMAIN lim.hits => t - lim.forgot < Window)
            \/ /\ out.forgot = t
               /\ \A j \in DOMAIN out.hits \ {k} : ~IdleKey(lim.hits[j], t)
<1> DEFINE in == Arrived(lim, k, t)
           h  == Deque(lim, k)
<1>1. Arrives(lim, k, t, in) /\ Checks(lim, k, t, limit, in, out) /\ IsLimiter(out, K)
  BY CheckedOK
<1> HIDE DEF in, h
<1>2. /\ DOMAIN out.hits = DOMAIN in.hits /\ out.forgot = in.forgot
      /\ \A j \in DOMAIN in.hits \ {k} : out.hits[j] = in.hits[j]
  BY <1>1 DEF Checks
<1>3. /\ k \in DOMAIN in.hits
      /\ \A j \in DOMAIN in.hits \ {k} : j \in DOMAIN lim.hits /\ in.hits[j] = lim.hits[j]
  BY <1>1 DEF Arrives
<1>4. /\ k \in DOMAIN lim.hits => in = lim
      /\ k \notin DOMAIN lim.hits /\ ~SweepDue(lim, t) => in.forgot = lim.forgot
      /\ k \notin DOMAIN lim.hits /\ SweepDue(lim, t) =>
           /\ in.forgot = t
           /\ \A j \in DOMAIN lim.hits : j \in DOMAIN in.hits <=> ~IdleKey(lim.hits[j], t)
  BY <1>1 DEF Arrives
<1>5. PICK n \in 0 .. Len(h) :
         /\ Allowed(lim, k, t, limit) <=> Len(h) - n < limit
         /\ out.hits[k] = IF Allowed(lim, k, t, limit) THEN Append(SubSeq(h, n + 1, Len(h)), t)
                          ELSE SubSeq(h, n + 1, Len(h))
  BY <1>1 DEF Checks, h
<1>6. h \in Seq(Nat)
  BY EmptySeq DEF Deque, IsLimiter, h
<1>7. PICK l \in Nat : l = Len(h) /\ \A i \in 1 .. l : h[i] \in Nat
  BY <1>6, LenProperties, ElementOfSeq
<1>8. /\ SubSeq(h, n + 1, l) \in Seq(Nat)
      /\ Len(SubSeq(h, n + 1, l)) = l - n
  <2>1. \A i \in n + 1 .. l : h[i] \in Nat
    BY <1>7
  <2>2. n + 1 \in Int /\ l \in Int
    BY <1>7
  <2>3. /\ SubSeq(h, n + 1, l) \in Seq(Nat)
        /\ Len(SubSeq(h, n + 1, l)) = IF n + 1 <= l THEN l - (n + 1) + 1 ELSE 0
    BY <2>1, <2>2, SubSeqProperties
  <2> QED
    BY <1>7, <2>3
<1>9. out.hits[k] # <<>>
  <2>1. CASE Allowed(lim, k, t, limit)
    <3>1. Len(out.hits[k]) = l - n + 1
      BY <1>5, <1>7, <1>8, <2>1, AppendProperties
    <3>2. Len(out.hits[k]) # 0
      BY <1>7, <3>1
    <3> QED
      BY <3>2
  <2>2. CASE ~Allowed(lim, k, t, limit)
    <3>1. Len(out.hits[k]) = l - n /\ ~(l - n < limit)
      BY <1>5, <1>7, <1>8, <2>2
    <3>2. Len(out.hits[k]) # 0
      BY <1>7, <3>1
    <3> QED
      BY <3>2
  <2> QED
    BY <2>1, <2>2
<1>10. k \notin DOMAIN lim.hits => Allowed(lim, k, t, limit)
  <2> SUFFICES ASSUME k \notin DOMAIN lim.hits PROVE Allowed(lim, k, t, limit)
    OBVIOUS
  <2>1. l = 0
    BY <1>7 DEF h, Deque
  <2> QED
    BY <1>5, <1>7, <2>1
<1>11. ~SweepDue(lim, t) => t - lim.forgot < Window
  BY WindowOK DEF SweepDue, IsLimiter
<1>12. \A j \in DOMAIN out.hits \ {k} : j \in DOMAIN lim.hits /\ out.hits[j] = lim.hits[j]
  BY <1>2, <1>3
<1>13. \/ out.forgot = lim.forgot /\ (k \notin DOMAIN lim.hits => t - lim.forgot < Window)
       \/ out.forgot = t /\ \A j \in DOMAIN out.hits \ {k} : ~IdleKey(lim.hits[j], t)
  BY <1>2, <1>4, <1>11, <1>12
<1> QED
  BY <1>2, <1>3, <1>9, <1>10, <1>12, <1>13

(* A deque that is not idle was let through since a window before.         *)
LEMMA BusyKey ==
  ASSUME NEW h \in Seq(Nat), NEW times \in Seq(Nat), NEW c \in Nat, NEW t \in Nat,
         Tracks(h, times, c), ~IdleKey(h, t)
  PROVE  Len(times) \in Nat \ {0} /\ times[Len(times)] > t - Window
<1>1. PICK m \in Nat, k \in Nat : m = Len(times) /\ k = Len(h)
  BY LenProperties
<1>2. h # <<>> /\ ~(t - h[k] >= Window)
  BY <1>1 DEF IdleKey
<1>3. k # 0 /\ k <= m
  BY <1>1, <1>2, EmptySeq DEF Tracks
<1>4. k \in 1 .. k /\ m \in 1 .. m /\ m - k + k = m
  BY <1>3
<1>5. h[k] <= times[m - k + k] /\ h[k] \in Nat /\ times[m] \in Nat
  BY <1>1, <1>4, ElementOfSeq DEF Tracks
<1>6. PICK x \in Nat, y \in Nat : x = h[k] /\ y = times[m]
  BY <1>5
<1>7. x <= y /\ ~(t - x >= Window)
  BY <1>2, <1>4, <1>5, <1>6
<1>8. y > t - Window
  BY <1>7, WindowOK
<1> QED
  BY <1>1, <1>3, <1>6, <1>8

LEMMA RememberedStep ==
  ASSUME ThrottleTypeOK, WaitsShort, ClientTracked, Remembered, ThrottleNext
  PROVE  Remembered'
<1>0. clock \in Nat /\ client.forgot \in Int /\ client.forgot <= clock
  BY DEF ThrottleTypeOK, IsLimiter, Remembered
<1>1. CASE clock' \in Nat /\ clock <= clock' /\ UNCHANGED <<client, passed>>
  BY <1>0, <1>1 DEF Remembered
<1>2. CASE TimePasses
  <2>1. clock' \in Nat /\ clock <= clock' /\ UNCHANGED <<limiters, history>>
    BY <1>0, <1>2 DEF TimePasses
  <2> QED
    BY <1>1, <2>1 DEF limiters, history
<1>3. ASSUME NEW t \in Threads, Proceed(t) \/ CheckShared(t) \/ \E b \in Addresses : Arrive(t, b)
      PROVE  clock' \in Nat /\ clock <= clock' /\ UNCHANGED <<client, passed>>
  BY <1>0, <1>3 DEF Proceed, CheckShared, Arrive, limiters, history
<1>4. ASSUME NEW t \in Threads, CheckClient(t) PROVE Remembered'
  <2>1. PICK a \in Addresses, r \in Nat : /\ a = from[t] /\ r = read[t]
                                          /\ r <= clock
    BY <1>4 DEF CheckClient, ThrottleTypeOK, WaitsShort
  <2>2. /\ IsLimiter(client, Addresses) /\ ClientLimit \in Nat \ {0}
        /\ client' = Checked(client, a, r, ClientLimit) /\ clock' = clock
    BY <1>4, <2>1, LimitsOK DEF CheckClient, ThrottleTypeOK
  <2>3. /\ a \in DOMAIN client'.hits /\ client'.hits[a] # <<>>
        /\ a \notin DOMAIN client.hits => Allowed(client, a, r, ClientLimit)
        /\ \A j \in DOMAIN client'.hits \ {a} :
             j \in DOMAIN client.hits /\ client'.hits[j] = client.hits[j]
        /\ \/ client'.forgot = client.forgot
           \/ /\ client'.forgot = r
              /\ \A j \in DOMAIN client'.hits \ {a} : ~IdleKey(client.hits[j], r)
    BY <2>1, <2>2, CheckKeeps
  <2>4. client'.forgot \in Int /\ client'.forgot <= clock
    BY <1>0, <2>1, <2>3
  <2>5. ASSUME NEW j \in DOMAIN client'.hits
        PROVE  client'.hits[j] # <<>> /\ passed'[j][Len(passed'[j])] > client'.forgot - Window
    <3>1. CASE j = a
      <4>1. CASE Allowed(client, a, r, ClientLimit)
        <5>1. passed[a] \in Seq(Nat) /\ passed'[a] = Append(passed[a], clock)
          BY <1>4, <2>1, <4>1 DEF CheckClient, ThrottleTypeOK
        <5>2. passed'[a][Len(passed'[a])] = clock
          BY <1>0, <5>1, AppendProperties
        <5> QED
          BY <1>0, <2>3, <2>4, <3>1, <5>2, WindowOK
      <4>2. CASE ~Allowed(client, a, r, ClientLimit)
        <5>1. a \in DOMAIN client.hits /\ passed'[a] = passed[a]
          BY <1>4, <2>1, <2>3, <4>2 DEF CheckClient
        <5>2. client'.forgot = client.forgot
          <6>1. Arrives(client, a, r, Arrived(client, a, r))
                /\ Checks(client, a, r, ClientLimit, Arrived(client, a, r), client')
            BY <2>1, <2>2, CheckedOK
          <6> QED
            BY <5>1, <6>1 DEF Arrives, Checks
        <5> QED
          BY <2>3, <3>1, <5>1, <5>2 DEF Remembered
      <4> QED
        BY <4>1, <4>2
    <3>2. CASE j # a
      <4>1. /\ j \in DOMAIN client.hits /\ client'.hits[j] = client.hits[j]
            /\ j \in Addresses /\ passed'[j] = passed[j]
        BY <1>4, <2>1, <2>2, <2>3, <2>5, <3>2 DEF CheckClient, ThrottleTypeOK, IsLimiter
      <4>2. client.hits[j] # <<>> /\ passed[j][Len(passed[j])] > client.forgot - Window
        BY <4>1 DEF Remembered
      <4>3. CASE client'.forgot = client.forgot
        BY <4>1, <4>2, <4>3
      <4>4. CASE client'.forgot = r /\ ~IdleKey(client.hits[j], r)
        <5>1. Deque(client, j) = client.hits[j] /\ client.hits[j] \in Seq(Nat) /\ passed[j] \in Seq(Nat)
              /\ Tracks(client.hits[j], passed[j], clock)
          BY <4>1 DEF Deque, ThrottleTypeOK, IsLimiter, ClientTracked
        <5>2. passed[j][Len(passed[j])] > r - Window
          BY <1>0, <2>1, <4>4, <5>1, BusyKey
        <5> QED
          BY <4>1, <4>2, <4>4, <5>2
      <4> QED
        BY <2>3, <2>5, <3>2, <4>3, <4>4
    <3> QED
      BY <3>1, <3>2
  <2> QED
    BY <2>2, <2>4, <2>5 DEF Remembered
<1> QED
  BY <1>1, <1>2, <1>3, <1>4 DEF ThrottleNext

LEMMA ThrottleStep == ThrottleInv /\ [ThrottleNext]_throttle => ThrottleInv'
<1> SUFFICES ASSUME ThrottleInv, [ThrottleNext]_throttle PROVE ThrottleInv'
  OBVIOUS
<1>1. CASE ThrottleNext
  BY <1>1, ThrottleTypeStep, ClientTrackedStep, SharedTrackedStep, RoomStep, RememberedStep
  DEF ThrottleInv
<1>2. CASE UNCHANGED throttle
  BY <1>2 DEF ThrottleInv, ThrottleTypeOK, WaitsShort, ClientTracked, SharedTracked, RoomLeft,
     InFlight, Remembered, throttle, limiters, requests, history
<1> QED
  BY <1>1, <1>2

(* What holds of the throttle at every moment, for any number of requests  *)
(* and addresses and whatever the order in which threads take the locks.   *)
THEOREM ThrottleInvariant == ThrottleSpec => []ThrottleInv
<1>1. ThrottleInit => ThrottleInv
  BY ThrottleStarts
<1>2. ThrottleInv /\ [ThrottleNext]_throttle => ThrottleInv'
  BY ThrottleStep
<1> QED
  BY <1>1, <1>2, PTL DEF ThrottleSpec

-----------------------------------------------------------------------------
(* What the invariant says of the limits *)

(* Times that are spaced are no more in a window than the limit.           *)
LEMMA FewInAWindow ==
  ASSUME NEW times \in Seq(Nat), NEW c \in Nat, NEW h, Tracks(h, times, c),
         NEW limit \in Nat \ {0}, Spaced(times, limit),
         NEW first \in Int, NEW last \in Int, last - first < Window - MaxSkew,
         NEW P, P = {i \in 1 .. Len(times) : times[i] \in first .. last}
  PROVE  IsFiniteSet(P) /\ Cardinality(P) <= limit
<1>1. PICK m \in Nat : m = Len(times) /\ \A i \in 1 .. m : times[i] \in Nat
  BY LenProperties, ElementOfSeq
<1>2. \A i, j \in 1 .. m : i <= j => times[i] <= times[j]
  BY <1>1 DEF Tracks
<1> DEFINE late == {i \in 1 .. m : times[i] >= first}
<1>3. ASSUME NEW i \in late, NEW j \in i .. m PROVE j \in late
  <2>1. i \in 1 .. m /\ j \in 1 .. m /\ i <= j /\ times[i] >= first
    OBVIOUS
  <2>2. PICK x \in Nat, y \in Nat : x = times[i] /\ y = times[j]
    BY <1>1, <2>1
  <2>3. x <= y /\ x >= first
    BY <1>2, <2>1, <2>2
  <2>4. y >= first
    BY <2>3
  <2> QED
    BY <2>1, <2>2, <2>4
<1>4. late \subseteq 1 .. m /\ \A i \in late : i .. m \subseteq late
  BY <1>3
<1>5. PICK n \in 0 .. m : late = n + 1 .. m
  <2> HIDE DEF late
  <2> QED
    BY <1>4, UpperPart
<1>6. P \subseteq n + 1 .. n + limit
  <2> SUFFICES ASSUME NEW i \in P PROVE i \in n + 1 .. n + limit
    OBVIOUS
  <2>1. i \in 1 .. m /\ times[i] \in first .. last
    BY <1>1
  <2>2. i \in late
    BY <2>1
  <2>3. i \in n + 1 .. m
    BY <1>5, <2>2
  <2>4. ASSUME i > n + limit PROVE FALSE
    <3>1. PICK lo \in 1 .. m, hi \in 1 .. m : lo = n + 1 /\ hi = lo + limit
      <4>1. n + 1 \in 1 .. m /\ n + 1 + limit \in 1 .. m
        BY <2>3, <2>4
      <4> QED
        BY <4>1
    <3>2. lo \in 1 .. Len(times) - limit /\ hi <= i
      BY <1>1, <2>4, <3>1
    <3>3. PICK x \in Nat, y \in Nat, z \in Nat : x = times[lo] /\ y = times[hi] /\ z = times[i]
      BY <1>1, <2>1
    <3>4. y - x >= Window - MaxSkew
      BY <3>1, <3>2, <3>3 DEF Spaced
    <3>5. y <= z
      BY <1>2, <2>1, <3>2, <3>3
    <3>6. lo \in late
      <4>1. lo \in n + 1 .. m
        BY <3>1
      <4> HIDE DEF late
      <4> QED
        BY <1>5, <4>1
    <3>7. x >= first /\ z <= last
      BY <2>1, <3>3, <3>6
    <3> QED
      BY <3>4, <3>5, <3>7, WindowOK, LimitsOK
  <2> QED
    BY <2>3, <2>4
<1>7. IsFiniteSet(n + 1 .. n + limit) /\ Cardinality(n + 1 .. n + limit) = limit
  <2>1. n + 1 \in Int /\ n + limit \in Int /\ n + 1 <= n + limit
    OBVIOUS
  <2>2. /\ IsFiniteSet(n + 1 .. n + limit)
        /\ Cardinality(n + 1 .. n + limit) = IF n + 1 > n + limit THEN 0 ELSE n + limit - (n + 1) + 1
    BY <2>1, FS_Interval
  <2> QED
    BY <2>1, <2>2
<1> QED
  BY <1>6, <1>7, FS_Subset

LEMMA LimitsFollow == ThrottleInv => LimitsKept
<1> SUFFICES ASSUME ThrottleInv PROVE LimitsKept
  OBVIOUS
<1>1. \A a \in Addresses : Spaced(passed[a], ClientLimit)
  BY DEF ThrottleInv, ClientTracked
<1>2. ASSUME NEW t \in 0 .. LastTime
      PROVE  Cardinality(Entered(t, t + Window - MaxSkew - 1)) <= SharedLimit
  <2>1. PICK who \in Seq(Addresses), place \in Seq(Nat), times \in Seq(Nat) :
          /\ Merges(entered, who, place, times)
          /\ Tracks(Deque(shared, Shared), times, clock)
          /\ Spaced(times, SharedLimit)
    BY DEF ThrottleInv, SharedTracked
  <2>2. PICK last \in Int : last = t + Window - MaxSkew - 1
    BY WindowOK, LimitsOK
  <2> DEFINE P == {i \in 1 .. Len(times) : times[i] \in t .. last}
             E == Entered(t, last)
             f == [i \in P |-> <<who[i], place[i]>>]
  <2>3. IsFiniteSet(P) /\ Cardinality(P) <= SharedLimit
    <3>1. last - t < Window - MaxSkew /\ SharedLimit \in Nat \ {0} /\ t \in Int /\ clock \in Nat
      BY <2>2, WindowOK, LimitsOK DEF ThrottleInv, ThrottleTypeOK
    <3> HIDE DEF P
    <3>2. P = {i \in 1 .. Len(times) : times[i] \in t .. last}
      BY DEF P
    <3> QED
      BY <2>1, <2>2, <3>1, <3>2, FewInAWindow
  <2>4. \A e : e \in E <=> \E a \in Addresses : \E n \in DOMAIN entered[a] :
                             e = <<a, n>> /\ entered[a][n] \in t .. last
    BY DEF Entered
  <2>5. \A a \in Addresses : DOMAIN entered[a] = 1 .. Len(entered[a])
    BY LenProperties DEF ThrottleInv, ThrottleTypeOK
  <2>6. /\ \A i \in 1 .. Len(times) : /\ who[i] \in Addresses
                                      /\ place[i] \in 1 .. Len(entered[who[i]])
                                      /\ times[i] = entered[who[i]][place[i]]
        /\ \A a \in Addresses : \A n \in 1 .. Len(entered[a]) :
             \E i \in 1 .. Len(times) : who[i] = a /\ place[i] = n
    BY <2>1, ElementOfSeq DEF Merges
  <2> HIDE DEF E
  <2>7. f \in [P -> E]
    <3>1. ASSUME NEW i \in P PROVE <<who[i], place[i]>> \in E
      <4>1. PICK a \in Addresses, n \in Nat : a = who[i] /\ n = place[i]
        BY <2>6
      <4>2. n \in DOMAIN entered[a] /\ entered[a][n] \in t .. last
        BY <2>5, <2>6, <4>1
      <4>3. <<a, n>> \in E
        BY <2>4, <4>2
      <4> QED
        BY <4>1, <4>3
    <3> QED
      BY <3>1
  <2>8. ASSUME NEW e \in E PROVE \E i \in P : f[i] = e
    <3>0. PICK a \in Addresses : \E n \in 1 .. Len(entered[a]) :
            e = <<a, n>> /\ entered[a][n] \in t .. last
      BY <2>4, <2>5
    <3>1. PICK n \in 1 .. Len(entered[a]) : e = <<a, n>> /\ entered[a][n] \in t .. last
      BY <3>0
    <3>2. PICK i \in 1 .. Len(times) : who[i] = a /\ place[i] = n
      BY <2>6
    <3>3. i \in P
      BY <2>6, <3>1, <3>2
    <3> QED
      BY <3>1, <3>2, <3>3
  <2> HIDE DEF P, f
  <2>9. f \in Surjection(P, E)
    BY <2>7, <2>8 DEF Surjection
  <2>10. IsFiniteSet(E) /\ Cardinality(E) <= Cardinality(P)
    BY <2>3, <2>9, FS_Surjection
  <2>11. Cardinality(E) \in Nat /\ Cardinality(P) \in Nat /\ SharedLimit \in Nat
    BY <2>3, <2>10, FS_CardinalityType, LimitsOK
  <2>12. Cardinality(E) <= SharedLimit
    BY <2>3, <2>10, <2>11
  <2> QED
    BY <2>2, <2>12 DEF E
<1> QED
  BY <1>1, <1>2 DEF LimitsKept

(* Each address by its own limit, and all of them together by the shared   *)
(* one: no window, less the wait for the lock, sees more than the limit.   *)
THEOREM LimitsAlwaysKept == ThrottleSpec => []LimitsKept
<1>1. ThrottleInv => LimitsKept
  BY LimitsFollow
<1> QED
  BY <1>1, ThrottleInvariant, PTL

(* A hit is refused only when as many of its own address as the limit were *)
(* let through since a window before its reading of the clock.             *)
THEOREM RefusedOnlyWhenFull == ThrottleSpec => []RefusedOnlyAtLimit
<1>1. ThrottleInv => RefusedOnlyAtLimit
  <2> SUFFICES ASSUME ThrottleInv, NEW t \in Threads, pc[t] = "client",
                      ~Allowed(client, from[t], read[t], ClientLimit)
               PROVE  Cardinality({i \in DOMAIN passed[from[t]] :
                                     passed[from[t]][i] > read[t] - Window}) >= ClientLimit
    BY DEF RefusedOnlyAtLimit
  <2>1. PICK a \in Addresses, r \in Nat : a = from[t] /\ r = read[t]
    BY DEF ThrottleInv, ThrottleTypeOK, WaitsShort
  <2>2. /\ IsLimiter(client, Addresses) /\ ClientLimit \in Nat \ {0} /\ clock \in Nat
        /\ passed[a] \in Seq(Nat) /\ Tracks(Deque(client, a), passed[a], clock)
    BY LimitsOK DEF ThrottleInv, ThrottleTypeOK, ClientTracked
  <2>3. Cardinality({i \in DOMAIN passed[a] : passed[a][i] > r - Window}) >= ClientLimit
    BY <2>1, <2>2, RefusedFull
  <2> QED
    BY <2>1, <2>3
<1> QED
  BY <1>1, ThrottleInvariant, PTL

(* One address alone cannot use up the shared budget: what it enters is    *)
(* held to its own limit and the number of requests in flight.             *)
THEOREM RoomIsLeft == ThrottleSpec => []OneClientLeavesRoom
<1>1. ThrottleInv => OneClientLeavesRoom
  BY DEF ThrottleInv, RoomLeft, OneClientLeavesRoom
<1> QED
  BY <1>1, ThrottleInvariant, PTL

(* When a new address arrives, the limiter is left with addresses it let   *)
(* through in the last two windows.                                        *)
THEOREM MemoryStaysBounded == ThrottleSpec => MemoryBounded
<1>1. ASSUME ThrottleInv, NEW t \in Threads, CheckClient(t), from[t] \notin DOMAIN client.hits,
             NEW j \in DOMAIN client'.hits
      PROVE  passed'[j][Len(passed'[j])] > read[t] - 2 * Window
  <2>1. PICK a \in Addresses, r \in Nat : a = from[t] /\ r = read[t] /\ r <= clock
    BY <1>1 DEF CheckClient, ThrottleInv, ThrottleTypeOK, WaitsShort
  <2>2. /\ IsLimiter(client, Addresses) /\ ClientLimit \in Nat \ {0} /\ clock \in Nat
        /\ client' = Checked(client, a, r, ClientLimit) /\ client.forgot \in Int
    BY <1>1, <2>1, LimitsOK DEF CheckClient, ThrottleInv, ThrottleTypeOK, IsLimiter
  <2>3. /\ Allowed(client, a, r, ClientLimit)
        /\ \A i \in DOMAIN client'.hits \ {a} :
             i \in DOMAIN client.hits /\ client'.hits[i] = client.hits[i]
        /\ \/ r - client.forgot < Window
           \/ \A i \in DOMAIN client'.hits \ {a} : ~IdleKey(client.hits[i], r)
    BY <1>1, <2>1, <2>2, CheckKeeps
  <2>4. passed[a] \in Seq(Nat) /\ passed'[a] = Append(passed[a], clock)
        /\ \A i \in Addresses \ {a} : passed'[i] = passed[i]
    BY <1>1, <2>1, <2>3 DEF CheckClient, ThrottleInv, ThrottleTypeOK
  <2>5. CASE j = a
    <3>1. passed'[a][Len(passed'[a])] = clock
      BY <2>2, <2>4, AppendProperties
    <3> QED
      BY <2>1, <2>2, <2>5, <3>1, WindowOK
  <2>6. CASE j # a
    <3>1. /\ j \in DOMAIN client.hits /\ j \in Addresses /\ passed'[j] = passed[j]
          /\ passed[j] \in Seq(Nat) /\ client.hits[j] \in Seq(Nat)
          /\ Tracks(client.hits[j], passed[j], clock)
          /\ client.hits[j] # <<>> /\ passed[j][Len(passed[j])] > client.forgot - Window
      BY <1>1, <2>2, <2>3, <2>4, <2>6
      DEF ThrottleInv, ThrottleTypeOK, IsLimiter, ClientTracked, Deque, Remembered
    <3>2. passed[j][Len(passed[j])] \in Nat
      <4>1. Len(client.hits[j]) # 0 /\ Len(client.hits[j]) \in Nat
            /\ Len(passed[j]) \in Nat /\ Len(client.hits[j]) <= Len(passed[j])
        BY <3>1, EmptySeq, LenProperties DEF Tracks
      <4>2. Len(passed[j]) \in 1 .. Len(passed[j])
        BY <4>1
      <4> QED
        BY <3>1, <4>2, ElementOfSeq
    <3>3. PICK x \in Nat : x = passed[j][Len(passed[j])]
      BY <3>2
    <3>4. CASE r - client.forgot < Window
      <4>1. x > r - 2 * Window
        BY <2>2, <3>1, <3>3, <3>4, WindowOK
      <4> QED
        BY <2>1, <3>1, <3>3, <4>1
    <3>5. CASE ~IdleKey(client.hits[j], r)
      <4>1. x > r - Window
        BY <2>2, <3>1, <3>3, <3>5, BusyKey
      <4>2. x > r - 2 * Window
        BY <4>1, WindowOK
      <4> QED
        BY <2>1, <3>1, <3>3, <4>2
    <3> QED
      BY <1>1, <2>3, <2>6, <3>4, <3>5
  <2> QED
    BY <2>5, <2>6
<1>2. ThrottleInv /\ [ThrottleNext]_throttle =>
        [\A t \in Threads :
           CheckClient(t) /\ from[t] \notin DOMAIN client.hits =>
             \A a \in DOMAIN client'.hits :
               passed'[a][Len(passed'[a])] > read[t] - 2 * Window]_throttle
  BY <1>1
<1> QED
  BY <1>2, ThrottleInvariant, PTL DEF ThrottleSpec, MemoryBounded
=============================================================================
