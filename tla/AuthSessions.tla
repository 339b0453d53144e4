---------------------------- MODULE AuthSessions ----------------------------
(***************************************************************************)
(* One login account, the sessions opened for it, their audit trail, and   *)
(* the tabs of one browser that share the session cookie.                  *)
(*                                                                         *)
(* A login reads the account, verifies the typed password against the copy *)
(* it read and commits later; every other server operation changes the     *)
(* database with one guarded statement, so it is one action.  The account's *)
(* password is the number of the change that chose it, so the password in  *)
(* force should be "changes".  The row of a session also holds the number  *)
(* of auth_events rows that name it; "seen" and "made" are history: the    *)
(* number of changes when its login read the account and when it committed.*)
(***************************************************************************)
EXTENDS Integers, Sequences, FiniteSets

CONSTANTS Tabs,         \* tabs of the browser
          OutOfDate,    \* whether a new account's hash will need a rehash
          Lifetime,     \* SESSION_LIFETIME
          Retention,    \* AUTH_EVENT_RETENTION
          MaxSessions,  \* bound on sessions
          MaxChanges,   \* bound on password changes
          MaxTime,      \* bound on the clock, and nothing is sent at the last instant
          MaxCalls      \* bound on the API calls under way at once

ASSUME RetentionAssumption ==
  Lifetime \in Nat /\ Retention \in Nat /\ Lifetime <= Retention
ASSUME OutOfDateAssumption == OutOfDate \subseteq BOOLEAN
ASSUME BoundsAssumption ==
  MaxSessions \in Nat /\ MaxChanges \in Nat /\ MaxTime \in Nat
  /\ MaxCalls \in Nat

VARIABLES now,       \* the server's clock
          changes,   \* password changes so far
          account,   \* the users row: its password and whether to rehash it
          sessions,  \* the auth_sessions rows, in the order of their ids
          cookie,    \* the session the browser's cookie names
          tab,       \* each tab's SessionState
          call       \* each tab's API calls under way

vars == <<now, changes, account, sessions, cookie, tab, call>>

NoSession == 0
NotRevoked == -1
Passwords == 0 .. MaxChanges
NoAccount == [pw |-> -1, stale |-> FALSE]
Accounts == [pw : Passwords, stale : BOOLEAN] \cup {NoAccount}

Session == [pw : Passwords, seen : Nat, made : Nat, rehashed : BOOLEAN,
            created : Nat, revoked : Nat \cup {NotRevoked},
            logins : Nat, logouts : Nat]

Statuses == {"checking", "signed_in", "signed_out", "expired"}

(* A tab has at most one question about its session (GET /auth/me or a     *)
(* login), one logout and one ordinary request under way.                  *)
Slots == {"session", "logout", "page"}
Idle == [stage |-> "none", login |-> FALSE, token |-> NoSession, pw |-> 0,
         read |-> NoAccount, seen |-> 0, ok |-> FALSE]
Call == [stage : {"none", "sent", "read", "answered"}, login : BOOLEAN,
         token : Nat, pw : Passwords, read : Accounts, seen : Nat, ok : BOOLEAN]

Init == /\ now = 0 /\ changes = 0
        /\ account = NoAccount
        /\ sessions = <<>>
        /\ cookie = NoSession
        /\ tab = [t \in Tabs |-> "checking"]
        /\ call = [t \in Tabs |-> [k \in Slots |-> Idle]]

-----------------------------------------------------------------------------
(* The session table *)

(* get_active_session: logged in, not logged out, not expired. *)
Usable(s) == /\ s \in 1 .. Len(sessions)
             /\ sessions[s].revoked = NotRevoked
             /\ sessions[s].created + Lifetime > now

(* Mutant: a password change forgets the sessions. *)
RevokedNot(row) == row

Revoked(row) == IF row.revoked = NotRevoked THEN [row EXCEPT !.revoked = now]
                                            ELSE row

(* The row of a session that a login commits now, with its login event. *)
NewRow(c) == [pw |-> c.pw, seen |-> c.seen, made |-> changes,
              rehashed |-> c.read.stale, created |-> now,
              revoked |-> NotRevoked, logins |-> 1, logouts |-> 0]

(* The account is created from the command line; the loser of two creates  *)
(* is refused by the check or by the unique username and writes nothing.   *)
CreateUser == /\ account = NoAccount
              /\ \E stale \in OutOfDate :
                   account' = [pw |-> changes, stale |-> stale]
              /\ UNCHANGED <<now, changes, sessions, cookie, tab, call>>

(* set_password: a new hash, and every session there is logged out. *)
SetPassword ==
  /\ account # NoAccount /\ changes < MaxChanges
  /\ changes' = changes + 1
  /\ account' = [pw |-> changes + 1, stale |-> FALSE]
  /\ sessions' = [s \in DOMAIN sessions |-> Revoked(sessions[s])]
  /\ UNCHANGED <<now, cookie, tab, call>>

(* Mutant: the cut-off lies on the wrong side of now. *)
KeptEventsShort(row) ==
  [row EXCEPT !.logins = IF row.created < now + Retention THEN 0 ELSE @]

(* manage-logins purge, daily from cron. *)
KeptEvents(row) ==
  [row EXCEPT !.logins = IF row.created < now - Retention THEN 0 ELSE @,
              !.logouts = IF row.revoked < now - Retention THEN 0 ELSE @]
Purge == /\ sessions' = [s \in DOMAIN sessions |-> KeptEvents(sessions[s])]
         /\ UNCHANGED <<now, changes, account, cookie, tab, call>>

Tick == /\ now < MaxTime
        /\ now' = now + 1
        /\ UNCHANGED <<changes, account, sessions, cookie, tab, call>>

-----------------------------------------------------------------------------
(* The tabs send.  A visitor types a password that is or was in force.   *)

UnderWay == {tk \in Tabs \X Slots : call[tk[1]][tk[2]] # Idle}

Send(t, k, c) == /\ call[t][k].stage = "none"
                 /\ Cardinality(UnderWay) < MaxCalls /\ now < MaxTime
                 /\ call' = [call EXCEPT ![t][k] =
                               [c EXCEPT !.stage = "sent", !.token = cookie]]
                 /\ UNCHANGED <<now, changes, account, sessions, cookie>>

(* Loading the page, or "Try again": ask the API who is logged in. *)
Check(t) == /\ \A k \in Slots : call[t][k] = Idle
            /\ tab' = [tab EXCEPT ![t] = "checking"]
            /\ Send(t, "session", Idle)

LogIn(t) == /\ tab[t] \in {"signed_out", "expired"}
            /\ \E p \in 0 .. changes :
                 Send(t, "session", [Idle EXCEPT !.login = TRUE, !.pw = p])
            /\ UNCHANGED tab

LogOut(t) == tab[t] = "signed_in" /\ Send(t, "logout", Idle) /\ UNCHANGED tab

Request(t) == tab[t] = "signed_in" /\ Send(t, "page", Idle) /\ UNCHANGED tab

-----------------------------------------------------------------------------
(* The API serves *)

Answered(t, k, c) == call' = [call EXCEPT ![t][k] = [c EXCEPT !.stage = "answered"]]

(* login reads the account, without a lock, and verifies the password      *)
(* against what it read.                                                   *)
LoginRead(t) ==
  LET c == call[t]["session"] IN
  /\ c.stage = "sent" /\ c.login /\ account.pw = c.pw
  /\ call' = [call EXCEPT ![t]["session"] =
                [c EXCEPT !.stage = "read", !.read = account, !.seen = changes]]
  /\ UNCHANGED <<now, changes, account, sessions, cookie, tab>>

(* A wrong password or an unknown user: only a failure event is committed. *)
LoginRefused(t) ==
  LET c == call[t]["session"] IN
  /\ c.stage = "sent" /\ c.login /\ account.pw # c.pw
  /\ Answered(t, "session", [Idle EXCEPT !.login = TRUE])
  /\ UNCHANGED <<now, changes, account, sessions, cookie, tab>>

(* The hash is renewed if its parameters are out of date, whatever the row *)
(* holds by now; the session and its event are committed.                  *)
LoginCommit(t) ==
  LET c == call[t]["session"] IN
  /\ c.stage = "read" /\ Len(sessions) < MaxSessions
  /\ sessions' = Append(sessions, NewRow(c))
  /\ account' = IF c.read.stale THEN [pw |-> c.pw, stale |-> FALSE] ELSE account
  /\ Answered(t, "session", [Idle EXCEPT !.login = TRUE, !.ok = TRUE,
                                         !.token = Len(sessions) + 1])
  /\ UNCHANGED <<now, changes, cookie, tab>>

(* Mutant: the update does not look whether the session is revoked. *)
LoggedOutAgain(row) == [row EXCEPT !.revoked = now, !.logouts = @ + 1]

(* logout: revokes the session unless it was, and records it if it did. *)
LoggedOut(row) == IF row.revoked = NotRevoked
                  THEN [row EXCEPT !.revoked = now, !.logouts = @ + 1]
                  ELSE row
ServeLogout(t) ==
  LET c == call[t]["logout"] IN
  /\ c.stage = "sent"
  /\ sessions' = IF c.token = NoSession THEN sessions
                 ELSE [sessions EXCEPT ![c.token] = LoggedOut(@)]
  /\ Answered(t, "logout", [c EXCEPT !.ok = TRUE])
  /\ UNCHANGED <<now, changes, account, cookie, tab>>

(* require_auth, require_session_user: 401 without a usable session. *)
Authenticate(t, k) ==
  LET c == call[t][k] IN
  /\ k # "logout" /\ c.stage = "sent" /\ ~c.login
  /\ Answered(t, k, [c EXCEPT !.ok = Usable(c.token)])
  /\ UNCHANGED <<now, changes, account, sessions, cookie, tab>>

-----------------------------------------------------------------------------
(* The tabs take the answers *)

Done(t, k) == /\ call' = [call EXCEPT ![t][k] = Idle]
              /\ UNCHANGED <<now, changes, account, sessions>>

(* resolveSession and handleSubmit; a login's answer sets the cookie. *)
SessionAnswer(t) ==
  LET c == call[t]["session"] IN
  /\ c.stage = "answered"
  /\ cookie' = IF c.login /\ c.ok THEN c.token ELSE cookie
  /\ tab' = [tab EXCEPT ![t] = CASE c.ok -> "signed_in"
                                 [] ~c.ok /\ c.login -> @
                                 [] OTHER -> "signed_out"]
  /\ Done(t, "session")

(* The answer to a logout deletes the cookie, whichever session it names. *)
LogoutAnswer(t) == /\ call[t]["logout"].stage = "answered"
                   /\ cookie' = NoSession
                   /\ tab' = [tab EXCEPT ![t] = "signed_out"]
                   /\ Done(t, "logout")

(* apiFetch: a 401 to an ordinary request ends the tab's session. *)
PageAnswer(t) ==
  LET c == call[t]["page"] IN
  /\ c.stage = "answered"
  /\ tab' = [tab EXCEPT ![t] =
               IF ~c.ok /\ @ = "signed_in" THEN "expired" ELSE @]
  /\ Done(t, "page")
  /\ UNCHANGED cookie

(* Mutant: a failed logout looks like a logout. *)
AfterLossSignedOut(t, k) == IF k = "logout" THEN "signed_out" ELSE tab[t]

(* A call fails: the request or its answer is lost.  The tab goes on as it *)
(* is: it offers to check again, stays at the login form, or stays signed  *)
(* in because the logout may not have happened.  The cookie of a login is  *)
(* set if the headers of its answer arrived.                               *)
AfterLoss(t, k) == tab[t]
Lose(t, k) ==
  LET c == call[t][k] IN
  /\ c.stage \in {"sent", "answered"}
  /\ cookie' \in {cookie} \cup (IF c.login /\ c.ok THEN {c.token} ELSE {})
  /\ tab' = [tab EXCEPT ![t] = AfterLoss(t, k)]
  /\ Done(t, k)

-----------------------------------------------------------------------------
Operator == CreateUser \/ SetPassword \/ Purge \/ Tick
Visitor(t) == Check(t) \/ LogIn(t) \/ LogOut(t) \/ Request(t)
Api(t) == \/ LoginRead(t) \/ LoginRefused(t) \/ LoginCommit(t) \/ ServeLogout(t)
          \/ \E k \in Slots : Authenticate(t, k)
Browser(t) == \/ SessionAnswer(t) \/ LogoutAnswer(t) \/ PageAnswer(t)
              \/ \E k \in Slots : Lose(t, k)

Next == Operator \/ \E t \in Tabs : Visitor(t) \/ Api(t) \/ Browser(t)

Spec == Init /\ [][Next]_vars

-----------------------------------------------------------------------------
TypeOK == /\ now \in Nat /\ changes \in 0 .. MaxChanges
          /\ account \in Accounts
          /\ sessions \in Seq(Session)
          /\ cookie \in 0 .. Len(sessions)
          /\ tab \in [Tabs -> Statuses]
          /\ call \in [Tabs -> [Slots -> Call]]
          /\ \A t \in Tabs, k \in Slots : call[t][k].token <= Len(sessions)

(* The audit trail (AuthService.login, logout, delete_expired_events):     *)
(* a session that is still accepted has exactly one login event and no     *)
(* logout, purging never outruns the lifetime of a session, and a session  *)
(* is logged out at most once however many tabs do it, and only if it is   *)
(* revoked.                                                                *)
TrailMatches ==
  /\ TypeOK
  /\ \A s \in 1 .. Len(sessions) :
       /\ sessions[s].created <= now /\ sessions[s].revoked <= now
       /\ Usable(s) => sessions[s].logins = 1
       /\ sessions[s].logins <= 1 /\ sessions[s].logouts <= 1
       /\ sessions[s].logouts = 1 => sessions[s].revoked # NotRevoked

(* A login that renewed a hash it had read before the last change. *)
ChangeUndone == \E s \in 1 .. Len(sessions) :
                  /\ sessions[s].rehashed
                  /\ sessions[s].seen < sessions[s].made
                  /\ sessions[s].made = changes

(* A password change (AuthService.set_password) logs out every session     *)
(* opened before it and is in force from then on: a session that is not    *)
(* logged out was opened with the new password or by a login that overlapped *)
(* the change, unless such a login also renewed the old password's hash.   *)
ChangeTakesHold ==
  /\ \A s \in 1 .. Len(sessions) :
       sessions[s].revoked = NotRevoked =>
         /\ sessions[s].made = changes
         /\ \/ sessions[s].pw = changes \/ sessions[s].seen < changes
            \/ ChangeUndone
  /\ account = NoAccount \/ account.pw = changes \/ ChangeUndone

(* A tab only stops saying "signed in" (setSignedOut, reportSessionExpired) *)
(* on an answer to a request whose session the API refuses from then on:   *)
(* a logout that may not have reached the API never looks like one.        *)
SignOutIsTrue ==
  [][\A t \in Tabs : (tab[t] = "signed_in" /\ tab'[t] \in {"signed_out", "expired"}) =>
       \E k \in {"logout", "page"} :
         /\ call[t][k] # Idle /\ call'[t][k] = Idle
         /\ call[t][k].stage = "answered" /\ ~Usable(call[t][k].token)]_vars

=============================================================================
