------------------------- MODULE PageTrackingProofs -------------------------
(***************************************************************************)
(* What page_view events say, and what Google Tag Manager keeps, for any   *)
(* number of users, pages, visits and changes of consent and session.      *)
(* TrackingInv is the inductive invariant; TabOK and Follows say what each *)
(* function of page-view.ts and identity.ts keeps and does.                *)
(***************************************************************************)
EXTENDS PageTracking, TLAPS

View  == [visit : Nat, page : Pages, referrer : Pages \cup {NoPage}, user : Users \cup {NoUser}]
Entry == [view : View, id : Nat]

Tab == [shown : Pages \cup {NoPage}, referrer : Pages \cup {NoPage}, sent : BOOLEAN,
        pending : View \cup {NoView}, userIn : BOOLEAN, idIn : BOOLEAN,
        gtm : [user : Users \cup {NoUser}, id : Nat], log : Seq(Entry),
        cookie : Nat, ids : Nat, visits : Seq(Pages)]

(* The page before a visit's.                                              *)
Before(t, v) == IF v = 1 THEN NoPage ELSE t.visits[v - 1]

(* The page on display is the last one visited.                            *)
OnDisplay(t) ==
  /\ t.shown = IF t.visits = <<>> THEN NoPage ELSE t.visits[Len(t.visits)]
  /\ t.visits # <<>> => t.referrer = Before(t, Len(t.visits))

(* No view of this visit has been sent with the present identifiers.       *)
Unlogged(t) ==
  \A i \in DOMAIN t.log : t.log[i].view.visit = Len(t.visits) => t.log[i].id # t.cookie

(* What was sent.                                                          *)
Logged(t) ==
  \A j \in DOMAIN t.log :
    LET new == t.log[j].view IN
      /\ new.visit \in 1 .. Len(t.visits) /\ t.log[j].id \in 1 .. t.ids
      /\ new.page = t.visits[new.visit] /\ new.referrer = Before(t, new.visit)

InOrder(t) ==
  \A j \in DOMAIN t.log : \A i \in 1 .. (j - 1) :
    \/ t.log[i].view.visit < t.log[j].view.visit
    \/ t.log[i].view.visit = t.log[j].view.visit /\ t.log[i].id # t.log[j].id

(* A view of the page on display, for one of these users.                  *)
Current(t, view, us) ==
  /\ view \in View /\ view.user \in us
  /\ t.visits # <<>> /\ view.visit = Len(t.visits)
  /\ view.page = t.shown /\ view.referrer = t.referrer

(* What waits is for the page on display, which has not been counted.      *)
Waiting(t, us) ==
  /\ t.pending # NoView => Current(t, t.pending, us) /\ t.sent
  /\ t.pending # NoView \/ ~t.sent => Unlogged(t)

(* GTM holds no more than the flags say.                                   *)
Held(t, us) ==
  /\ t.gtm.user \in us /\ (t.gtm.user # NoUser => t.userIn)
  /\ t.gtm.id # NoId => t.idIn
  /\ t.cookie <= t.ids

TabOK(t, us) ==
  /\ t \in Tab /\ NoUser \in us
  /\ OnDisplay(t) /\ Logged(t) /\ InOrder(t) /\ Waiting(t, us) /\ Held(t, us)

(* What a call does to identifiers and events, getConsent answering c.     *)
Follows(t, new, c) ==
  /\ t.cookie # NoId \/ c # "granted" => new.cookie = t.cookie
  /\ new.log # t.log => /\ c = "granted" /\ new.cookie # NoId
                        /\ new.log[Len(new.log)].id = new.cookie
  /\ \/ new.gtm.id \in {NoId, t.gtm.id}
     \/ c = "granted" /\ new.cookie # NoId /\ new.gtm.id = new.cookie

TrackingInv ==
  /\ consent \in {"granted", "denied"} /\ known \in BOOLEAN /\ url \in Pages
  /\ session \in Users \cup {NoUser, Checking}
  /\ TabOK(tab, {NoUser, UserOf(session)})
  /\ ~mounted => tab.log = <<>> /\ tab.pending = NoView
  /\ ~known => consent = "denied"
  /\ tab.gtm.id \in {NoId, tab.cookie}
  /\ consent = "denied" => tab.gtm.id = NoId

-----------------------------------------------------------------------------
(* Sequences as far as they are needed here.                               *)
LEMMA AppendFacts ==
  ASSUME NEW S, NEW s \in Seq(S), NEW e \in S
  PROVE  /\ Append(s, e) \in Seq(S) /\ Len(Append(s, e)) = Len(s) + 1
         /\ Append(s, e) # <<>> /\ Len(s) \in Nat
         /\ DOMAIN Append(s, e) = 1 .. (Len(s) + 1) /\ DOMAIN s = 1 .. Len(s)
         /\ \A i \in 1 .. Len(s) : Append(s, e)[i] = s[i]
         /\ Append(s, e)[Len(s) + 1] = e
  OBVIOUS

LEMMA EmptyFacts ==
  ASSUME NEW S, NEW s \in Seq(S)
  PROVE  (s = <<>> <=> Len(s) = 0) /\ Len(s) \in Nat /\ DOMAIN s = 1 .. Len(s)
         /\ \A i \in 1 .. Len(s) : s[i] \in S
  OBVIOUS

LEMMA FollowsTwice ==
  ASSUME NEW t, NEW u, NEW v, NEW c, Follows(t, u, c), Follows(u, v, c)
  PROVE  Follows(t, v, c)
  BY DEF Follows

LEMMA FollowsSame ==
  ASSUME NEW t, NEW u, NEW c, u.cookie = t.cookie, u.log = t.log, u.gtm.id \in {NoId, t.gtm.id}
  PROVE  Follows(t, u, c)
  BY DEF Follows

LEMMA FollowsItself ==
  ASSUME NEW t, NEW c
  PROVE  Follows(t, t, c)
  BY FollowsSame

-----------------------------------------------------------------------------
(* identity.ts                                                             *)

(* Identifiers that are made are new ones.                                 *)
LEMMA FreshIdentity ==
  ASSUME NEW t \in Tab, NEW u \in Tab, NEW us, TabOK(t, us),
         u.shown = t.shown, u.referrer = t.referrer, u.sent = t.sent, u.pending = t.pending,
         u.userIn = t.userIn, u.idIn = t.idIn, u.gtm = t.gtm, u.log = t.log,
         u.visits = t.visits,
         \/ u.cookie = t.cookie /\ u.ids = t.ids
         \/ u.cookie = t.ids + 1 /\ u.ids = t.ids + 1
         \/ u.cookie = NoId /\ u.ids = t.ids
  PROVE  TabOK(u, us)
<1>1. t.ids \in Nat /\ t.cookie \in Nat /\ t.log \in Seq(Entry)
  BY DEF Tab
<1>2. \A i \in DOMAIN t.log : t.log[i].id \in 1 .. t.ids
  BY DEF TabOK, Logged
<1>3. Logged(u)
  BY <1>1 DEF TabOK, Logged, Before
<1>4. u.cookie <= u.ids
  BY <1>1 DEF TabOK, Held, NoId
<1>5. Unlogged(t) => Unlogged(u)
  <2>1. CASE u.cookie = t.cookie
    BY <2>1 DEF Unlogged
  <2>2. CASE u.cookie = t.ids + 1 \/ u.cookie = NoId
    <3>1. \A i \in DOMAIN t.log : t.log[i].id # u.cookie
      BY <2>2, <1>1, <1>2 DEF NoId
    <3> QED BY <3>1 DEF Unlogged
  <2> QED BY <2>1, <2>2
<1>6. OnDisplay(u) /\ InOrder(u)
  BY DEF TabOK, OnDisplay, InOrder, Before
<1>7. Waiting(u, us)
  BY <1>5 DEF TabOK, Waiting, Current
<1> QED BY <1>3, <1>4, <1>6, <1>7 DEF TabOK, Held

LEMMA IdentifiedKeeps ==
  ASSUME NEW t, NEW us, TabOK(t, us)
  PROVE  LET i == Identified(t) IN
         /\ TabOK(i, us) /\ i.cookie # NoId /\ (t.cookie # NoId => i.cookie = t.cookie)
         /\ i.log = t.log /\ i.gtm = t.gtm /\ i.visits = t.visits /\ i.shown = t.shown
         /\ i.referrer = t.referrer /\ i.sent = t.sent /\ i.pending = t.pending
         /\ Unlogged(t) => Unlogged(i)
<1> DEFINE i == Identified(t)
<1>1. t \in Tab /\ t.ids \in Nat
  BY DEF TabOK, Tab
<1>2. CASE t.cookie # NoId
  BY <1>2 DEF Identified
<1>3. CASE t.cookie = NoId
  <2>1. PICK n \in Nat : n = t.ids + 1
    BY <1>1
  <2>2. i = [t EXCEPT !.cookie = n, !.ids = n]
    BY <1>3, <2>1 DEF Identified
  <2>3. /\ i \in Tab /\ i.shown = t.shown /\ i.referrer = t.referrer /\ i.sent = t.sent
        /\ i.pending = t.pending /\ i.userIn = t.userIn /\ i.idIn = t.idIn /\ i.gtm = t.gtm
        /\ i.log = t.log /\ i.visits = t.visits /\ i.cookie = n /\ i.ids = n
    BY <2>2, <1>1 DEF Tab
  <2>4. TabOK(i, us)
    BY <2>1, <2>3, <1>1, FreshIdentity
  <2>5. \A j \in DOMAIN t.log : t.log[j].id # n
    BY <2>1, <1>1 DEF TabOK, Logged
  <2> QED BY <1>1, <1>3, <2>1, <2>3, <2>4, <2>5 DEF NoId, Unlogged
<1> QED BY <1>2, <1>3

LEMMA FollowConsentKeeps ==
  ASSUME NEW t, NEW us, NEW c \in {"granted", "denied"}, NEW k \in BOOLEAN, TabOK(t, us)
  PROVE  LET f == FollowConsent(t, c, k) IN
         /\ TabOK(f, us) /\ f.log = t.log /\ f.gtm = t.gtm /\ f.pending = t.pending
         /\ c = "granted" => f.cookie # NoId /\ (t.cookie # NoId => f.cookie = t.cookie)
         /\ c = "denied" => f.cookie = IF k THEN NoId ELSE t.cookie
<1> DEFINE f == FollowConsent(t, c, k)
<1>1. t \in Tab
  BY DEF TabOK
<1>2. CASE c = "granted"
  BY <1>2, IdentifiedKeeps DEF FollowConsent
<1>3. CASE c = "denied" /\ k
  <2>1. f = [t EXCEPT !.cookie = NoId]
    BY <1>3 DEF FollowConsent
  <2>2. /\ f \in Tab /\ f.shown = t.shown /\ f.referrer = t.referrer /\ f.sent = t.sent
        /\ f.pending = t.pending /\ f.userIn = t.userIn /\ f.idIn = t.idIn /\ f.gtm = t.gtm
        /\ f.log = t.log /\ f.visits = t.visits /\ f.cookie = NoId /\ f.ids = t.ids
    BY <2>1, <1>1 DEF Tab, NoId
  <2> QED BY <1>1, <1>3, <2>2, FreshIdentity
<1>4. CASE c = "denied" /\ ~k
  BY <1>4 DEF FollowConsent
<1> QED BY <1>2, <1>3, <1>4

-----------------------------------------------------------------------------
(* page-view.ts                                                            *)

Counted(t, view, u) ==
  /\ u.shown = t.shown /\ u.referrer = t.referrer /\ u.sent = t.sent /\ u.pending = t.pending
  /\ (view.user # NoUser => u.userIn) /\ u.idIn
  /\ u.gtm.user = view.user /\ u.gtm.id = t.cookie
  /\ u.log = Append(t.log, [view |-> view, id |-> t.cookie])
  /\ u.visits = t.visits /\ u.cookie = t.cookie /\ u.ids = t.ids

(* An event is added for a view of the page on display, not yet counted.   *)
LEMMA OneMoreEvent ==
  ASSUME NEW t, NEW us, TabOK(t, us), t.pending = NoView, t.sent, t.cookie # NoId,
         NEW view, Current(t, view, us), Unlogged(t), NEW u \in Tab,
         Counted(t, view, u)
  PROVE  TabOK(u, us) /\ u.log[Len(u.log)].id = u.cookie
<1> USE DEF Counted
<1>1. /\ t.log \in Seq(Entry) /\ t.visits \in Seq(Pages) /\ t.cookie \in Nat /\ t.ids \in Nat
      /\ t.cookie <= t.ids /\ view \in View
  BY DEF TabOK, Tab, Held, Current
<1>2. PICK e \in Entry : e = [view |-> view, id |-> t.cookie] /\ e.view = view /\ e.id = t.cookie
  BY <1>1 DEF Entry
<1>3. PICK n \in Nat : /\ n = Len(t.log) /\ DOMAIN t.log = 1 .. n /\ DOMAIN u.log = 1 .. (n + 1)
                       /\ Len(u.log) = n + 1
                       /\ (\A i \in 1 .. n : u.log[i] = t.log[i]) /\ u.log[n + 1] = e
  BY <1>1, <1>2, AppendFacts
<1>4. \A j \in 1 .. (n + 1) : j \in 1 .. n \/ j = n + 1
  OBVIOUS
<1>5. Logged(u)
  <2>1. /\ view.visit \in 1 .. Len(t.visits) /\ e.id \in 1 .. t.ids
        /\ view.page = t.visits[view.visit] /\ view.referrer = Before(t, view.visit)
    BY <1>1, <1>2, EmptyFacts DEF TabOK, OnDisplay, Current, NoId
  <2>2. \A j \in 1 .. n :
          /\ t.log[j].view.visit \in 1 .. Len(t.visits) /\ t.log[j].id \in 1 .. t.ids
          /\ t.log[j].view.page = t.visits[t.log[j].view.visit]
          /\ t.log[j].view.referrer = Before(t, t.log[j].view.visit)
    BY <1>3 DEF TabOK, Logged
  <2>3. \A v : Before(u, v) = Before(t, v)
    BY DEF Before
  <2> SUFFICES ASSUME NEW j \in 1 .. (n + 1)
               PROVE  /\ u.log[j].view.visit \in 1 .. Len(u.visits) /\ u.log[j].id \in 1 .. u.ids
                      /\ u.log[j].view.page = u.visits[u.log[j].view.visit]
                      /\ u.log[j].view.referrer = Before(u, u.log[j].view.visit)
    BY <1>3 DEF Logged
  <2>4. CASE j \in 1 .. n
    <3>1. u.log[j] = t.log[j]
      BY <2>4, <1>3
    <3> QED BY <2>2, <2>3, <2>4, <3>1
  <2>5. CASE j = n + 1
    <3>1. u.log[j].view = view /\ u.log[j].id = e.id
      BY <2>5, <1>2, <1>3
    <3> QED BY <2>1, <2>3, <3>1
  <2> QED BY <2>4, <2>5, <1>4
<1>6. InOrder(u)
  <2> SUFFICES ASSUME NEW j \in 1 .. (n + 1), NEW i \in 1 .. (j - 1)
               PROVE  \/ u.log[i].view.visit < u.log[j].view.visit
                      \/ u.log[i].view.visit = u.log[j].view.visit /\ u.log[i].id # u.log[j].id
    BY <1>3 DEF InOrder
  <2>1. CASE j \in 1 .. n
    <3>1. i \in 1 .. n
      BY <2>1
    <3>2. u.log[i] = t.log[i] /\ u.log[j] = t.log[j] /\ j \in DOMAIN t.log
      BY <2>1, <3>1, <1>3
    <3>3. InOrder(t)
      BY DEF TabOK
    <3> QED BY <3>2, <3>3 DEF InOrder
  <2>2. CASE j = n + 1
    <3>1. i \in 1 .. n
      BY <2>2
    <3>2. PICK v \in Nat : v = Len(t.visits)
      BY <1>1, EmptyFacts
    <3>3. t.log[i].view.visit \in 1 .. v
      BY <3>1, <3>2, <1>3 DEF TabOK, Logged
    <3>4. t.log[i].view.visit < v \/ t.log[i].view.visit = v
      BY <3>3
    <3>5. t.log[i].view.visit = v => t.log[i].id # t.cookie
      BY <3>1, <3>2, <1>3 DEF Unlogged
    <3>6. u.log[j].view.visit = v /\ u.log[j].id = t.cookie /\ u.log[i] = t.log[i]
      BY <2>2, <3>1, <3>2, <1>2, <1>3 DEF Current
    <3> QED BY <3>4, <3>5, <3>6
  <2> QED BY <2>1, <2>2, <1>4
<1>7. Waiting(u, us) /\ OnDisplay(u)
  BY DEF TabOK, Waiting, OnDisplay, Before
<1>8. Held(u, us)
  BY <1>1 DEF Held, Current
<1> QED BY <1>2, <1>3, <1>5, <1>6, <1>7, <1>8 DEF TabOK

LEMMA SendKeeps ==
  ASSUME NEW t, NEW us, NEW c \in {"granted", "denied"}, TabOK(t, us), t.pending = NoView,
         t.sent, NEW view, Current(t, view, us), Unlogged(t)
  PROVE  LET s == Send(t, c, view) IN
         /\ TabOK(s, us) /\ Follows(t, s, c) /\ s.pending = NoView
         /\ s.shown = t.shown /\ s.referrer = t.referrer /\ s.visits = t.visits
<1> DEFINE s == Send(t, c, view)
<1>1. CASE c = "granted"
  <2>1. PICK i : i = Identified(t)
    OBVIOUS
  <2>2. /\ TabOK(i, us) /\ i.cookie # NoId /\ (t.cookie # NoId => i.cookie = t.cookie)
        /\ i.log = t.log /\ i.gtm = t.gtm /\ i.visits = t.visits /\ i.shown = t.shown
        /\ i.referrer = t.referrer /\ i.sent = t.sent /\ i.pending = t.pending
        /\ Unlogged(i)
    BY <2>1, IdentifiedKeeps
  <2>3. /\ i \in Tab /\ i.log \in Seq(Entry) /\ i.cookie \in Nat /\ view \in View
        /\ view.user \in Users \cup {NoUser}
    BY <2>2 DEF TabOK, Tab, Current, View
  <2>4. PICK e \in Entry : e = [view |-> view, id |-> i.cookie]
    BY <2>3 DEF Entry
  <2>5. PICK b \in BOOLEAN : b = (view.user # NoUser)
    <3>1. (view.user # NoUser) \in BOOLEAN
      OBVIOUS
    <3> QED BY <3>1
  <2>6. PICK l \in Seq(Entry) : l = Append(i.log, e)
    BY <2>3, AppendFacts
  <2>7. PICK g \in [user : Users \cup {NoUser}, id : Nat] : g = [user |-> view.user, id |-> i.cookie]
    BY <2>3
  <2>8. s = [i EXCEPT !.gtm = g, !.log = l, !.userIn = b, !.idIn = TRUE]
    BY <1>1, <2>1, <2>4, <2>5, <2>6, <2>7 DEF Send
  <2>9. /\ s \in Tab /\ s.shown = i.shown /\ s.referrer = i.referrer /\ s.sent = i.sent
        /\ s.pending = i.pending /\ s.userIn = b /\ s.idIn /\ s.gtm = g /\ s.log = l
        /\ s.visits = i.visits /\ s.cookie = i.cookie /\ s.ids = i.ids
    BY <2>3, <2>8 DEF Tab
  <2>10. g.user = view.user /\ g.id = i.cookie
    BY <2>7
  <2>11. Current(i, view, us)
    BY <2>2 DEF Current
  <2> HIDE DEF s
  <2>12. TabOK(s, us) /\ s.log[Len(s.log)].id = s.cookie
    <3>1. /\ s.log = Append(i.log, [view |-> view, id |-> i.cookie])
          /\ (view.user # NoUser => s.userIn) /\ s.idIn
          /\ s.gtm.user = view.user /\ s.gtm.id = i.cookie
      BY <2>4, <2>5, <2>6, <2>9, <2>10
    <3>2. i.pending = NoView /\ i.sent /\ TabOK(i, us) /\ i.cookie # NoId /\ Unlogged(i)
      BY <2>2
    <3>3. s \in Tab /\ Counted(i, view, s)
      BY <2>9, <3>1 DEF Counted
    <3> QED BY <2>11, <3>1, <3>2, <3>3, OneMoreEvent
  <2>13. Follows(t, s, c)
    BY <1>1, <2>2, <2>9, <2>10, <2>12 DEF Follows
  <2> QED BY <2>2, <2>9, <2>12, <2>13 DEF s
<1>2. CASE c = "denied"
  <2>1. t.sent /\ view.page = t.shown
    BY DEF Current
  <2>2. s = [t EXCEPT !.sent = FALSE]
    BY <1>2, <2>1 DEF Send
  <2>3. /\ s \in Tab /\ s.shown = t.shown /\ s.referrer = t.referrer /\ ~s.sent
        /\ s.pending = t.pending /\ s.userIn = t.userIn /\ s.idIn = t.idIn /\ s.gtm = t.gtm
        /\ s.log = t.log /\ s.visits = t.visits /\ s.cookie = t.cookie /\ s.ids = t.ids
    BY <2>2 DEF TabOK, Tab
  <2> HIDE DEF s
  <2>4. TabOK(s, us)
    BY <2>3 DEF TabOK, OnDisplay, Logged, InOrder, Waiting, Held, Before, Unlogged
  <2> QED BY <2>3, <2>4, FollowsSame DEF s
<1> QED BY <1>1, <1>2

LEMMA SettledKeeps ==
  ASSUME NEW t, NEW us, NEW c \in {"granted", "denied"}, TabOK(t, us)
  PROVE  LET s == Settled(t, c) IN
         /\ TabOK(s, us) /\ Follows(t, s, c) /\ s.pending = NoView
         /\ s.shown = t.shown /\ s.referrer = t.referrer /\ s.visits = t.visits
<1>1. CASE t.pending = NoView
  BY <1>1, FollowsItself DEF Settled
<1>2. CASE t.pending # NoView
  <2>1. PICK u : u = [t EXCEPT !.pending = NoView]
    OBVIOUS
  <2>2. /\ u \in Tab /\ u.shown = t.shown /\ u.referrer = t.referrer /\ u.sent = t.sent
        /\ u.pending = NoView /\ u.userIn = t.userIn /\ u.idIn = t.idIn /\ u.gtm = t.gtm
        /\ u.log = t.log /\ u.visits = t.visits /\ u.cookie = t.cookie /\ u.ids = t.ids
    BY <2>1 DEF TabOK, Tab
  <2>3. t.sent /\ Unlogged(u) /\ Current(u, t.pending, us)
    BY <1>2, <2>2 DEF TabOK, Waiting, Unlogged, Current
  <2>4. TabOK(u, us)
    BY <2>2, <2>3 DEF TabOK, OnDisplay, Logged, InOrder, Waiting, Held, Before
  <2>5. PICK view : view = t.pending
    OBVIOUS
  <2>6. Settled(t, c) = Send(u, c, view)
    BY <1>2, <2>1, <2>5 DEF Settled
  <2>7. Follows(t, u, c)
    BY <2>2, FollowsSame
  <2>8. LET s == Send(u, c, view) IN
         /\ TabOK(s, us) /\ Follows(u, s, c) /\ s.pending = NoView
         /\ s.shown = u.shown /\ s.referrer = u.referrer /\ s.visits = u.visits
    <3>1. u.sent /\ u.pending = NoView /\ Current(u, view, us) /\ Unlogged(u)
      BY <2>2, <2>3, <2>5
    <3> QED BY <2>4, <3>1, SendKeeps
  <2> QED BY <2>2, <2>6, <2>7, <2>8, FollowsTwice
<1> QED BY <1>1, <1>2

LEMMA ShownKeeps ==
  ASSUME ConstantsOK, NEW t, NEW us, NEW c \in {"granted", "denied"}, NEW p \in Pages,
         TabOK(t, us)
  PROVE  LET s == Shown(t, c, p) IN
         TabOK(s, us) /\ Follows(t, s, c) /\ s.shown = p /\ s.visits # <<>>
<1> DEFINE s == Shown(t, c, p)
<1>1. CASE p = t.shown
  BY <1>1, FollowsItself DEF ConstantsOK, Shown, TabOK, OnDisplay
<1>2. CASE p # t.shown
  <2>1. PICK w : w = Settled(t, c)
    OBVIOUS
  <2>2. /\ TabOK(w, us) /\ Follows(t, w, c) /\ w.pending = NoView
        /\ w.shown = t.shown /\ w.referrer = t.referrer /\ w.visits = t.visits
    BY <2>1, SettledKeeps
  <2>3. w \in Tab /\ w.visits \in Seq(Pages) /\ w.shown \in Pages \cup {NoPage}
    BY <2>2 DEF TabOK, Tab
  <2>4. PICK l \in Seq(Pages) : l = Append(w.visits, p)
    BY <2>3, AppendFacts
  <2>5. s = [w EXCEPT !.referrer = w.shown, !.shown = p, !.sent = FALSE, !.visits = l]
    BY <1>2, <2>1, <2>2, <2>4 DEF Shown
  <2>6. /\ s \in Tab /\ s.shown = p /\ s.referrer = w.shown /\ ~s.sent
        /\ s.pending = w.pending /\ s.userIn = w.userIn /\ s.idIn = w.idIn /\ s.gtm = w.gtm
        /\ s.log = w.log /\ s.visits = l /\ s.cookie = w.cookie /\ s.ids = w.ids
    BY <2>3, <2>5 DEF Tab
  <2> HIDE DEF s
  <2>7. PICK n \in Nat : /\ n = Len(w.visits) /\ (w.visits = <<>> <=> n = 0)
                         /\ l # <<>> /\ Len(l) = n + 1 /\ l[n + 1] = p
                         /\ \A i \in 1 .. n : l[i] = w.visits[i]
    BY <2>3, <2>4, AppendFacts, EmptyFacts
  <2>8. \A v \in 1 .. n : Before(s, v) = Before(w, v)
    <3> SUFFICES ASSUME NEW v \in 1 .. n, v # 1 PROVE s.visits[v - 1] = w.visits[v - 1]
      BY DEF Before
    <3>1. v - 1 \in 1 .. n
      OBVIOUS
    <3> QED BY <3>1, <2>6, <2>7
  <2>9. OnDisplay(s)
    <3>1. s.referrer = Before(s, n + 1)
      <4>1. CASE n = 0
        BY <4>1, <2>2, <2>6, <2>7 DEF TabOK, OnDisplay, Before
      <4>2. CASE n # 0
        <5>1. n + 1 # 1 /\ (n + 1) - 1 = n /\ n \in 1 .. n
          BY <4>2
        <5>2. w.shown = w.visits[n]
          BY <4>2, <2>2, <2>7 DEF TabOK, OnDisplay
        <5> QED BY <5>1, <5>2, <2>6, <2>7 DEF Before
      <4> QED BY <4>1, <4>2
    <3> QED BY <3>1, <2>6, <2>7 DEF OnDisplay
  <2>10. \A j \in DOMAIN w.log : w.log[j].view.visit \in 1 .. n
    BY <2>2, <2>7 DEF TabOK, Logged
  <2>11. Logged(s)
    <3> SUFFICES ASSUME NEW j \in DOMAIN w.log
                 PROVE  /\ w.log[j].view.visit \in 1 .. Len(l) /\ w.log[j].id \in 1 .. w.ids
                        /\ w.log[j].view.page = l[w.log[j].view.visit]
                        /\ w.log[j].view.referrer = Before(s, w.log[j].view.visit)
      BY <2>6 DEF Logged
    <3>1. PICK v \in 1 .. n : v = w.log[j].view.visit
      BY <2>10
    <3>2. /\ w.log[j].id \in 1 .. w.ids /\ w.log[j].view.page = w.visits[v]
          /\ w.log[j].view.referrer = Before(w, v)
      BY <2>2, <3>1 DEF TabOK, Logged
    <3>3. v \in 1 .. (n + 1)
      OBVIOUS
    <3> QED BY <3>1, <3>2, <3>3, <2>7, <2>8
  <2>12. Unlogged(s)
    <3>1. \A j \in DOMAIN w.log : w.log[j].view.visit # n + 1
      BY <2>10
    <3> QED BY <3>1, <2>6, <2>7 DEF Unlogged
  <2>13. InOrder(s) /\ Waiting(s, us) /\ Held(s, us)
    BY <2>2, <2>6, <2>12 DEF TabOK, InOrder, Waiting, Held
  <2>14. Follows(t, s, c)
    BY <2>2, <2>6, FollowsSame, FollowsTwice
  <2> QED BY <2>2, <2>6, <2>7, <2>9, <2>11, <2>13, <2>14 DEF TabOK, s
<1> QED BY <1>1, <1>2

LEMMA ShowPageKeeps ==
  ASSUME ConstantsOK, NEW t, NEW us, NEW c \in {"granted", "denied"}, NEW p \in Pages,
         NEW canSend \in BOOLEAN, NEW user \in us \cap (Users \cup {NoUser}), TabOK(t, us)
  PROVE  LET r == ShowPage(t, c, p, canSend, user) IN TabOK(r, us) /\ Follows(t, r, c)
<1> DEFINE r == ShowPage(t, c, p, canSend, user)
<1>1. PICK s : s = Shown(t, c, p)
  OBVIOUS
<1>2. TabOK(s, us) /\ Follows(t, s, c) /\ s.shown = p /\ s.visits # <<>>
  BY <1>1, ShownKeeps
<1>3. CASE ~ViewDue(s, c, canSend)
  BY <1>1, <1>2, <1>3 DEF ShowPage
<1>4. CASE ViewDue(s, c, canSend)
  <2>1. /\ c = "granted" /\ ~s.sent /\ s.pending = NoView /\ Unlogged(s) /\ s \in Tab
        /\ Len(s.visits) \in Nat /\ s.referrer \in Pages \cup {NoPage}
    <3>1. s \in Tab /\ s.visits \in Seq(Pages) /\ s.referrer \in Pages \cup {NoPage}
      BY <1>2 DEF TabOK, Tab
    <3> QED BY <3>1, <1>2, <1>4, EmptyFacts DEF ViewDue, TabOK, Waiting
  <2>2. PICK view : view = [visit |-> Len(s.visits), page |-> p, referrer |-> s.referrer,
                            user |-> user]
    OBVIOUS
  <2>3. Current(s, view, us)
    BY <1>2, <2>1, <2>2 DEF Current, View
  <2>4. PICK q : q = [s EXCEPT !.sent = TRUE]
    OBVIOUS
  <2>5. /\ q \in Tab /\ q.shown = s.shown /\ q.referrer = s.referrer /\ q.sent
        /\ q.pending = s.pending /\ q.userIn = s.userIn /\ q.idIn = s.idIn /\ q.gtm = s.gtm
        /\ q.log = s.log /\ q.visits = s.visits /\ q.cookie = s.cookie /\ q.ids = s.ids
    BY <2>1, <2>4 DEF Tab
  <2>6. TabOK(q, us) /\ Unlogged(q)
    BY <1>2, <2>1, <2>5 DEF TabOK, OnDisplay, Logged, InOrder, Waiting, Held, Before, Unlogged
  <2>7. PICK due : due = Identified(q)
    OBVIOUS
  <2>8. /\ TabOK(due, us) /\ due.cookie # NoId /\ (q.cookie # NoId => due.cookie = q.cookie)
        /\ due.log = q.log /\ due.gtm = q.gtm /\ due.visits = q.visits /\ due.shown = q.shown
        /\ due.referrer = q.referrer /\ due.sent = q.sent /\ due.pending = q.pending
        /\ Unlogged(due)
    BY <2>6, <2>7, IdentifiedKeeps
  <2>9. Follows(t, due, c)
    <3>1. Follows(s, due, c)
      BY <2>1, <2>5, <2>8 DEF Follows
    <3> QED BY <3>1, <1>2, FollowsTwice
  <2>10. Current(due, view, us)
    BY <2>3, <2>5, <2>8 DEF Current
  <2>11. CASE title
    <3>1. r = Send(due, c, view)
      BY <1>1, <1>4, <2>2, <2>4, <2>7, <2>11 DEF ShowPage
    <3>2. due.sent /\ due.pending = NoView
      BY <2>1, <2>5, <2>8
    <3>3. TabOK(Send(due, c, view), us) /\ Follows(due, Send(due, c, view), c)
      BY <3>2, <2>8, <2>10, SendKeeps
    <3> QED BY <3>1, <3>3, <2>9, FollowsTwice
  <2>12. CASE ~title
    <3>1. r = [due EXCEPT !.pending = view]
      BY <1>1, <1>4, <2>2, <2>4, <2>7, <2>12 DEF ShowPage
    <3>2. /\ r \in Tab /\ r.shown = due.shown /\ r.referrer = due.referrer /\ r.sent
          /\ r.pending = view /\ r.userIn = due.userIn /\ r.idIn = due.idIn /\ r.gtm = due.gtm
          /\ r.log = due.log /\ r.visits = due.visits /\ r.cookie = due.cookie
          /\ r.ids = due.ids
      <4>1. due \in Tab /\ view \in View /\ due.sent
        BY <2>5, <2>8, <2>10 DEF TabOK, Current
      <4> QED BY <3>1, <4>1 DEF Tab
    <3> HIDE DEF r
    <3>3. Waiting(r, us)
      BY <2>8, <2>10, <3>2 DEF Waiting, Current, Unlogged
    <3>4. TabOK(r, us)
      BY <2>8, <3>2, <3>3 DEF TabOK, OnDisplay, Logged, InOrder, Held, Before
    <3>5. Follows(t, r, c)
      BY <2>9, <3>2, FollowsSame, FollowsTwice
    <3> QED BY <3>4, <3>5 DEF r
  <2> QED BY <2>11, <2>12
<1> QED BY <1>3, <1>4

LEMMA UserClearedKeeps ==
  ASSUME NEW t, NEW us, NEW c \in {"granted", "denied"}, TabOK(t, us), NEW vs, NoUser \in vs
  PROVE  TabOK(UserCleared(t, c), vs) /\ Follows(t, UserCleared(t, c), c)
<1> DEFINE r == UserCleared(t, c)
<1>1. PICK f : f = Settled(t, c)
  OBVIOUS
<1>2. TabOK(f, us) /\ Follows(t, f, c) /\ f.pending = NoView /\ f \in Tab
  BY <1>1, SettledKeeps DEF TabOK
<1>3. CASE ~f.userIn
  <2>1. r = f
    BY <1>1, <1>3 DEF UserCleared
  <2>2. TabOK(f, vs)
    BY <1>2, <1>3 DEF TabOK, Waiting, Held
  <2> QED BY <2>1, <2>2, <1>2
<1>4. CASE f.userIn
  <2>1. PICK g \in [user : Users \cup {NoUser}, id : Nat] : g = [f.gtm EXCEPT !.user = NoUser]
    BY <1>2 DEF Tab
  <2>2. r = [f EXCEPT !.gtm = g, !.userIn = FALSE]
    BY <1>1, <1>2, <1>4, <2>1 DEF UserCleared, Tab
  <2>3. /\ r \in Tab /\ r.shown = f.shown /\ r.referrer = f.referrer /\ r.sent = f.sent
        /\ r.pending = f.pending /\ r.idIn = f.idIn /\ r.gtm = g
        /\ r.log = f.log /\ r.visits = f.visits /\ r.cookie = f.cookie /\ r.ids = f.ids
    BY <1>2, <2>2 DEF Tab
  <2>4. g.user = NoUser /\ g.id = f.gtm.id
    BY <1>2, <2>1 DEF Tab
  <2> HIDE DEF r
  <2>5. TabOK(r, vs)
    BY <1>2, <2>3, <2>4 DEF TabOK, OnDisplay, Logged, InOrder, Waiting, Held, Before, Unlogged
  <2>6. Follows(t, r, c)
    BY <1>2, <2>3, <2>4, FollowsSame, FollowsTwice
  <2> QED BY <2>5, <2>6 DEF r
<1> QED BY <1>3, <1>4

(* The page may be counted again: nothing has been, with these identifiers.*)
LEMMA IdentifiersClearedKeeps ==
  ASSUME NEW t, NEW us, TabOK(t, us), t.log = <<>> \/ t.cookie = NoId, NEW vs, NoUser \in vs
  PROVE  LET r == IdentifiersCleared(t, "denied") IN
         TabOK(r, vs) /\ Follows(t, r, "denied") /\ r.gtm.id = NoId
<1> DEFINE r == IdentifiersCleared(t, "denied")
<1>1. PICK w : w = Settled(t, "denied")
  OBVIOUS
<1>2. TabOK(w, us) /\ Follows(t, w, "denied") /\ w.pending = NoView /\ w \in Tab
  BY <1>1, SettledKeeps DEF TabOK
<1>3. w.log = t.log /\ w.cookie = t.cookie
  BY <1>2 DEF Follows
<1>4. Unlogged(w)
  <2>1. CASE t.log = <<>>
    BY <2>1, <1>3 DEF Unlogged
  <2>2. CASE t.cookie = NoId
    <3>1. \A j \in DOMAIN w.log : w.log[j].id # NoId
      BY <1>2 DEF TabOK, Logged, NoId
    <3> QED BY <3>1, <2>2, <1>3 DEF Unlogged
  <2> QED BY <2>1, <2>2
<1>5. PICK f : f = [w EXCEPT !.sent = FALSE]
  OBVIOUS
<1>6. /\ f \in Tab /\ f.shown = w.shown /\ f.referrer = w.referrer /\ ~f.sent
      /\ f.pending = w.pending /\ f.userIn = w.userIn /\ f.idIn = w.idIn /\ f.gtm = w.gtm
      /\ f.log = w.log /\ f.visits = w.visits /\ f.cookie = w.cookie /\ f.ids = w.ids
  BY <1>2, <1>5 DEF Tab
<1>7. TabOK(f, us)
  BY <1>2, <1>4, <1>6 DEF TabOK, OnDisplay, Logged, InOrder, Waiting, Held, Before, Unlogged
<1>8. Follows(t, f, "denied")
  BY <1>2, <1>6, FollowsSame, FollowsTwice
<1>9. CASE ~(f.userIn \/ f.idIn)
  <2>1. r = f
    BY <1>1, <1>5, <1>9 DEF IdentifiersCleared
  <2>2. TabOK(f, vs) /\ f.gtm.id = NoId
    BY <1>2, <1>6, <1>7, <1>9 DEF TabOK, Waiting, Held
  <2> QED BY <2>1, <2>2, <1>8
<1>10. CASE f.userIn \/ f.idIn
  <2>1. PICK g \in [user : Users \cup {NoUser}, id : Nat] : g = [user |-> NoUser, id |-> NoId]
    BY DEF NoId
  <2>2. r = [f EXCEPT !.gtm = g, !.userIn = FALSE, !.idIn = FALSE]
    BY <1>1, <1>5, <1>10, <2>1 DEF IdentifiersCleared
  <2>3. /\ r \in Tab /\ r.shown = f.shown /\ r.referrer = f.referrer /\ r.sent = f.sent
        /\ r.pending = f.pending /\ r.gtm = g
        /\ r.log = f.log /\ r.visits = f.visits /\ r.cookie = f.cookie /\ r.ids = f.ids
    BY <1>6, <2>2 DEF Tab
  <2>4. g.user = NoUser /\ g.id = NoId
    BY <2>1
  <2> HIDE DEF r
  <2>5. TabOK(r, vs)
    BY <1>2, <1>6, <1>7, <2>3, <2>4
       DEF TabOK, OnDisplay, Logged, InOrder, Waiting, Held, Before, Unlogged
  <2>6. Follows(t, r, "denied")
    BY <1>8, <2>3, <2>4, FollowsSame, FollowsTwice
  <2> QED BY <2>3, <2>4, <2>5, <2>6 DEF r
<1> QED BY <1>9, <1>10

-----------------------------------------------------------------------------
(* tracking.tsx                                                            *)
LEMMA UserOfFacts ==
  ASSUME NEW s PROVE UserOf(s) \in Users \cup {NoUser} /\ UserOf(s) \in {NoUser, s}
  BY DEF UserOf

LEMMA RouteEffectsKeep ==
  ASSUME ConstantsOK, url \in Pages, NEW t, NEW us, NEW c \in {"granted", "denied"},
         TabOK(t, us), UserOf(session) \in us
  PROVE  TabOK(RouteEffects(t, c), us) /\ Follows(t, RouteEffects(t, c), c)
<1>1. PICK b \in BOOLEAN : b = (consent = "granted" /\ session # Checking)
  <2>1. (consent = "granted" /\ session # Checking) \in BOOLEAN
    OBVIOUS
  <2> QED BY <2>1
<1>2. PICK p \in Pages : p = url
  OBVIOUS
<1>3. PICK user \in us \cap (Users \cup {NoUser}) : user = UserOf(session)
  BY UserOfFacts
<1>4. RouteEffects(t, c) = IF t.shown = p THEN t ELSE ShowPage(t, c, p, b, user)
  BY <1>1, <1>2, <1>3 DEF RouteEffects
<1> QED BY <1>4, ShowPageKeeps, FollowsItself

LEMMA EffectsKeep ==
  ASSUME ConstantsOK, url \in Pages, NEW t, NEW us, NEW c \in {"granted", "denied"}, NEW s,
         TabOK(t, us), UserOf(s) \in us, NEW cc \in BOOLEAN, NEW uc \in BOOLEAN,
         cc /\ c = "denied" => t.log = <<>> \/ t.cookie = NoId
  PROVE  LET r == Effects(t, c, s, cc, uc) IN
         /\ TabOK(r, us) /\ Follows(t, r, c)
         /\ cc /\ c = "denied" => r.gtm.id = NoId
         /\ uc /\ ~cc /\ UserOf(s) = NoUser => TabOK(r, {NoUser})
<1> DEFINE r == Effects(t, c, s, cc, uc)
<1>0. NoUser \in us
  BY DEF TabOK
<1>1. PICK b \in BOOLEAN : b = (c = "granted" /\ s # Checking)
  <2>1. (c = "granted" /\ s # Checking) \in BOOLEAN
    OBVIOUS
  <2> QED BY <2>1
<1>2. PICK p \in Pages : p = url
  OBVIOUS
<1>3. PICK user \in us \cap (Users \cup {NoUser}) : user = UserOf(s)
  BY UserOfFacts
<1>4. PICK seen : seen = ShowPage(t, c, p, b, user)
  OBVIOUS
<1>5. TabOK(seen, us) /\ Follows(t, seen, c)
  BY <1>4, ShowPageKeeps
<1>6. PICK left : left = IF uc /\ user = NoUser THEN UserCleared(seen, c) ELSE seen
  OBVIOUS
<1>7. /\ TabOK(left, us) /\ Follows(t, left, c)
      /\ uc /\ user = NoUser => TabOK(left, {NoUser})
  <2>1. CASE uc /\ user = NoUser
    <3>1. TabOK(left, us) /\ TabOK(left, {NoUser}) /\ Follows(seen, left, c)
      BY <2>1, <1>0, <1>5, <1>6, UserClearedKeeps
    <3> QED BY <3>1, <1>5, FollowsTwice
  <2>2. CASE ~(uc /\ user = NoUser)
    BY <2>2, <1>5, <1>6
  <2> QED BY <2>1, <2>2
<1>8. r = IF cc /\ c # "granted" THEN IdentifiersCleared(left, c) ELSE left
  BY <1>1, <1>2, <1>3, <1>4, <1>6 DEF Effects
<1>9. CASE cc /\ c = "denied"
  <2>1. left.log = <<>> \/ left.cookie = NoId
    BY <1>7, <1>9 DEF Follows
  <2>2. r = IdentifiersCleared(left, "denied")
    BY <1>8, <1>9
  <2>3. TabOK(r, us) /\ Follows(left, r, c) /\ r.gtm.id = NoId
    BY <2>1, <2>2, <1>0, <1>7, <1>9, IdentifiersClearedKeeps
  <2> QED BY <2>3, <1>7, <1>9, FollowsTwice
<1>10. CASE ~(cc /\ c = "denied")
  BY <1>3, <1>7, <1>8, <1>10
<1> QED BY <1>9, <1>10

LEMMA HeldAfter ==
  ASSUME NEW t, NEW new, NEW c, Follows(t, new, c), t.gtm.id \in {NoId, t.cookie},
         c = "denied" => t.gtm.id = NoId
  PROVE  new.gtm.id \in {NoId, new.cookie} /\ (c = "denied" => new.gtm.id = NoId)
  BY DEF Follows

-----------------------------------------------------------------------------
(* What a step may do to events and identifiers.                           *)
Allowed ==
  /\ tab'.log # tab.log =>
       consent' = "granted" /\ tab'.log[Len(tab'.log)].id = tab'.cookie
  /\ tab.cookie # NoId /\ tab'.cookie # tab.cookie => known' /\ consent' = "denied"

LEMMA AllowedAfter ==
  ASSUME NEW t, t.log = tab.log, Follows(t, tab', consent'),
         t.cookie = tab.cookie \/ tab.cookie = NoId \/ (known' /\ consent' = "denied")
  PROVE  Allowed
  BY DEF Follows, Allowed

LEMMA InitIsFine ==
  ASSUME Init, ConstantsOK
  PROVE  TrackingInv
<1>1. PICK c \in {NoId, 1} :
        /\ tab = [shown |-> NoPage, referrer |-> NoPage, sent |-> FALSE, pending |-> NoView,
                  userIn |-> FALSE, idIn |-> FALSE, gtm |-> [user |-> NoUser, id |-> NoId],
                  log |-> <<>>, cookie |-> c, ids |-> c, visits |-> <<>>]
        /\ c \in Nat
  BY DEF Init, NoId
<1>2. tab \in Tab
  BY <1>1 DEF Tab, NoId
<1>3. /\ tab.shown = NoPage /\ tab.sent = FALSE /\ tab.pending = NoView /\ tab.gtm.user = NoUser
      /\ tab.gtm.id = NoId /\ tab.log = <<>> /\ tab.cookie = c /\ tab.ids = c /\ tab.visits = <<>>
  BY <1>1
<1>4. OnDisplay(tab) /\ Logged(tab) /\ InOrder(tab) /\ Unlogged(tab)
  BY <1>3 DEF OnDisplay, Logged, InOrder, Unlogged
<1>5. TabOK(tab, {NoUser, UserOf(session)})
  BY <1>1, <1>2, <1>3, <1>4 DEF TabOK, Waiting, Held
<1> QED BY <1>3, <1>5 DEF Init, TrackingInv

LEMMA MountKeeps ==
  ASSUME TrackingInv, ConstantsOK, Mount
  PROVE  TrackingInv' /\ Allowed
<1> DEFINE us == {NoUser, UserOf(session)}
<1>1. PICK t : t = FollowConsent(tab, consent, known)
  OBVIOUS
<1>2. /\ TabOK(t, us) /\ t.log = tab.log /\ t.gtm = tab.gtm
      /\ consent = "granted" => t.cookie # NoId /\ (tab.cookie # NoId => t.cookie = tab.cookie)
      /\ consent = "denied" => t.cookie = IF known THEN NoId ELSE tab.cookie
  BY <1>1, FollowConsentKeeps DEF TrackingInv
<1>3. /\ tab' = Effects(t, consent, session, TRUE, TRUE) /\ mounted'
      /\ UNCHANGED <<consent, known, session, url>> /\ tab.log = <<>>
  BY <1>1 DEF Mount, TrackingInv
<1>4. /\ TabOK(tab', us) /\ Follows(t, tab', consent)
      /\ consent = "denied" => tab'.gtm.id = NoId
  BY <1>2, <1>3, EffectsKeep DEF TrackingInv
<1>5. consent = "granted" => tab'.gtm.id \in {NoId, tab'.cookie}
  BY <1>2, <1>4 DEF TrackingInv, Follows
<1>6. Allowed
  BY <1>2, <1>3, <1>4, AllowedAfter DEF TrackingInv
<1> QED BY <1>3, <1>4, <1>5, <1>6 DEF TrackingInv, UserOf

LEMMA ConsentReadyKeeps ==
  ASSUME TrackingInv, ConstantsOK, NEW c \in {"granted", "denied"}, ConsentReady(c)
  PROVE  TrackingInv' /\ Allowed
<1> DEFINE us == {NoUser, UserOf(session)}
<1>1. PICK t : t = FollowConsent(tab, c, TRUE)
  OBVIOUS
<1>2. /\ TabOK(t, us) /\ t.log = tab.log /\ t.gtm = tab.gtm
      /\ c = "granted" => t.cookie # NoId /\ (tab.cookie # NoId => t.cookie = tab.cookie)
      /\ c = "denied" => t.cookie = NoId
  BY <1>1, FollowConsentKeeps DEF TrackingInv
<1>3. /\ tab' = IF c = consent THEN t
                ELSE Effects(RouteEffects(t, c), c, session, TRUE, FALSE)
      /\ mounted' /\ consent' = c /\ known' = TRUE /\ UNCHANGED <<session, url>>
  BY <1>1 DEF ConsentReady
<1>4. TabOK(tab', us) /\ Follows(t, tab', c) /\ (c = "denied" => tab'.gtm.id = NoId)
  <2>1. CASE c = consent
    BY <2>1, <1>2, <1>3, FollowsItself DEF TrackingInv
  <2>2. CASE c # consent
    <3>1. PICK u : u = RouteEffects(t, c)
      OBVIOUS
    <3>2. TabOK(u, us) /\ Follows(t, u, c)
      BY <3>1, <1>2, RouteEffectsKeep DEF TrackingInv
    <3>3. c = "denied" => u.cookie = NoId
      BY <3>2, <1>2 DEF Follows
    <3>4. /\ TabOK(tab', us) /\ Follows(u, tab', c)
          /\ c = "denied" => tab'.gtm.id = NoId
      <4>1. tab' = Effects(u, c, session, TRUE, FALSE)
        BY <2>2, <3>1, <1>3
      <4> QED BY <3>2, <3>3, <4>1, EffectsKeep DEF TrackingInv
    <3> QED BY <3>2, <3>4, FollowsTwice
  <2> QED BY <2>1, <2>2
<1>5. c = "granted" => tab'.gtm.id \in {NoId, tab'.cookie}
  BY <1>2, <1>4 DEF TrackingInv, Follows
<1>6. Allowed
  BY <1>2, <1>3, <1>4, AllowedAfter
<1> QED BY <1>3, <1>4, <1>5, <1>6 DEF TrackingInv, UserOf

(* A user id that waited, or was pushed, goes with its user.               *)
LEMMA SessionChangeKeeps ==
  ASSUME TrackingInv, ConstantsOK, NEW s \in Users \cup {NoUser}, SessionChange(s)
  PROVE  TrackingInv' /\ Allowed
<1> DEFINE old == {NoUser, UserOf(session)}
           both == {NoUser, UserOf(session), UserOf(s)}
<1>1. PICK t : t = RouteEffects(tab, consent)
  OBVIOUS
<1>2. TabOK(t, old) /\ Follows(tab, t, consent)
  BY <1>1, RouteEffectsKeep DEF TrackingInv
<1>3. TabOK(t, both)
  BY <1>2 DEF TabOK, Waiting, Current, Held
<1>4. PICK uc \in BOOLEAN : uc = (UserOf(s) # UserOf(session))
  <2>1. (UserOf(s) # UserOf(session)) \in BOOLEAN
    OBVIOUS
  <2> QED BY <2>1
<1>5. /\ tab' = Effects(t, consent, s, FALSE, uc) /\ session' = s /\ mounted /\ mounted'
      /\ UNCHANGED <<consent, known, url>>
  BY <1>1, <1>4 DEF SessionChange
<1>6. /\ TabOK(tab', both) /\ Follows(t, tab', consent)
      /\ uc /\ UserOf(s) = NoUser => TabOK(tab', {NoUser})
  BY <1>3, <1>5, EffectsKeep DEF TrackingInv
<1>7. TabOK(tab', {NoUser, UserOf(s)})
  <2>1. CASE uc /\ UserOf(s) = NoUser
    BY <2>1, <1>6 DEF TabOK, Waiting, Current, Held
  <2>2. CASE ~uc
    <3>1. both = {NoUser, UserOf(s)}
      BY <2>2, <1>4
    <3> QED BY <3>1, <1>6
  <2>3. CASE UserOf(s) # NoUser
    <3>1. session = Checking \/ session = NoUser
      BY <2>3 DEF SessionChange, UserOf
    <3>2. UserOf(session) = NoUser
      BY <3>1 DEF UserOf, ConstantsOK
    <3>3. both = {NoUser, UserOf(s)}
      BY <3>2
    <3> QED BY <3>3, <1>6
  <2> QED BY <2>1, <2>2, <2>3
<1>8. Follows(tab, tab', consent)
  BY <1>2, <1>6, FollowsTwice
<1>9. tab'.gtm.id \in {NoId, tab'.cookie} /\ (consent = "denied" => tab'.gtm.id = NoId)
  BY <1>8, HeldAfter DEF TrackingInv
<1>10. Allowed
  BY <1>5, <1>8, AllowedAfter
<1>11. UserOf(session)' = UserOf(s)
  BY <1>5 DEF UserOf
<1> QED BY <1>5, <1>7, <1>9, <1>10, <1>11 DEF TrackingInv

LEMMA OtherStepsKeep ==
  ASSUME TrackingInv, ConstantsOK,
         \/ \E p \in Pages : Navigate(p)
         \/ RunRouteEffects \/ TitleBack \/ TitleTimeout \/ UNCHANGED vars
  PROVE  TrackingInv' /\ Allowed
<1> DEFINE us == {NoUser, UserOf(session)}
<1>1. /\ TabOK(tab', us) /\ Follows(tab, tab', consent)
      /\ UNCHANGED <<consent, known, session, mounted>> /\ url' \in Pages
      /\ mounted \/ (tab'.log = <<>> /\ tab'.pending = NoView)
  <2>1. CASE \E p \in Pages : Navigate(p)
    BY <2>1, FollowsItself DEF Navigate, TrackingInv
  <2>2. CASE RunRouteEffects
    BY <2>2, RouteEffectsKeep DEF RunRouteEffects, TrackingInv
  <2>3. CASE TitleBack \/ TitleTimeout
    BY <2>3, SettledKeeps DEF TitleBack, TitleTimeout, TrackingInv
  <2>4. CASE UNCHANGED vars
    BY <2>4, FollowsItself DEF vars, TrackingInv
  <2> QED BY <2>1, <2>2, <2>3, <2>4
<1>2. tab'.gtm.id \in {NoId, tab'.cookie} /\ (consent = "denied" => tab'.gtm.id = NoId)
  BY <1>1, HeldAfter DEF TrackingInv
<1>3. Allowed
  BY <1>1, AllowedAfter
<1>4. UserOf(session)' = UserOf(session)
  BY <1>1 DEF UserOf
<1> QED BY <1>1, <1>2, <1>3, <1>4 DEF TrackingInv

LEMMA StepsKeep ==
  ASSUME TrackingInv, ConstantsOK, [Next]_vars
  PROVE  TrackingInv' /\ Allowed
BY MountKeeps, ConsentReadyKeeps, SessionChangeKeeps, OtherStepsKeep DEF Next

(* Views, identifiers and the page on display agree in every state.        *)
THEOREM TrackingInvariant == Spec => []TrackingInv
BY InitIsFine, StepsKeep, ConstantsOK, PTL DEF Spec

(* One event per page shown, in order and with the page before, and a      *)
(* second one only for other identifiers.                                  *)
THEOREM OneViewPerVisit == Spec => []ViewsFollowVisits
<1>1. TrackingInv => ViewsFollowVisits
  <2> SUFFICES ASSUME Logged(tab), InOrder(tab) PROVE ViewsFollowVisits
    BY DEF TrackingInv, TabOK
  <2> QED BY DEF Logged, InOrder, Before, ViewsFollowVisits
<1> QED BY <1>1, TrackingInvariant, PTL

(* GTM holds nothing of somebody who has withdrawn consent or has left.    *)
THEOREM GtmForgetsWhoLeft == Spec => []GtmForgets
<1>1. TrackingInv => GtmForgets
  BY UserOfFacts DEF TrackingInv, TabOK, Held, GtmForgets
<1> QED BY <1>1, TrackingInvariant, PTL

(* An event goes out only with consent and the identifiers of that moment. *)
THEOREM EventsNeedConsent == Spec => ConsentRespected
<1>1. ASSUME TrackingInv, ConstantsOK, [Next]_vars
      PROVE  [tab'.log # tab.log =>
                /\ consent' = "granted"
                /\ tab'.log[Len(tab'.log)].id = tab'.cookie]_vars
  BY <1>1, StepsKeep DEF Allowed
<1> QED BY <1>1, TrackingInvariant, ConstantsOK, PTL DEF Spec, ConsentRespected

(* An identifier goes only by a refusal that is known.                     *)
THEOREM IdentityKeptUntilRefusal == Spec => CookieKept
<1>1. ASSUME TrackingInv, ConstantsOK, [Next]_vars
      PROVE  [tab.cookie # NoId /\ tab'.cookie # tab.cookie =>
                known' /\ consent' = "denied"]_vars
  BY <1>1, StepsKeep DEF Allowed
<1> QED BY <1>1, TrackingInvariant, ConstantsOK, PTL DEF Spec, CookieKept
=============================================================================
