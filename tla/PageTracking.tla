---------------------------- MODULE PageTracking ----------------------------
(***************************************************************************)
(* The page_view event of one browser tab: what lib/tracking and the     *)
(* Tracking component do as routes, titles, consent and the session      *)
(* change in any order.  React: a change of the consent or the session   *)
(* store renders at once, with its effects; a route change renders first *)
(* and runs its effects later, at the latest before the next render.     *)
(* Next.js takes the title away with the route change and puts it back   *)
(* after those effects.                                                  *)
(*                                                                       *)
(* Abstracted: session_id, which comes, goes and is pushed together with *)
(* anonymous_id (its half hour is left out), the event id and time, and  *)
(* the URL down to its tracked part.                                     *)
(***************************************************************************)
EXTENDS Naturals, Sequences

CONSTANTS
  Users,       \* accounts
  Pages,       \* tracked URLs
  NoUser, NoPage, NoView, Checking,  \* model values
  MaxVisits,   \* bound: pages shown
  MaxChanges   \* bound: changes of consent and of the session

ASSUME ConstantsOK ==
  /\ NoPage \notin Pages /\ NoUser \notin Users /\ Checking \notin Users
  /\ NoUser # Checking
  /\ MaxVisits \in Nat \ {0} /\ MaxChanges \in Nat

VARIABLES
  mounted,  \* the Tracking component has run its first effects
  consent,  \* consent.ts: "granted" or "denied"
  known,    \* consent.ts: Cookiebot has reported
  session,  \* session.ts: a user, NoUser (signed out) or Checking
  url,      \* the route on display
  title,    \* the document has a title
  tab,      \* page-view.ts, the identity cookie and what was pushed to GTM
  changes   \* changes of consent and of the session so far

vars == <<mounted, consent, known, session, url, title, tab, changes>>

NoId == 0

(* A returning visitor's cookie may be there before Cookiebot has        *)
(* reported, which it may have done before anything asks.                *)
Init ==
  /\ mounted = FALSE
  /\ known \in BOOLEAN
  /\ consent \in IF known THEN {"granted", "denied"} ELSE {"denied"}
  /\ session = Checking
  /\ url \in Pages
  /\ title = TRUE
  /\ \E c \in {NoId, 1} :
       tab = [shown    |-> NoPage,   \* shown
              referrer |-> NoPage,   \* referrer; NoPage: where the visitor came from
              sent     |-> FALSE,    \* sent
              pending  |-> NoView,   \* pending: the view that waits for a title
              userIn   |-> FALSE,    \* userIdInDataLayer
              idIn     |-> FALSE,    \* identityInDataLayer
              gtm      |-> [user |-> NoUser, id |-> NoId],  \* the merged dataLayer
              log      |-> <<>>,     \* history: the page_view events
              cookie   |-> c,        \* anonymous_id
              ids      |-> c,        \* identifiers made so far
              visits   |-> <<>>]     \* history: the pages shown
  /\ changes = 0

-----------------------------------------------------------------------------
(* identity.ts.  Each operator below takes the tab, and the consent that *)
(* getConsent answers, and gives the tab that the call leaves.           *)

(* getIdentity, with consent.                                            *)
Identified(t) ==
  IF t.cookie # NoId THEN t ELSE [t EXCEPT !.cookie = t.ids + 1, !.ids = @ + 1]

(* Mutant: a choice not yet known counts as a refusal.                   *)
FollowConsentEarly(t, c, k) ==
  IF c = "granted" THEN Identified(t) ELSE [t EXCEPT !.cookie = NoId]

(* followConsent, the consent store's listener.                          *)
FollowConsent(t, c, k) ==
  IF c = "granted" THEN Identified(t)
  ELSE IF k THEN [t EXCEPT !.cookie = NoId] ELSE t

-----------------------------------------------------------------------------
(* page-view.ts.                                                         *)

(* Mutant: the identifiers are not asked for again.                      *)
SendAnyway(t, c, view) ==
  LET i == Identified(t) IN
    [i EXCEPT !.gtm    = [user |-> view.user, id |-> i.cookie],
              !.log    = Append(@, [view |-> view, id |-> i.cookie]),
              !.userIn = view.user # NoUser,
              !.idIn   = TRUE]

(* What showPage gives sendWithTitle.                                    *)
Send(t, c, view) ==
  LET i == Identified(t) IN
    IF c = "granted"
    THEN [i EXCEPT !.gtm    = [user |-> view.user, id |-> i.cookie],
                   !.log    = Append(@, [view |-> view, id |-> i.cookie]),
                   !.userIn = view.user # NoUser,
                   !.idIn   = TRUE]
    ELSE [t EXCEPT !.sent = @ /\ t.shown # view.page]

(* settle(true).                                                         *)
Settled(t, c) ==
  IF t.pending = NoView THEN t ELSE Send([t EXCEPT !.pending = NoView], c, t.pending)

(* showPage: another page.                                               *)
Shown(t, c, p) ==
  IF p = t.shown THEN t
  ELSE [Settled(t, c) EXCEPT !.referrer = t.shown,
                             !.shown    = p,
                             !.sent     = FALSE,
                             !.visits   = Append(@, p)]

(* Mutant: the guard does not look at sent.                              *)
ViewDueAgain(t, c, canSend) == canSend /\ c = "granted"

ViewDue(t, c, canSend) == ~t.sent /\ canSend /\ c = "granted"

ShowPage(t, c, p, canSend, user) ==
  LET s    == Shown(t, c, p)
      view == [visit |-> Len(s.visits), page |-> p, referrer |-> s.referrer,
               user |-> user]
      due  == Identified([s EXCEPT !.sent = TRUE]) IN
    IF ~ViewDue(s, c, canSend) THEN s
    ELSE IF title THEN Send(due, c, view) ELSE [due EXCEPT !.pending = view]

(* Mutant: the view that waits is left alone.                            *)
UserClearedUnflushed(t, c) ==
  IF t.userIn THEN [t EXCEPT !.gtm.user = NoUser, !.userIn = FALSE] ELSE t

(* clearUserId.                                                          *)
UserCleared(t, c) ==
  LET f == Settled(t, c) IN
    IF f.userIn THEN [f EXCEPT !.gtm.user = NoUser, !.userIn = FALSE] ELSE f

(* Mutant: the page is not owed another view.                            *)
IdentifiersClearedOnly(t, c) ==
  LET f == Settled(t, c) IN
    IF f.userIn \/ f.idIn
    THEN [f EXCEPT !.gtm = [user |-> NoUser, id |-> NoId],
                   !.userIn = FALSE, !.idIn = FALSE]
    ELSE f

(* clearIdentifiers.                                                     *)
IdentifiersCleared(t, c) ==
  LET f == [Settled(t, c) EXCEPT !.sent = FALSE] IN
    IF f.userIn \/ f.idIn
    THEN [f EXCEPT !.gtm = [user |-> NoUser, id |-> NoId],
                   !.userIn = FALSE, !.idIn = FALSE]
    ELSE f

-----------------------------------------------------------------------------
(* tracking.tsx: its effects, in their order, each when what it depends  *)
(* on has changed.                                                       *)
UserOf(s) == IF s \in Users THEN s ELSE NoUser

(* A route's effects that are still to run see the props they were       *)
(* rendered with, and the consent store as it is by now.                 *)
RouteEffects(t, c) ==
  IF t.shown = url THEN t
  ELSE ShowPage(t, c, url, consent = "granted" /\ session # Checking, UserOf(session))

Effects(t, c, s, consentChanged, userChanged) ==
  LET page == ShowPage(t, c, url, c = "granted" /\ s # Checking, UserOf(s))
      user == IF userChanged /\ UserOf(s) = NoUser THEN UserCleared(page, c) ELSE page IN
    IF consentChanged /\ c # "granted" THEN IdentifiersCleared(user, c) ELSE user

Mount ==
  /\ ~mounted
  /\ mounted' = TRUE
  /\ tab' = Effects(FollowConsent(tab, consent, known), consent, session, TRUE, TRUE)
  /\ UNCHANGED <<consent, known, session, url, title, changes>>

(* CookiebotOnConsentReady: the visitor's choice, the first or another.  *)
(* An answer that only becomes known renders nothing.                    *)
ConsentReady(c) ==
  /\ mounted
  /\ changes < MaxChanges
  /\ c # consent \/ ~known
  /\ consent' = c
  /\ known' = TRUE
  /\ changes' = changes + 1
  /\ LET t == FollowConsent(tab, c, TRUE) IN
       tab' = IF c = consent THEN t
              ELSE Effects(RouteEffects(t, c), c, session, TRUE, FALSE)
  /\ UNCHANGED <<mounted, session, url, title>>

(* The session check, a login, a logout, a session that has ended.       *)
SessionChange(s) ==
  /\ mounted
  /\ changes < MaxChanges
  /\ \/ session = Checking /\ s # Checking
     \/ session \in Users /\ s = NoUser
     \/ session = NoUser /\ s \in Users
  /\ session' = s
  /\ changes' = changes + 1
  /\ tab' = Effects(RouteEffects(tab, consent), consent, s, FALSE,
                    UserOf(s) # UserOf(session))
  /\ UNCHANGED <<mounted, consent, known, url, title>>

(* A route change; one of a query parameter that is dropped keeps the    *)
(* page.                                                                 *)
Navigate(p) ==
  /\ mounted
  /\ tab.shown = url
  /\ p # url => Len(tab.visits) < MaxVisits
  /\ url' = p
  /\ title' = FALSE
  /\ UNCHANGED <<mounted, consent, known, session, tab, changes>>

RunRouteEffects ==
  /\ mounted
  /\ tab.shown # url
  /\ tab' = RouteEffects(tab, consent)
  /\ UNCHANGED <<mounted, consent, known, session, url, title, changes>>

(* Next.js puts the title back, and the observer sees it.                *)
TitleBack ==
  /\ mounted
  /\ tab.shown = url
  /\ ~title
  /\ title' = TRUE
  /\ tab' = Settled(tab, consent)
  /\ UNCHANGED <<mounted, consent, known, session, url, changes>>

(* TITLE_WAIT_MS have passed.                                            *)
TitleTimeout ==
  /\ tab.pending # NoView
  /\ tab' = Settled(tab, consent)
  /\ UNCHANGED <<mounted, consent, known, session, url, title, changes>>

Next ==
  \/ Mount
  \/ \E c \in {"granted", "denied"} : ConsentReady(c)
  \/ \E s \in Users \cup {NoUser} : SessionChange(s)
  \/ \E p \in Pages : Navigate(p)
  \/ RunRouteEffects \/ TitleBack \/ TitleTimeout

Spec == Init /\ [][Next]_vars

(* Effects and timers that are due are run; titles may never come.       *)
Fairness == WF_vars(Mount) /\ WF_vars(RunRouteEffects) /\ WF_vars(TitleTimeout)

FairSpec == Spec /\ Fairness

-----------------------------------------------------------------------------
(* "One page_view per page shown", in the order shown, and with the page *)
(* before as the referrer although that one may never have been sent; a  *)
(* second view of one page only for new identifiers, after a withdrawal. *)
ViewsFollowVisits ==
  \A j \in DOMAIN tab.log :
    LET new == tab.log[j].view IN
      /\ new.page = tab.visits[new.visit]
      /\ new.referrer = IF new.visit = 1 THEN NoPage ELSE tab.visits[new.visit - 1]
      /\ \A i \in 1..(j - 1) :
           \/ tab.log[i].view.visit < new.visit
           \/ tab.log[i].view.visit = new.visit /\ tab.log[i].id # tab.log[j].id

(* Nothing in GTM "still holds" the identifiers of a visitor who         *)
(* withdrew consent, nor the user id of a person who has left: not even  *)
(* by a view that was waiting for its title.                             *)
GtmForgets ==
  /\ tab.gtm.user \in {NoUser, session}
  /\ tab.gtm.id \in {NoId, tab.cookie}
  /\ consent = "denied" => tab.gtm.id = NoId

(* A page_view goes out only with consent at that very moment, and only  *)
(* with the identifiers the browser has at that moment.                  *)
ConsentRespected ==
  [][tab'.log # tab.log =>
       /\ consent' = "granted"
       /\ tab'.log[Len(tab'.log)].id = tab'.cookie]_vars

(* An identifier is given up only by a refusal that is known: a          *)
(* returning visitor keeps theirs until Cookiebot has reported.          *)
CookieKept ==
  [][tab.cookie # NoId /\ tab'.cookie # tab.cookie =>
       known' /\ consent' = "denied"]_vars

(* Every page shown with consent and after the session check is counted, *)
(* unless the visitor moves on before its effects run or withdraws       *)
(* consent.                                                              *)
EveryPageCounted ==
  \A v \in 1..MaxVisits :
    (Len(tab.visits) = v /\ consent = "granted" /\ session # Checking)
      ~> (\/ Len(tab.visits) # v \/ consent = "denied"
          \/ \E i \in DOMAIN tab.log :
               tab.log[i].view.visit = v /\ tab.log[i].id = tab.cookie)
=============================================================================
