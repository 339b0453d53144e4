---------------------------- MODULE GeneratePage ----------------------------
(***************************************************************************)
(* The generate page of one browser tab, its calls to the API, and the     *)
(* request they are about: the page submits, polls and retries while the   *)
(* visitor leaves and comes back and calls fail at any point.  The queue   *)
(* behind the API is the abstract lifecycle that GenerationQueue is shown  *)
(* to implement.                                                           *)
(*                                                                         *)
(* Abstracted: the form's fields and the lists it loads (the form is       *)
(* ready), messages, which of queued and running is displayed, and the     *)
(* time between router.push and the story page.                            *)
(***************************************************************************)
EXTENDS GenerationLifecycle, FiniteSets

CONSTANTS
  MaxFailures,  \* MAX_TRANSIENT_STATUS_FAILURES
  MaxMounts,    \* bound: times the page is opened
  MaxFaults     \* bound: calls that are refused or end the session, and
                \* submits and retries that are lost (polls: any number)

ASSUME ConstantsOK ==
  /\ Ids = 1..Cardinality(Ids)
  /\ AttemptLimit \in Nat \ {0}
  /\ MaxFailures \in Nat \ {0}
  /\ MaxMounts \in Nat \ {0} /\ MaxFaults \in Nat

VARIABLES
  deleted,  \* requests whose story has been deleted
  place,    \* what the visitor sees
  reading,  \* the request whose story they see
  page,     \* the state of the page, while place is "generate"
  timers,   \* effects with a poll timer set
  calls,    \* API calls that are under way
  mounts,   \* times the page was opened
  faults,
  owner,    \* history: the mount whose submit created each request
  lost,     \* history: creates (by mount) and retries (by id) given up on
  streak    \* history: polls of this effect that failed since the last good one

pageVars == <<place, reading, page, timers>>
history  == <<owner, lost, streak>>
vars == <<lifecycle, deleted, pageVars, calls, mounts, faults, history>>

NoId   == 0

(* submitState, generation ("none", "polling", "failed" or "error", and    *)
(* its request), isRetrying, the effect's consecutiveFailures, and the     *)
(* runs of the polling effect so far.                                      *)
FreshPage == [submitting |-> FALSE, phase |-> "none", id |-> NoId,
                 retrying |-> FALSE, failures |-> 0, effect |-> 0]

Init ==
  /\ LInit
  /\ deleted = {}
  /\ place = "generate"
  /\ reading = NoId
  /\ page = FreshPage
  /\ timers = {}
  /\ calls = {}
  /\ mounts = 1
  /\ faults = 0
  /\ owner = [r \in Ids |-> 0]
  /\ lost = {}
  /\ streak = 0

-----------------------------------------------------------------------------
(* The component that made a call is still on display; its effect too.     *)
Mounted(c) == place = "generate" /\ c.mount = mounts
Live(c)    == Mounted(c) /\ page.phase = "polling" /\ c.effect = page.effect

(* A call, by the mount and, if it is a poll, the effect that wait for it. *)
NewCall(kind, effect, id) ==
  [kind |-> kind, mount |-> mounts, effect |-> effect, id |-> id, step |-> "sent", waited |-> TRUE,
   status |-> "absent", story |-> FALSE]

(* The effect runs when phase or id changes to polling: a closure of its   *)
(* own, with its own count, cancelled flag and timer.                      *)
Polling(p, r) ==
  [p EXCEPT !.phase = "polling", !.id = r, !.failures = 0, !.effect = p.effect + 1]

(* The page is unmounted, and the effect's cleanup runs.                   *)
GoTo(p) ==
  /\ place' = p
  /\ reading' = NoId
  /\ page' = FreshPage
  /\ timers' = {}

(* router.push.                                                            *)
OpenStory(r) ==
  /\ place' = "story"
  /\ reading' = r
  /\ page' = FreshPage
  /\ timers' = {}

-----------------------------------------------------------------------------
(* The visitor.                                                            *)

(* Mutant: the button stays enabled while the submit is under way.         *)
SubmitAgain ==
  /\ place = "generate"
  /\ page.phase = "none"
  /\ page' = [page EXCEPT !.submitting = TRUE]
  /\ calls' = calls \cup {NewCall("create", 0, NoId)}
  /\ UNCHANGED <<lifecycle, deleted, place, reading, timers, mounts, faults, history>>

Submit ==
  /\ place = "generate"
  /\ page.phase = "none"
  /\ ~page.submitting
  /\ page' = [page EXCEPT !.submitting = TRUE]
  /\ calls' = calls \cup {NewCall("create", 0, NoId)}
  /\ UNCHANGED <<lifecycle, deleted, place, reading, timers, mounts, faults, history>>

(* Mutant: Retry stays enabled while a retry is under way.                 *)
RetryAgain ==
  /\ place = "generate"
  /\ page.phase = "failed"
  /\ page' = [page EXCEPT !.retrying = TRUE]
  /\ calls' = calls \cup {NewCall("retry", 0, page.id)}
  /\ UNCHANGED <<lifecycle, deleted, place, reading, timers, mounts, faults, history>>

Retry ==
  /\ place = "generate"
  /\ page.phase = "failed"
  /\ ~page.retrying
  /\ page' = [page EXCEPT !.retrying = TRUE]
  /\ calls' = calls \cup {NewCall("retry", 0, page.id)}
  /\ UNCHANGED <<lifecycle, deleted, place, reading, timers, mounts, faults, history>>

Leave ==
  /\ place = "generate"
  /\ GoTo("elsewhere")
  /\ UNCHANGED <<lifecycle, deleted, calls, mounts, faults, history>>

(* The page is opened, or shown again after a login.                       *)
Open ==
  /\ place # "generate"
  /\ mounts < MaxMounts
  /\ mounts' = mounts + 1
  /\ GoTo("generate")
  /\ UNCHANGED <<lifecycle, deleted, calls, faults, history>>

(* From another tab, while it matters here.                                *)
DeleteStory(r) ==
  /\ r \in delivered \ deleted
  /\ r = page.id \/ \E c \in calls : c.kind = "retry" /\ c.id = r
  /\ deleted' = deleted \cup {r}
  /\ UNCHANGED <<lifecycle, pageVars, calls, mounts, faults, history>>

(* POLL_INTERVAL_MS have passed: poll.                                     *)
Poll(e) ==
  /\ e \in timers
  /\ timers' = timers \ {e}
  /\ calls' = calls \cup {NewCall("status", e, page.id)}
  /\ UNCHANGED <<lifecycle, deleted, place, reading, page, mounts, faults, history>>

-----------------------------------------------------------------------------
(* The API.  A call that nobody waits for any more leaves no answer.       *)
Forward(c, d) ==
  calls' = (calls \ {c}) \cup (IF d.step = "answered" /\ ~d.waited THEN {} ELSE {d})

(* create_story_generation: the commit.                                    *)
ServeCreate(c) ==
  /\ c.kind = "create" /\ c.step = "sent"
  /\ \E r \in Ids :
       /\ \A q \in Ids : q < r <=> status[q] # "absent"
       /\ Created(r)
       /\ owner' = [owner EXCEPT ![r] = c.mount]
       /\ Forward(c, [c EXCEPT !.step = "answered", !.id = r, !.status = "queued"])
  /\ UNCHANGED <<deleted, pageVars, mounts, faults, lost, streak>>

(* retry_story_generation: the commit, or the 409.                         *)
ServeRetry(c) ==
  /\ c.kind = "retry" /\ c.step = "sent"
  /\ \/ /\ Retried(c.id)
        /\ Forward(c, [c EXCEPT !.step = "committed"])
     \/ /\ status[c.id] # "failed" \/ attempts[c.id] = AttemptLimit
        /\ Forward(c, [c EXCEPT !.step = "answered", !.status = "refused"])
        /\ UNCHANGED lifecycle
  /\ UNCHANGED <<deleted, pageVars, mounts, faults, history>>

(* The request's row is read, after a retry's commit once more, and then   *)
(* its story: one step, since a story comes with the row's success and is  *)
(* of use only with it.  A cancelled poll needs no answer.                 *)
ReadStatus(c) ==
  /\ \/ c.kind = "status" /\ c.step = "sent" /\ Live(c)
     \/ c.kind = "retry" /\ c.step = "committed"
  /\ Forward(c, [c EXCEPT !.step = "answered", !.status = status[c.id],
                          !.story = c.id \in delivered \ deleted])
  /\ UNCHANGED <<lifecycle, deleted, pageVars, mounts, faults, history>>

(* A 4xx without effect: 422 and 429, or 404 once a database has been      *)
(* restored to an earlier day.                                             *)
Refuse(c) ==
  /\ faults < MaxFaults
  /\ faults' = faults + 1
  /\ c.step = "sent"
  /\ Forward(c, [c EXCEPT !.step = "answered", !.status = "refused"])
  /\ UNCHANGED <<lifecycle, deleted, pageVars, mounts, history>>

-----------------------------------------------------------------------------
(* The answers, as the page takes them.                                    *)
Answered(c, kind) == c \in calls /\ c.kind = kind /\ c.step = "answered"
StoryReady(c)     == c.status = "succeeded" /\ c.story

Take(c) == /\ calls' = calls \ {c}
           /\ UNCHANGED <<lifecycle, deleted, mounts, faults, owner, lost>>

CreateAnswer(c) ==
  /\ Answered(c, "create")
  /\ Take(c)
  /\ IF ~Mounted(c) THEN UNCHANGED <<page, timers, streak>>
     ELSE IF c.status = "refused"
     THEN page' = [page EXCEPT !.submitting = FALSE] /\ UNCHANGED <<timers, streak>>
     ELSE /\ page' = Polling([page EXCEPT !.submitting = FALSE], c.id)
          /\ timers' = {page'.effect}
          /\ streak' = 0
  /\ UNCHANGED <<place, reading>>

(* A cancelled effect makes nothing of its answer, whatever it would be.   *)
StatusIgnored(c) ==
  /\ c.kind = "status"
  /\ ~Live(c)
  /\ Take(c)
  /\ UNCHANGED <<pageVars, streak>>

(* Mutant: the answer is used although the effect has been cancelled.      *)
StatusSucceededLate(c) ==
  /\ Answered(c, "status") /\ StoryReady(c)
  /\ Take(c)
  /\ OpenStory(c.id)
  /\ streak' = 0

StatusSucceeded(c) ==
  /\ Answered(c, "status") /\ Live(c) /\ StoryReady(c)
  /\ Take(c)
  /\ OpenStory(c.id)
  /\ streak' = 0

StatusFailed(c) ==
  /\ Answered(c, "status") /\ Live(c) /\ c.status = "failed"
  /\ Take(c)
  /\ page' = [page EXCEPT !.phase = "failed", !.failures = 0]
  /\ streak' = 0
  /\ UNCHANGED <<place, reading, timers>>

(* Mutant: a good answer does not start the count again.                   *)
StatusPendingKeepsCount(c) ==
  /\ Answered(c, "status") /\ Live(c)
  /\ ~StoryReady(c) /\ c.status \notin {"failed", "refused"}
  /\ Take(c)
  /\ timers' = timers \cup {c.effect}
  /\ streak' = 0
  /\ UNCHANGED <<place, reading, page>>

(* Still queued or running, or succeeded with the story already deleted.   *)
StatusPending(c) ==
  /\ Answered(c, "status") /\ Live(c)
  /\ ~StoryReady(c) /\ c.status \notin {"failed", "refused"}
  /\ Take(c)
  /\ page' = [page EXCEPT !.failures = 0]
  /\ timers' = timers \cup {c.effect}
  /\ streak' = 0
  /\ UNCHANGED <<place, reading>>

StatusRefused(c) ==
  /\ Answered(c, "status") /\ Live(c) /\ c.status = "refused"
  /\ Take(c)
  /\ page' = [page EXCEPT !.phase = "error"]
  /\ UNCHANGED <<place, reading, timers, streak>>

(* handleRetry has no cancelled flag: a story that is ready takes the      *)
(* visitor there from wherever they are.                                   *)
RetryDelivered(c) ==
  /\ Answered(c, "retry") /\ StoryReady(c)
  /\ Take(c)
  /\ OpenStory(c.id)
  /\ UNCHANGED streak

(* Everything else is state of the component, gone if it was unmounted.    *)
RetryAnswer(c) ==
  /\ Answered(c, "retry") /\ ~StoryReady(c)
  /\ Take(c)
  /\ LET p == [page EXCEPT !.retrying = FALSE] IN
       IF ~Mounted(c) THEN UNCHANGED <<page, timers, streak>>
       ELSE IF c.status \in {"failed", "refused"}
       THEN page' = p /\ UNCHANGED <<timers, streak>>
       ELSE /\ page' = Polling(p, c.id)
            /\ timers' = {page'.effect}
            /\ streak' = 0
  /\ UNCHANGED <<place, reading>>

-----------------------------------------------------------------------------
(* Failures.                                                               *)

(* Mutant: a poll that fails is the last one.                              *)
LosePollOnce(c) ==
  /\ c.kind = "status" /\ Live(c)
  /\ Take(c)
  /\ page' = [page EXCEPT !.failures = @ + 1,
                          !.phase = IF page.failures + 1 < MaxFailures THEN @ ELSE "error"]
  /\ streak' = streak + 1
  /\ UNCHANGED <<place, reading, timers>>

(* The network, a time limit or a 5xx.  A poll is tried again, up to a     *)
(* number of failures in a row.                                            *)
LosePoll(c) ==
  /\ c.kind = "status" /\ Live(c)
  /\ Take(c)
  /\ LET failures == page.failures + 1 IN
       IF failures < MaxFailures
       THEN /\ page' = [page EXCEPT !.failures = failures]
            /\ timers' = timers \cup {c.effect}
       ELSE /\ page' = [page EXCEPT !.failures = failures, !.phase = "error"]
            /\ UNCHANGED timers
  /\ streak' = streak + 1
  /\ UNCHANGED <<place, reading>>

(* A submit or a retry is not: the page shows the error, while the API may *)
(* never see the call, or go on with it unheard.                           *)
Lose(c, goesOn) ==
  /\ c.kind # "status" /\ c.waited
  /\ faults < MaxFaults
  /\ faults' = faults + 1
  /\ goesOn => c.step = "sent"
  /\ calls' = (calls \ {c}) \cup (IF goesOn THEN {[c EXCEPT !.waited = FALSE]} ELSE {})
  /\ page' = IF Mounted(c)
             THEN [page EXCEPT ![IF c.kind = "create" THEN "submitting" ELSE "retrying"] = FALSE]
             ELSE page
  /\ lost' = lost \cup {<<c.kind, IF c.kind = "create" THEN c.mount ELSE c.id>>}
  /\ UNCHANGED <<lifecycle, deleted, place, reading, timers, mounts, owner, streak>>

(* A 401, from a call of any page: apiFetch reports it, and the login gate *)
(* takes the page away before the caller sees its error.                   *)
SessionEnded(c) ==
  /\ faults < MaxFaults
  /\ faults' = faults + 1
  /\ c.step = "sent" /\ c.waited
  /\ calls' = calls \ {c}
  /\ GoTo("elsewhere")
  /\ UNCHANGED <<lifecycle, deleted, mounts, history>>

-----------------------------------------------------------------------------
(* The queue, as the other processes move it.                              *)
QueueStep ==
  /\ \/ \E r \in Ids : Claimed(r) \/ Failed(r) \/ Delivered(r)
     \/ \E S \in SUBSET Ids : Swept(S)
  /\ UNCHANGED <<deleted, pageVars, calls, mounts, faults, history>>

Visitor == Submit \/ Retry \/ Leave \/ Open \/ (\E r \in Ids : DeleteStory(r))

Serve(c) == ServeCreate(c) \/ ServeRetry(c) \/ ReadStatus(c)

Answer(c) ==
  \/ CreateAnswer(c)
  \/ StatusIgnored(c) \/ StatusSucceeded(c) \/ StatusFailed(c)
  \/ StatusPending(c) \/ StatusRefused(c)
  \/ RetryDelivered(c) \/ RetryAnswer(c)

Fault(c) ==
  \/ Refuse(c) \/ SessionEnded(c) \/ LosePoll(c)
  \/ \E goesOn \in BOOLEAN : Lose(c, goesOn)

Timer == \E e \in timers : Poll(e)

Next == Visitor \/ Timer \/ QueueStep \/ \E c \in calls : Serve(c) \/ Answer(c) \/ Fault(c)

Spec == Init /\ [][Next]_vars

(* Timers fire, the API answers and the browser delivers, one or another,  *)
(* and the queue goes on (GenerationQueue!EveryRequestFinishes).  The      *)
(* visitor need do nothing.                                                *)
System == Timer \/ \E c \in calls : Serve(c) \/ Answer(c)

Fairness == WF_vars(System) /\ WF_vars(QueueStep)

FairSpec == Spec /\ Fairness

-----------------------------------------------------------------------------
(* When the page shows a failure with the Retry button the request has     *)
(* failed and waits for a retry, unless an earlier retry's answer was lost *)
(* (the request may then be on its way without the page).                  *)
FailedIsTrue ==
  (/\ place = "generate" /\ page.phase = "failed" /\ ~page.retrying
   /\ <<"retry", page.id>> \notin lost)
    => status[page.id] = "failed"

(* One opening of the page puts one request into the queue, and that is    *)
(* the one the page follows; another only when the answer to a submit was  *)
(* lost.                                                                   *)
OneRequestPerPage ==
  \A r, q \in Ids :
    owner[r] # 0 /\ owner[r] = owner[q] /\ <<"create", owner[r]>> \notin lost => r = q

(* The visitor is taken only to a story that has been delivered for the    *)
(* request this page made, and only from this page; the answer to a retry, *)
(* which is never cancelled, is the one exception.                         *)
TakenToOwnStory ==
  [][reading' \notin {NoId, reading} =>
       /\ reading' \in delivered
       /\ \/ place = "generate" /\ reading' = page.id /\ owner[reading'] = mounts
          \/ \E c \in calls : Answered(c, "retry") /\ c.id = reading']_vars

(* The page gives up only on an answer that cannot change, or on failures  *)
(* "in a row": one good answer and the count starts again.                 *)
GivesUpOnlyWhenLost ==
  [][page'.phase = "error" /\ page.phase # "error" =>
       \/ streak' >= MaxFailures
       \/ \E c \in calls : Live(c) /\ Answered(c, "status") /\ c.status = "refused"]_vars

(* Polling ends, in a story, a failure or an error, whatever is lost on    *)
(* the way, unless the visitor leaves first or the story is deleted        *)
(* before the page has seen it (it then polls for ever).                   *)
PollingEnds ==
  (place = "generate" /\ page.phase = "polling")
    ~> (place # "generate" \/ page.phase # "polling" \/ page.id \in deleted)
=============================================================================
