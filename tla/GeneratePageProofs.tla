------------------------- MODULE GeneratePageProofs -------------------------
(***************************************************************************)
(* What the generate page tells its visitor is so, for any number of       *)
(* requests, openings of the page, lost calls and retries.  PageInv is the *)
(* inductive invariant: whose request each call and the page are about,    *)
(* and what the page waits for.                                            *)
(***************************************************************************)
EXTENDS GeneratePage, TLAPS

Statuses == {"absent", "queued", "running", "failed", "succeeded"}

Page == [submitting : BOOLEAN, phase : {"none", "polling", "failed", "error"},
         id : Ids \cup {NoId}, retrying : BOOLEAN, failures : Nat, effect : Nat]

Call == [kind : {"create", "retry", "status"}, mount : Nat, effect : Nat, id : Ids \cup {NoId},
         step : {"sent", "committed", "answered"}, waited : BOOLEAN,
         status : Statuses \cup {"refused"}, story : BOOLEAN]

TypeOK ==
  /\ status \in [Ids -> Statuses] /\ attempts \in [Ids -> Nat] /\ delivered \subseteq Ids
  /\ deleted \subseteq Ids
  /\ place \in {"generate", "story", "elsewhere"} /\ reading \in Ids \cup {NoId}
  /\ page \in Page /\ timers \subseteq Nat
  /\ calls \subseteq Call
  /\ mounts \in Nat \ {0} /\ owner \in [Ids -> Nat] /\ streak \in Nat

(* A request belongs to an opening of the page.                            *)
Owned == \A r \in Ids : owner[r] # 0 => status[r] # "absent" /\ owner[r] <= mounts

(* The page is about a request that it made.                               *)
OwnPage ==
  /\ place # "generate" => page = FreshPage
  /\ page.phase = "none" => timers = {}
  /\ page.phase # "none" => page.id \in Ids /\ owner[page.id] = mounts
  /\ \A e \in timers : e <= page.effect
  /\ page.failures <= streak

Given(c) == IF c.kind = "create" THEN c.mount ELSE c.id

(* A call is about a request of the opening that made it, or will be.      *)
OwnCall(c) ==
  /\ c.mount \in 1 .. mounts
  /\ c.kind # "create" \/ (c.step = "answered" /\ c.status # "refused") =>
       c.id \in Ids /\ owner[c.id] = c.mount
  /\ c.kind # "retry" => c.step # "committed"
  /\ c.story => c.kind # "create" /\ c.id \in delivered
  /\ ~c.waited => /\ c.kind # "status" /\ c.step # "answered"
                  /\ <<c.kind, Given(c)>> \in lost

(* The page waits for its call, or has started another effect since.       *)
Awaited(c) == Mounted(c) =>
  /\ c.kind = "create" /\ c.waited => page.submitting /\ page.phase = "none"
  /\ c.kind = "retry" /\ c.waited =>
       page.retrying /\ page.phase = "failed" /\ page.id = c.id
  /\ c.kind = "status" =>
       c.effect <= page.effect /\ (c.effect = page.effect => c.id = page.id)

Expected(c) == c.kind # "status" /\ c.waited /\ Mounted(c)

OneExpected == \A c, d \in calls : Expected(c) /\ Expected(d) => c = d

(* No create of an opening comes after its request.                        *)
Creation(m) == <<"create", m>> \notin lost =>
  /\ \A r, q \in Ids : owner[r] = m /\ owner[q] = m => r = q
  /\ \A c \in calls : c.kind = "create" /\ c.mount = m =>
       /\ \A d \in calls : d.kind = "create" /\ d.mount = m => d = c
       /\ c.step # "answered" \/ c.status = "refused" => \A r \in Ids : owner[r] # m
  /\ m = mounts /\ place = "generate" /\ page.phase = "none" /\ ~page.submitting =>
       /\ \A c \in calls : c.kind = "create" => c.mount # m
       /\ \A r \in Ids : owner[r] # m

(* What the page has heard of a failure, or will hear, is still so.        *)
FailureHeard(c) ==
  /\ Mounted(c) /\ <<"retry", c.id>> \notin lost
  /\ \/ c.kind = "status" /\ Live(c) /\ c.step = "answered" /\ c.status = "failed"
     \/ /\ c.kind = "retry" /\ c.waited
        /\ c.step = "sent" \/ (c.step = "answered" /\ c.status \in {"failed", "refused"})

StillFailed == \A c \in calls : FailureHeard(c) => status[c.id] = "failed"

PageInv ==
  /\ TypeOK /\ Owned /\ OwnPage
  /\ (\A c \in calls : OwnCall(c)) /\ (\A c \in calls : Awaited(c))
  /\ OneExpected /\ (\A m \in Nat \ {0} : Creation(m))
  /\ StillFailed /\ FailedIsTrue

-----------------------------------------------------------------------------
(* What any step leaves as it was, of what an invariant says.              *)

(* The openings, the stories and what is lost only grow, and a request     *)
(* keeps its opening.                                                      *)
Monotone ==
  /\ mounts' \in Nat /\ mounts <= mounts'
  /\ delivered \subseteq delivered' /\ lost \subseteq lost'
  /\ \A r \in Ids : owner[r] # 0 => owner'[r] = owner[r]

LEMMA SameIsMonotone ==
  ASSUME TypeOK, UNCHANGED <<mounts, owner>>, delivered \subseteq delivered', lost \subseteq lost'
  PROVE  Monotone
  BY DEF TypeOK, Monotone

(* So a call that stays is still about its request.                        *)
LEMMA OwnCallKept ==
  ASSUME TypeOK, Monotone, NEW c \in calls, OwnCall(c)
  PROVE  OwnCall(c)'
  BY DEF TypeOK, Monotone, OwnCall, Given, Call

LEMMA OwnCallsKept ==
  ASSUME TypeOK, Monotone, \A c \in calls : OwnCall(c),
         \A c \in calls' : c \in calls \/ OwnCall(c)'
  PROVE  (\A c \in calls : OwnCall(c))'
  BY OwnCallKept

(* As long as no create call is new.                                       *)
LEMMA CreationKept ==
  ASSUME NEW m \in Nat \ {0}, Creation(m),
         UNCHANGED <<owner, mounts>>, lost \subseteq lost',
         \A c \in calls' : c.kind = "create" => c \in calls,
         m = mounts /\ place' = "generate" /\ page'.phase = "none" /\ ~page'.submitting =>
           place = "generate" /\ page.phase = "none" /\ ~page.submitting
  PROVE  Creation(m)'
  BY DEF Creation

(* The page and what it waits for stay.                                    *)
LEMMA AwaitedKept ==
  ASSUME UNCHANGED <<place, page, mounts>>, NEW c, Awaited(c)
  PROVE  Awaited(c)'
  BY DEF Awaited, Mounted

-----------------------------------------------------------------------------
(* Steps that leave the page alone: the queue's, a deletion, a poll nobody *)
(* waits for.                                                              *)
Quiet ==
  /\ UNCHANGED <<place, reading, page, timers, mounts, owner, lost, streak>>
  /\ calls' \subseteq calls
  /\ status' \in [Ids -> Statuses] /\ attempts' \in [Ids -> Nat]
  /\ delivered \subseteq delivered' /\ delivered' \subseteq Ids /\ deleted' \subseteq Ids
  /\ \A r \in Ids : status[r] # "absent" => status'[r] # "absent"
  /\ \A r \in Ids : status[r] = "failed" => status'[r] = "failed"

LEMMA FailureHeardHasId ==
  ASSUME NEW c \in calls, TypeOK, OwnCall(c), FailureHeard(c)
  PROVE  c.id \in Ids
  BY DEF TypeOK, OwnCall, FailureHeard, Call

LEMMA QuietKeepsIt ==
  ASSUME PageInv, Quiet
  PROVE  PageInv'
<1>0. TypeOK /\ Monotone
  BY SameIsMonotone DEF PageInv, Quiet
<1>1. TypeOK'
  BY DEF PageInv, TypeOK, Quiet
<1>2. Owned' /\ OwnPage'
  BY DEF PageInv, Owned, OwnPage, Quiet
<1>3. (\A c \in calls : OwnCall(c))'
  BY <1>0, OwnCallsKept DEF PageInv, Quiet
<1>4. (\A c \in calls : Awaited(c))'
  BY AwaitedKept DEF PageInv, Quiet
<1>5. OneExpected'
  BY DEF PageInv, OneExpected, Expected, Mounted, Quiet
<1>6. (\A m \in Nat \ {0} : Creation(m))'
  BY CreationKept DEF PageInv, Quiet
<1>7. StillFailed'
  <2> SUFFICES ASSUME NEW c \in calls', FailureHeard(c)'
               PROVE  status'[c.id] = "failed"
    BY DEF StillFailed
  <2>1. c \in calls /\ FailureHeard(c)
    BY DEF FailureHeard, Mounted, Live, Quiet
  <2>2. c.id \in Ids /\ status[c.id] = "failed"
    BY <2>1, FailureHeardHasId DEF PageInv, StillFailed
  <2> QED BY <2>2 DEF Quiet
<1>8. FailedIsTrue'
  <2>1. page.phase = "failed" => page.id \in Ids
    BY DEF PageInv, OwnPage
  <2> QED BY <2>1 DEF PageInv, FailedIsTrue, Quiet
<1> QED BY <1>1, <1>2, <1>3, <1>4, <1>5, <1>6, <1>7, <1>8 DEF PageInv

-----------------------------------------------------------------------------
(* Steps that take the page away.                                          *)
Away ==
  /\ UNCHANGED <<lifecycle, deleted, mounts, owner, lost>>
  /\ place' \in {"story", "elsewhere"} /\ reading' \in Ids \cup {NoId}
  /\ page' = FreshPage /\ timers' = {}
  /\ calls' \subseteq calls
  /\ streak' \in Nat

LEMMA AwayKeepsIt ==
  ASSUME PageInv, Away
  PROVE  PageInv'
<1>0. TypeOK /\ Monotone
  BY SameIsMonotone DEF PageInv, Away, lifecycle
<1>1. TypeOK'
  BY DEF PageInv, TypeOK, Away, lifecycle, FreshPage, Page
<1>2. Owned' /\ OwnPage'
  BY <1>1 DEF PageInv, TypeOK, Owned, OwnPage, Away, lifecycle, FreshPage
<1>3. (\A c \in calls : OwnCall(c))'
  BY <1>0, OwnCallsKept DEF PageInv, Away
<1>4. \A c \in calls' : ~Mounted(c)'
  BY DEF Away, Mounted
<1>5. (\A c \in calls : Awaited(c))' /\ OneExpected' /\ StillFailed' /\ FailedIsTrue'
  BY <1>4 DEF Awaited, OneExpected, Expected, StillFailed, FailureHeard, FailedIsTrue, Away
<1>6. (\A m \in Nat \ {0} : Creation(m))'
  BY CreationKept DEF PageInv, Away
<1> QED BY <1>1, <1>2, <1>3, <1>5, <1>6 DEF PageInv

LEMMA QuietSteps ==
  ASSUME PageInv,
         \/ QueueStep \/ UNCHANGED vars
         \/ \E r \in Ids : DeleteStory(r)
         \/ \E c \in calls : StatusIgnored(c)
  PROVE  Quiet
<1>0. TypeOK
  BY DEF PageInv
<1>1. CASE QueueStep
  <2>0. /\ UNCHANGED <<deleted, place, reading, page, timers, calls, mounts, owner, lost, streak>>
        /\ \/ \E r \in Ids : Claimed(r) \/ Failed(r) \/ Delivered(r)
           \/ \E S \in SUBSET Ids : Swept(S)
    BY <1>1 DEF QueueStep, pageVars, history
  <2>1. CASE \E r \in Ids : Claimed(r) \/ Failed(r) \/ Delivered(r)
    BY <1>0, <2>0, <2>1 DEF Claimed, Failed, Delivered, Become, Quiet, TypeOK, Statuses
  <2>2. CASE \E S \in SUBSET Ids : Swept(S)
    BY <1>0, <2>0, <2>2 DEF Swept, Quiet, TypeOK, Statuses
  <2> QED BY <2>0, <2>1, <2>2
<1>2. CASE \E r \in Ids : DeleteStory(r)
  BY <1>0, <1>2 DEF DeleteStory, Quiet, TypeOK, lifecycle, pageVars, history
<1>3. CASE \E c \in calls : StatusIgnored(c)
  BY <1>0, <1>3 DEF StatusIgnored, Take, Quiet, TypeOK, lifecycle, pageVars
<1>4. CASE UNCHANGED vars
  BY <1>0, <1>4 DEF vars, Quiet, TypeOK, lifecycle, pageVars, history
<1> QED BY <1>1, <1>2, <1>3, <1>4

LEMMA AwaySteps ==
  ASSUME PageInv,
         \/ Leave
         \/ \E c \in calls : SessionEnded(c) \/ StatusSucceeded(c) \/ RetryDelivered(c)
  PROVE  Away
<1>0. TypeOK /\ \A c \in calls : OwnCall(c)
  BY DEF PageInv
<1>1. CASE Leave \/ \E c \in calls : SessionEnded(c)
  BY <1>0, <1>1 DEF Leave, SessionEnded, GoTo, Away, TypeOK, history
<1>2. CASE \E c \in calls : StatusSucceeded(c) \/ RetryDelivered(c)
  BY <1>0, <1>2 DEF StatusSucceeded, RetryDelivered, Take, OpenStory, Answered, Away, TypeOK,
     OwnCall, StoryReady, Call
<1> QED BY <1>1, <1>2

(* Every opening is a new one, which nothing has been called for.          *)
LEMMA OpenKeepsIt ==
  ASSUME PageInv, Open
  PROVE  PageInv'
<1>0. TypeOK /\ Owned /\ \A c \in calls : OwnCall(c)
  BY DEF PageInv
<1>1. /\ UNCHANGED <<status, attempts, delivered, deleted, calls, owner, lost, streak>>
      /\ place' = "generate" /\ reading' = NoId /\ page' = FreshPage /\ timers' = {}
      /\ mounts' = mounts + 1
  BY DEF Open, GoTo, lifecycle, history
<1>2. Monotone
  BY <1>0, <1>1 DEF TypeOK, Monotone
<1>3. \A c \in calls : c.mount # mounts'
  <2> SUFFICES ASSUME NEW c \in calls PROVE c.mount # mounts'
    OBVIOUS
  <2>1. c.mount \in 1 .. mounts
    BY <1>0 DEF OwnCall
  <2> QED BY <2>1, <1>0, <1>1 DEF TypeOK
<1>4. \A r \in Ids : owner[r] # mounts'
  BY <1>0, <1>1 DEF TypeOK, Owned
<1>5. TypeOK'
  BY <1>0, <1>1 DEF TypeOK, FreshPage, Page
<1>6. Owned' /\ OwnPage'
  BY <1>0, <1>1, <1>5 DEF TypeOK, Owned, OwnPage, FreshPage
<1>7. (\A c \in calls : OwnCall(c))'
  BY <1>0, <1>1, <1>2, OwnCallsKept
<1>8. (\A c \in calls : Awaited(c))' /\ OneExpected' /\ StillFailed' /\ FailedIsTrue'
  BY <1>1, <1>3 DEF Awaited, OneExpected, Expected, Mounted, StillFailed, FailureHeard, FailedIsTrue,
     FreshPage
<1>9. (\A m \in Nat \ {0} : Creation(m))'
  <2> SUFFICES ASSUME NEW m \in Nat \ {0} PROVE Creation(m)'
    OBVIOUS
  <2>1. Creation(m)
    BY DEF PageInv
  <2> QED BY <2>1, <1>1, <1>3, <1>4 DEF Creation
<1> QED BY <1>5, <1>6, <1>7, <1>8, <1>9 DEF PageInv

-----------------------------------------------------------------------------
(* What a live poll's answer, or its loss, makes of the page.              *)
Heard(c) ==
  /\ c \in calls /\ c.kind = "status" /\ Live(c)
  /\ calls' = calls \ {c}
  /\ UNCHANGED <<lifecycle, deleted, mounts, owner, lost, place, reading>>
  /\ page' \in Page /\ page'.phase # "none" /\ page'.failures <= streak'
  /\ page'.submitting = page.submitting /\ page'.id = page.id
  /\ page'.retrying = page.retrying /\ page'.effect = page.effect
  /\ page'.phase = "failed" => c.step = "answered" /\ c.status = "failed"
  /\ timers' \subseteq timers \cup {c.effect}
  /\ streak' \in Nat

LEMMA HeardKeepsIt ==
  ASSUME PageInv, NEW c \in calls, Heard(c)
  PROVE  PageInv'
<1>0. TypeOK /\ Owned /\ OwnPage /\ Monotone
  BY SameIsMonotone DEF PageInv, Heard, lifecycle
<1>2. /\ c.kind = "status" /\ Live(c) /\ c.effect = page.effect /\ page.phase = "polling"
      /\ place = "generate" /\ c.mount = mounts
      /\ calls' = calls \ {c} /\ timers' \subseteq timers \cup {page.effect} /\ streak' \in Nat
      /\ UNCHANGED <<status, attempts, delivered, deleted, mounts, owner, lost, place, reading>>
  BY DEF Heard, Live, Mounted, lifecycle
<1>3. /\ page' \in Page /\ page'.phase # "none" /\ page'.failures <= streak'
      /\ page'.submitting = page.submitting /\ page'.id = page.id
      /\ page'.retrying = page.retrying /\ page'.effect = page.effect
      /\ page'.phase = "failed" => c.step = "answered" /\ c.status = "failed"
  BY DEF Heard
<1>4. TypeOK'
  BY <1>0, <1>2, <1>3 DEF TypeOK, Page
<1>5. Owned' /\ OwnPage'
  BY <1>0, <1>2, <1>3 DEF TypeOK, Owned, OwnPage, Page
<1>6. (\A d \in calls : OwnCall(d))'
  BY <1>0, <1>2, OwnCallsKept DEF PageInv
<1>7. (\A d \in calls : Awaited(d))'
  <2> SUFFICES ASSUME NEW d \in calls' PROVE Awaited(d)'
    OBVIOUS
  <2>1. d \in calls /\ Awaited(d) /\ (Mounted(d)' <=> Mounted(d))
    BY <1>2 DEF PageInv, Mounted
  <2> QED BY <2>1, <1>2, <1>3 DEF Awaited
<1>8. \A d \in calls : ~Expected(d)
  BY <1>0, <1>2 DEF PageInv, Awaited, Expected, TypeOK, Call
<1>9. \A d \in calls' : d \in calls /\ ~Expected(d)'
  BY <1>2, <1>8 DEF Expected, Mounted
<1>10. OneExpected'
  BY <1>9 DEF OneExpected
<1>11. (\A m \in Nat \ {0} : Creation(m))'
  BY <1>2, <1>3, CreationKept DEF PageInv
<1>12. StillFailed'
  <2> SUFFICES ASSUME NEW d \in calls', FailureHeard(d)'
               PROVE  status'[d.id] = "failed"
    BY DEF StillFailed
  <2>1. d \in calls /\ ~Expected(d)'
    BY <1>9
  <2>2. d.kind = "status" /\ Live(d)' /\ d.step = "answered" /\ d.status = "failed" /\ Mounted(d)'
        /\ <<"retry", d.id>> \notin lost'
    BY <2>1 DEF FailureHeard, Expected
  <2>3. Live(d)
    BY <2>2, <1>2, <1>3 DEF Live, Mounted
  <2>4. FailureHeard(d)
    BY <2>2, <2>3, <1>2 DEF FailureHeard, Live
  <2> QED BY <2>1, <2>4, <1>2 DEF PageInv, StillFailed
<1>13. FailedIsTrue'
  <2> SUFFICES ASSUME page'.phase = "failed", <<"retry", page.id>> \notin lost
               PROVE  status[page.id] = "failed"
    BY <1>2, <1>3 DEF FailedIsTrue
  <2>1. c.id = page.id
    BY <1>2 DEF PageInv, Awaited, Mounted
  <2>2. FailureHeard(c)
    BY <1>2, <1>3, <2>1 DEF FailureHeard, Mounted
  <2> QED BY <2>1, <2>2 DEF PageInv, StillFailed
<1> QED BY <1>4, <1>5, <1>6, <1>7, <1>10, <1>11, <1>12, <1>13 DEF PageInv

LEMMA HeardSteps ==
  ASSUME PageInv, ConstantsOK, NEW c \in calls,
         StatusFailed(c) \/ StatusPending(c) \/ StatusRefused(c) \/ LosePoll(c)
  PROVE  Heard(c)
<1>0. TypeOK /\ OwnPage
  BY DEF PageInv
<1>1. page \in Page /\ streak \in Nat /\ page.failures <= streak /\ page.failures \in Nat
  BY <1>0 DEF TypeOK, OwnPage, Page
<1>2. CASE StatusFailed(c)
  <2>1. /\ page' = [page EXCEPT !.phase = "failed", !.failures = 0] /\ streak' = 0
        /\ c.step = "answered" /\ c.status = "failed" /\ timers' = timers
    BY <1>2 DEF StatusFailed, Answered
  <2>2. /\ page' \in Page /\ page'.phase = "failed" /\ page'.failures = 0
        /\ page'.submitting = page.submitting /\ page'.id = page.id
        /\ page'.retrying = page.retrying /\ page'.effect = page.effect
    BY <1>1, <2>1 DEF Page
  <2> QED BY <1>2, <2>1, <2>2 DEF StatusFailed, Answered, Take, Heard
<1>3. CASE StatusPending(c)
  BY <1>1, <1>3 DEF StatusPending, Live, Answered, Take, Heard, Page
<1>4. CASE StatusRefused(c)
  BY <1>1, <1>4 DEF StatusRefused, Answered, Take, Heard, Page
<1>5. CASE LosePoll(c)
  <2>1. /\ \/ page' = [page EXCEPT !.failures = page.failures + 1]
           \/ page' = [page EXCEPT !.phase = "error", !.failures = page.failures + 1]
        /\ page.phase = "polling"
        /\ timers' \subseteq timers \cup {c.effect} /\ streak' = streak + 1
    BY <1>1, <1>5 DEF LosePoll, Live
  <2>2. page.failures + 1 \in Nat /\ page.failures + 1 <= streak' /\ streak' \in Nat
    BY <1>1, <2>1
  <2>3. /\ page' \in Page /\ page'.phase \in {"polling", "error"}
        /\ page'.failures = page.failures + 1
        /\ page'.submitting = page.submitting /\ page'.id = page.id
        /\ page'.retrying = page.retrying /\ page'.effect = page.effect
    BY <1>1, <2>1, <2>2 DEF Page
  <2> QED BY <1>5, <2>1, <2>2, <2>3 DEF LosePoll, Take, Heard
<1> QED BY <1>2, <1>3, <1>4, <1>5

-----------------------------------------------------------------------------
(* A call the page makes.                                                  *)

LEMMA SubmitKeepsIt ==
  ASSUME PageInv, Submit
  PROVE  PageInv'
<1>0. TypeOK /\ Owned /\ OwnPage /\ page \in Page /\ page.phase = "none" /\ ~page.submitting
  BY DEF PageInv, Submit, TypeOK
<1>1. PICK n : n = [kind |-> "create", mount |-> mounts, effect |-> 0, id |-> NoId,
                    step |-> "sent", waited |-> TRUE, status |-> "absent", story |-> FALSE]
  OBVIOUS
<1>2. /\ calls' = calls \cup {n} /\ place' = "generate" /\ place = "generate"
      /\ UNCHANGED <<status, attempts, delivered, deleted, reading, timers, mounts, owner, lost,
                     streak>>
  BY <1>1 DEF Submit, NewCall, lifecycle, history
<1>3. /\ page' \in Page /\ page'.submitting /\ page'.phase = "none" /\ page'.id = page.id
      /\ page'.retrying = page.retrying /\ page'.effect = page.effect
      /\ page'.failures = page.failures
  BY <1>0 DEF Submit, Page
<1>4. Monotone
  BY <1>0, <1>2, SameIsMonotone
<1>5. TypeOK'
  <2>1. mounts \in Nat /\ n.effect \in Nat /\ n.id \in Ids \cup {NoId}
    BY <1>0, <1>1, <1>3 DEF TypeOK
  <2>2. n \in Call
    BY <2>1, <1>1 DEF Call, Statuses
  <2> QED BY <2>2, <1>0, <1>2, <1>3 DEF TypeOK
<1>6. Owned' /\ OwnPage'
  BY <1>0, <1>2, <1>3 DEF Owned, OwnPage
<1>7. (\A d \in calls : OwnCall(d))'
  <2>1. OwnCall(n)'
    BY <1>0, <1>1, <1>2 DEF OwnCall, TypeOK
  <2> QED BY <2>1, <1>0, <1>2, <1>4, OwnCallsKept DEF PageInv
<1>8. (\A d \in calls : Awaited(d))'
  <2> SUFFICES ASSUME NEW d \in calls' PROVE Awaited(d)'
    OBVIOUS
  <2>1. CASE d = n
    BY <2>1, <1>1, <1>3 DEF Awaited
  <2>2. CASE d \in calls
    <3>1. Awaited(d) /\ (Mounted(d)' <=> Mounted(d))
      BY <2>2, <1>2 DEF PageInv, Mounted
    <3> QED BY <3>1, <1>0, <1>3 DEF Awaited
  <2> QED BY <2>1, <2>2, <1>2
<1>9. \A d \in calls : ~Expected(d)
  BY <1>0, <1>2 DEF PageInv, Awaited, Expected, TypeOK, Call
<1>10. \A d \in calls' : Expected(d)' => d = n
  BY <1>1, <1>2, <1>9 DEF Expected, Mounted
<1>11. OneExpected'
  BY <1>10 DEF OneExpected
<1>12. StillFailed' /\ FailedIsTrue'
  <2>1. \A d \in calls' : ~FailureHeard(d)'
    BY <1>1, <1>3, <1>10 DEF FailureHeard, Expected, Live
  <2> QED BY <2>1, <1>3 DEF StillFailed, FailedIsTrue
<1>13. (\A m \in Nat \ {0} : Creation(m))'
  <2> SUFFICES ASSUME NEW m \in Nat \ {0} PROVE Creation(m)'
    OBVIOUS
  <2>1. Creation(m)
    BY DEF PageInv
  <2>2. CASE m = mounts
    <3>1. /\ n.kind = "create" /\ n.mount = m /\ n.step = "sent"
          /\ m = mounts /\ mounts' = mounts /\ page'.submitting /\ calls' = calls \cup {n}
          /\ UNCHANGED <<owner, lost>>
      BY <2>2, <1>1, <1>2, <1>3
    <3>2. <<"create", m>> \notin lost =>
            /\ \A d \in calls : d.kind = "create" => d.mount # m
            /\ \A r \in Ids : owner[r] # m
      BY <2>1, <2>2, <1>0, <1>2 DEF Creation
    <3> QED BY <3>1, <3>2 DEF Creation
  <2>3. CASE m # mounts
    <3>1. n.mount # m /\ mounts' = mounts /\ calls' = calls \cup {n} /\ UNCHANGED <<owner, lost>>
      BY <2>3, <1>1, <1>2
    <3> QED BY <2>1, <2>3, <3>1 DEF Creation
  <2> QED BY <2>2, <2>3
<1> QED BY <1>5, <1>6, <1>7, <1>8, <1>11, <1>12, <1>13 DEF PageInv

LEMMA RetryKeepsIt ==
  ASSUME PageInv, Retry
  PROVE  PageInv'
<1>0. /\ TypeOK /\ Owned /\ OwnPage /\ page \in Page /\ place = "generate"
      /\ page.phase = "failed" /\ ~page.retrying
  BY DEF PageInv, Retry, TypeOK
<1>1. PICK n : n = [kind |-> "retry", mount |-> mounts, effect |-> 0, id |-> page.id,
                    step |-> "sent", waited |-> TRUE, status |-> "absent", story |-> FALSE]
  OBVIOUS
<1>2. /\ calls' = calls \cup {n} /\ place' = "generate"
      /\ UNCHANGED <<status, attempts, delivered, deleted, reading, timers, mounts, owner, lost,
                     streak>>
  BY <1>1 DEF Retry, NewCall, lifecycle, history
<1>3. /\ page' \in Page /\ page'.submitting = page.submitting /\ page'.phase = "failed"
      /\ page'.id = page.id /\ page'.retrying /\ page'.effect = page.effect
      /\ page'.failures = page.failures
  BY <1>0 DEF Retry, Page
<1>4. Monotone
  BY <1>0, <1>2, SameIsMonotone
<1>5. page.id \in Ids /\ owner[page.id] = mounts /\ mounts \in 1 .. mounts
  BY <1>0 DEF OwnPage, TypeOK
<1>6. TypeOK'
  <2>1. mounts \in Nat /\ n.effect \in Nat
    BY <1>0, <1>1 DEF TypeOK
  <2>2. n \in Call
    BY <2>1, <1>1, <1>5 DEF Call, Statuses
  <2> QED BY <2>2, <1>0, <1>2, <1>3 DEF TypeOK
<1>7. Owned' /\ OwnPage'
  BY <1>0, <1>2, <1>3 DEF Owned, OwnPage
<1>8. (\A d \in calls : OwnCall(d))'
  <2>1. OwnCall(n)'
    BY <1>1, <1>2, <1>5 DEF OwnCall
  <2> QED BY <2>1, <1>0, <1>2, <1>4, OwnCallsKept DEF PageInv
<1>9. (\A d \in calls : Awaited(d))'
  <2> SUFFICES ASSUME NEW d \in calls' PROVE Awaited(d)'
    OBVIOUS
  <2>1. CASE d = n
    BY <2>1, <1>1, <1>3 DEF Awaited
  <2>2. CASE d \in calls
    <3>1. Awaited(d) /\ (Mounted(d)' <=> Mounted(d))
      BY <2>2, <1>0, <1>2 DEF PageInv, Mounted
    <3> QED BY <3>1, <1>0, <1>3 DEF Awaited
  <2> QED BY <2>1, <2>2, <1>2
<1>10. \A d \in calls : ~Expected(d)
  BY <1>0 DEF PageInv, Awaited, Expected, TypeOK, Call
<1>11. \A d \in calls' : Expected(d)' => d = n
  BY <1>0, <1>2, <1>10 DEF Expected, Mounted
<1>12. OneExpected'
  BY <1>11 DEF OneExpected
<1>13. StillFailed'
  <2> SUFFICES ASSUME NEW d \in calls', FailureHeard(d)'
               PROVE  status'[d.id] = "failed"
    BY DEF StillFailed
  <2>1. Expected(d)' /\ <<"retry", d.id>> \notin lost'
    BY <1>3 DEF FailureHeard, Expected, Live
  <2>2. d = n
    BY <2>1, <1>11
  <2>3. d.id = page.id
    BY <2>2, <1>1
  <2>4. status[page.id] = "failed"
    BY <2>1, <2>3, <1>0, <1>2 DEF PageInv, FailedIsTrue
  <2> QED BY <2>3, <2>4, <1>2
<1>14. FailedIsTrue'
  BY <1>3 DEF FailedIsTrue
<1>15. (\A m \in Nat \ {0} : Creation(m))'
  BY <1>0, <1>1, <1>2, <1>3, CreationKept DEF PageInv
<1> QED BY <1>6, <1>7, <1>8, <1>9, <1>12, <1>13, <1>14, <1>15 DEF PageInv

LEMMA PollKeepsIt ==
  ASSUME PageInv, NEW e \in timers, Poll(e)
  PROVE  PageInv'
<1>0. TypeOK /\ Owned /\ OwnPage /\ page \in Page
  BY DEF PageInv, TypeOK
<1>1. PICK n : n = [kind |-> "status", mount |-> mounts, effect |-> e, id |-> page.id,
                    step |-> "sent", waited |-> TRUE, status |-> "absent", story |-> FALSE]
  OBVIOUS
<1>2. /\ calls' = calls \cup {n} /\ timers' = timers \ {e}
      /\ UNCHANGED <<status, attempts, delivered, deleted, place, reading, page, mounts, owner,
                     lost, streak>>
  BY <1>1 DEF Poll, NewCall, lifecycle, history
<1>3. /\ place = "generate" /\ page.phase # "none" /\ e <= page.effect /\ e \in Nat
      /\ page.id \in Ids /\ owner[page.id] = mounts /\ mounts \in 1 .. mounts
  BY <1>0 DEF OwnPage, TypeOK, FreshPage
<1>4. Monotone
  BY <1>0, <1>2, SameIsMonotone
<1>5. TypeOK'
  <2>1. mounts \in Nat /\ n.effect \in Nat /\ n.id \in Ids \cup {NoId}
    BY <1>0, <1>1, <1>3 DEF TypeOK
  <2>2. n \in Call
    BY <2>1, <1>1 DEF Call, Statuses
  <2> QED BY <2>2, <1>0, <1>2, <1>3 DEF TypeOK
<1>6. Owned' /\ OwnPage'
  BY <1>0, <1>2 DEF Owned, OwnPage
<1>7. (\A d \in calls : OwnCall(d))'
  <2>1. OwnCall(n)'
    BY <1>1, <1>2, <1>3 DEF OwnCall
  <2> QED BY <2>1, <1>0, <1>2, <1>4, OwnCallsKept DEF PageInv
<1>8. (\A d \in calls : Awaited(d))'
  <2>1. Awaited(n)'
    BY <1>1, <1>2, <1>3 DEF Awaited
  <2> QED BY <2>1, <1>2, AwaitedKept DEF PageInv
<1>9. OneExpected'
  BY <1>1, <1>2 DEF PageInv, OneExpected, Expected, Mounted
<1>10. StillFailed'
  BY <1>1, <1>2 DEF PageInv, StillFailed, FailureHeard, Mounted, Live
<1>11. FailedIsTrue'
  BY <1>2 DEF PageInv, FailedIsTrue
<1>12. (\A m \in Nat \ {0} : Creation(m))'
  BY <1>1, <1>2, CreationKept DEF PageInv
<1> QED BY <1>5, <1>6, <1>7, <1>8, <1>9, <1>10, <1>11, <1>12 DEF PageInv

-----------------------------------------------------------------------------
(* A call goes on as d: the same call, further on its way.                 *)
Forwarded(c, d) ==
  /\ c \in calls /\ d \in Call
  /\ d.kind = c.kind /\ d.mount = c.mount /\ d.effect = c.effect /\ d.waited = c.waited
  /\ c.kind # "create" => d.id = c.id
  /\ calls' \subseteq (calls \ {c}) \cup {d}
  /\ d \in calls' => d.waited \/ d.step # "answered"
  /\ UNCHANGED <<delivered, deleted, place, reading, page, timers, mounts, lost, streak>>

LEMMA ForwardGoesOn ==
  ASSUME NEW c \in calls, NEW d, Forward(c, d), c.waited => d.waited,
         OwnCall(c), d \in calls => OwnCall(d)
  PROVE  /\ calls' \subseteq (calls \ {c}) \cup {d}
         /\ d \in calls' => d.waited \/ d.step # "answered"
<1>1. CASE d.step = "answered" /\ ~d.waited
  BY <1>1 DEF Forward, OwnCall
<1>2. CASE ~(d.step = "answered" /\ ~d.waited)
  BY <1>2 DEF Forward
<1> QED BY <1>1, <1>2

LEMMA ForwardedKeepsPage ==
  ASSUME PageInv, NEW c, NEW d, Forwarded(c, d), Monotone
  PROVE  OwnPage' /\ (\A x \in calls : Awaited(x))' /\ OneExpected'
<1>1. OwnPage'
  BY DEF PageInv, OwnPage, Forwarded, Monotone, TypeOK
<1>2. \A x \in calls' : x = d \/ (x \in calls /\ x # c)
  BY DEF Forwarded
<1>3. Awaited(d)'
  BY DEF PageInv, Awaited, Mounted, Forwarded
<1>4. (\A x \in calls : Awaited(x))'
  BY <1>2, <1>3, AwaitedKept DEF PageInv, Forwarded
<1>5. (Expected(d)' => Expected(c)) /\ \A x : Expected(x)' => x = d \/ Expected(x)
  BY DEF Forwarded, Expected, Mounted
<1>6. OneExpected'
  BY <1>2, <1>5 DEF PageInv, OneExpected, Forwarded
<1> QED BY <1>1, <1>4, <1>6

(* A call other than a submit, or one that is refused, makes no request.   *)
LEMMA ForwardedKeepsCreation ==
  ASSUME PageInv, NEW c, NEW d, Forwarded(c, d), UNCHANGED owner,
         c.kind = "create" => c.step = "sent" /\ d.step = "answered" /\ d.status = "refused"
  PROVE  (\A m \in Nat \ {0} : Creation(m))'
<1> SUFFICES ASSUME NEW m \in Nat \ {0}, <<"create", m>> \notin lost
             PROVE  Creation(m)'
  BY DEF Creation, Forwarded
<1>1. Creation(m)
  BY DEF PageInv
<1>2. CASE c.kind # "create"
  BY <1>1, <1>2, CreationKept DEF Forwarded
<1>3. CASE c.kind = "create"
  <2>1. \A x \in calls' : x = d \/ (x \in calls /\ x # c)
    BY DEF Forwarded
  <2>2. \A r, q \in Ids : owner[r] = m /\ owner[q] = m => r = q
    BY <1>1 DEF Creation
  <2>3. c.mount = m => /\ \A x \in calls : x.kind = "create" /\ x.mount = m => x = c
                       /\ \A r \in Ids : owner[r] # m
                       /\ ~(m = mounts /\ place = "generate" /\ page.phase = "none"
                              /\ ~page.submitting)
    BY <1>1, <1>3 DEF Creation, Forwarded
  <2>4. CASE c.mount = m
    BY <2>1, <2>2, <2>3, <2>4, <1>3 DEF Creation, Forwarded
  <2>5. CASE c.mount # m
    <3>1. d.mount # m
      BY <2>5 DEF Forwarded
    <3>2. \A x \in calls' : x.mount = m => x \in calls
      BY <3>1, <2>1
    <3> QED BY <1>1, <3>2 DEF Creation, Forwarded
  <2> QED BY <2>4, <2>5
<1> QED BY <1>2, <1>3

LEMMA ReadStatusKeepsIt ==
  ASSUME PageInv, NEW c \in calls, ReadStatus(c)
  PROVE  PageInv'
<1>0. TypeOK /\ Owned /\ OwnCall(c) /\ c \in Call
  BY DEF PageInv, TypeOK
<1>1. PICK d : d = [c EXCEPT !.step = "answered", !.status = status[c.id],
                             !.story = c.id \in delivered \ deleted]
  OBVIOUS
<1>2. /\ Forward(c, d) /\ c.kind # "create" /\ c.kind \in {"status", "retry"}
      /\ UNCHANGED <<status, attempts, delivered, deleted, place, reading, page, timers, mounts,
                     owner, lost, streak>>
  BY <1>1 DEF ReadStatus, lifecycle, pageVars, history
<1>3. c.id \in Ids /\ owner[c.id] = c.mount /\ c.mount \in 1 .. mounts
  BY <1>0, <1>2 DEF OwnCall
<1>4. /\ d.kind = c.kind /\ d.mount = c.mount /\ d.effect = c.effect /\ d.waited = c.waited
      /\ d.id = c.id /\ d.step = "answered" /\ d.status = status[c.id]
      /\ d.story = (c.id \in delivered \ deleted)
  BY <1>0, <1>1 DEF Call
<1>5. d \in Call
  <2>1. PICK st \in Statuses : st = status[c.id]
    BY <1>0, <1>3 DEF TypeOK
  <2>2. PICK b \in BOOLEAN : b = (c.id \in delivered \ deleted)
    <3>1. (c.id \in delivered \ deleted) \in BOOLEAN
      BY DEF TypeOK
    <3> QED BY <3>1
  <2>3. d = [c EXCEPT !.step = "answered", !.status = st, !.story = b]
    BY <2>1, <2>2, <1>1
  <2> QED BY <2>3, <1>0 DEF Call
<1>6. Forwarded(c, d)
  BY <1>0, <1>2, <1>4, <1>5, ForwardGoesOn DEF PageInv, Forwarded
<1>7. Monotone
  BY <1>0, <1>2, SameIsMonotone
<1>8. TypeOK' /\ Owned'
  BY <1>0, <1>2, <1>5, <1>6 DEF TypeOK, Owned, Forwarded
<1>9. (\A x \in calls : OwnCall(x))'
  <2>1. d \in calls' => OwnCall(d)'
    BY <1>2, <1>3, <1>4, <1>6 DEF OwnCall, Forwarded
  <2> QED BY <2>1, <1>0, <1>6, <1>7, OwnCallsKept DEF PageInv, Forwarded
<1>10. StillFailed'
  <2> SUFFICES ASSUME NEW x \in calls', FailureHeard(x)'
               PROVE  status[x.id] = "failed"
    BY <1>2 DEF StillFailed
  <2>1. CASE x = d
    BY <2>1, <1>0, <1>3, <1>4 DEF FailureHeard, TypeOK, Statuses
  <2>2. CASE x \in calls
    <3>1. FailureHeard(x)
      BY <1>2 DEF FailureHeard, Mounted, Live
    <3> QED BY <2>2, <3>1 DEF PageInv, StillFailed
  <2> QED BY <2>1, <2>2, <1>6 DEF Forwarded
<1>11. FailedIsTrue'
  BY <1>2 DEF PageInv, FailedIsTrue
<1> QED BY <1>2, <1>6, <1>7, <1>8, <1>9, <1>10, <1>11, ForwardedKeepsPage, ForwardedKeepsCreation
        DEF PageInv

LEMMA RefuseKeepsIt ==
  ASSUME PageInv, NEW c \in calls, Refuse(c)
  PROVE  PageInv'
<1>0. TypeOK /\ Owned /\ OwnCall(c) /\ c \in Call
  BY DEF PageInv, TypeOK
<1>1. PICK d : d = [c EXCEPT !.step = "answered", !.status = "refused"]
  OBVIOUS
<1>2. /\ Forward(c, d) /\ c.step = "sent"
      /\ UNCHANGED <<status, attempts, delivered, deleted, place, reading, page, timers, mounts,
                     owner, lost, streak>>
  BY <1>1 DEF Refuse, lifecycle, pageVars, history
<1>3. /\ d.kind = c.kind /\ d.mount = c.mount /\ d.effect = c.effect /\ d.waited = c.waited
      /\ d.id = c.id /\ d.step = "answered" /\ d.status = "refused" /\ d.story = c.story
      /\ d \in Call
  BY <1>0, <1>1 DEF Call
<1>4. Forwarded(c, d)
  BY <1>0, <1>2, <1>3, ForwardGoesOn DEF PageInv, Forwarded
<1>5. Monotone
  BY <1>0, <1>2, SameIsMonotone
<1>6. TypeOK' /\ Owned'
  BY <1>0, <1>2, <1>3, <1>4 DEF TypeOK, Owned, Forwarded
<1>7. (\A x \in calls : OwnCall(x))'
  <2>1. d \in calls' => OwnCall(d)'
    BY <1>0, <1>2, <1>3, <1>4 DEF OwnCall, Forwarded
  <2> QED BY <2>1, <1>0, <1>4, <1>5, OwnCallsKept DEF PageInv, Forwarded
<1>8. StillFailed'
  <2> SUFFICES ASSUME NEW x \in calls', FailureHeard(x)'
               PROVE  status[x.id] = "failed"
    BY <1>2 DEF StillFailed
  <2>1. CASE x = d
    <3>1. FailureHeard(c) /\ c.id = x.id
      BY <2>1, <1>2, <1>3 DEF FailureHeard, Mounted
    <3> QED BY <3>1 DEF PageInv, StillFailed
  <2>2. CASE x \in calls
    <3>1. FailureHeard(x)
      BY <1>2 DEF FailureHeard, Mounted, Live
    <3> QED BY <2>2, <3>1 DEF PageInv, StillFailed
  <2> QED BY <2>1, <2>2, <1>4 DEF Forwarded
<1>9. FailedIsTrue'
  BY <1>2 DEF PageInv, FailedIsTrue
<1> QED BY <1>2, <1>3, <1>4, <1>5, <1>6, <1>7, <1>8, <1>9, ForwardedKeepsPage,
           ForwardedKeepsCreation DEF PageInv

(* The API retries a failed request: of the calls of the page on display   *)
(* only this one was about it, or it has been given up on.                 *)
LEMMA RetriedKeepsFailures ==
  ASSUME PageInv, NEW c \in calls, c.kind = "retry", c.step = "sent", NEW d, Forwarded(c, d),
         d.step = "committed", UNCHANGED owner, status' = [status EXCEPT ![c.id] = "queued"]
  PROVE  StillFailed' /\ FailedIsTrue'
<1>0. TypeOK /\ OwnPage /\ OwnCall(c) /\ Awaited(c)
  BY DEF PageInv
<1>1. c.id \in Ids /\ owner[c.id] = c.mount /\ (c.waited \/ <<"retry", c.id>> \in lost)
  BY <1>0 DEF OwnCall, Given
<1>2. Mounted(c) /\ c.waited => Expected(c) /\ page.retrying /\ page.phase = "failed"
  BY <1>0 DEF Awaited, Expected
<1>3. \A r \in Ids : r # c.id => status'[r] = status[r]
  BY <1>0 DEF TypeOK
<1>4. StillFailed'
  <2> SUFFICES ASSUME NEW x \in calls', FailureHeard(x)'
               PROVE  status'[x.id] = "failed"
    BY DEF StillFailed
  <2>1. x # d
    BY DEF FailureHeard, Forwarded
  <2>2. x \in calls /\ x # c
    BY <2>1 DEF Forwarded
  <2>3. FailureHeard(x) /\ OwnCall(x) /\ x.id \in Ids /\ status[x.id] = "failed"
    <3>1. FailureHeard(x)
      BY DEF FailureHeard, Mounted, Live, Forwarded
    <3> QED BY <3>1, <2>2, FailureHeardHasId DEF PageInv, StillFailed
  <2>4. x.id # c.id
    <3> SUFFICES ASSUME x.id = c.id PROVE FALSE
      OBVIOUS
    <3>1. Mounted(x) /\ <<"retry", c.id>> \notin lost /\ c.waited /\ owner[x.id] = x.mount
      BY <2>3, <1>1 DEF FailureHeard, OwnCall
    <3>2. Mounted(c)
      BY <3>1, <1>1 DEF Mounted
    <3>3. Expected(c) /\ page.phase = "failed"
      BY <3>1, <3>2, <1>2
    <3>4. Expected(x)
      BY <2>3, <3>3 DEF FailureHeard, Expected, Live
    <3> QED BY <2>2, <3>3, <3>4 DEF PageInv, OneExpected
  <2> QED BY <2>3, <2>4, <1>3
<1>5. FailedIsTrue'
  <2> SUFFICES ASSUME place = "generate", page.phase = "failed", ~page.retrying,
                      <<"retry", page.id>> \notin lost
               PROVE  status'[page.id] = "failed"
    BY DEF FailedIsTrue, Forwarded
  <2>1. page.id \in Ids /\ owner[page.id] = mounts /\ status[page.id] = "failed"
    BY <1>0 DEF PageInv, OwnPage, FailedIsTrue
  <2>2. page.id # c.id
    BY <2>1, <1>1, <1>2 DEF Mounted
  <2> QED BY <2>1, <2>2, <1>3
<1> QED BY <1>4, <1>5

LEMMA ServeRetryKeepsIt ==
  ASSUME PageInv, NEW c \in calls, ServeRetry(c)
  PROVE  PageInv'
<1>0. /\ TypeOK /\ Owned /\ OwnCall(c) /\ c \in Call /\ c.kind = "retry" /\ c.step = "sent"
      /\ c.id \in Ids
      /\ UNCHANGED <<deleted, place, reading, page, timers, mounts, owner, lost, streak>>
  BY DEF PageInv, TypeOK, OwnCall, ServeRetry, pageVars, history
<1>1. PICK d : /\ d \in {[c EXCEPT !.step = "committed"],
                         [c EXCEPT !.step = "answered", !.status = "refused"]}
               /\ Forward(c, d) /\ UNCHANGED <<attempts, delivered>>
               /\ \/ /\ d.step = "committed" /\ status[c.id] = "failed"
                     /\ status' = [status EXCEPT ![c.id] = "queued"]
                  \/ /\ d.step = "answered" /\ d.status = "refused" /\ UNCHANGED status
  <2>1. CASE Retried(c.id) /\ Forward(c, [c EXCEPT !.step = "committed"])
    <3>1. PICK d : d = [c EXCEPT !.step = "committed"]
      OBVIOUS
    <3>2. d.step = "committed"
      BY <3>1, <1>0 DEF Call
    <3> QED BY <2>1, <3>1, <3>2 DEF Retried, Become
  <2>2. CASE /\ Forward(c, [c EXCEPT !.step = "answered", !.status = "refused"])
             /\ UNCHANGED lifecycle
    <3>1. PICK d : d = [c EXCEPT !.step = "answered", !.status = "refused"]
      OBVIOUS
    <3>2. d.step = "answered" /\ d.status = "refused"
      BY <3>1, <1>0 DEF Call
    <3> QED BY <2>2, <3>1, <3>2 DEF lifecycle
  <2> QED BY <2>1, <2>2 DEF ServeRetry
<1>2. /\ d.kind = c.kind /\ d.mount = c.mount /\ d.effect = c.effect /\ d.waited = c.waited
      /\ d.id = c.id /\ d.story = c.story /\ d \in Call
  BY <1>0, <1>1 DEF Call
<1>3. Forwarded(c, d)
  BY <1>0, <1>1, <1>2, ForwardGoesOn DEF PageInv, Forwarded
<1>4. Monotone
  BY <1>0, <1>1, SameIsMonotone
<1>5. status' \in [Ids -> Statuses] /\ \A r \in Ids : status[r] # "absent" => status'[r] # "absent"
  BY <1>0, <1>1 DEF TypeOK, Statuses
<1>6. TypeOK' /\ Owned'
  BY <1>0, <1>1, <1>2, <1>3, <1>5 DEF TypeOK, Owned, Forwarded
<1>7. (\A x \in calls : OwnCall(x))'
  <2>1. d \in calls' => OwnCall(d)'
    BY <1>0, <1>1, <1>2, <1>3 DEF OwnCall, Given, Forwarded
  <2> QED BY <2>1, <1>0, <1>3, <1>4, OwnCallsKept DEF PageInv, Forwarded
<1>8. StillFailed' /\ FailedIsTrue'
  <2>1. CASE d.step = "committed" /\ status' = [status EXCEPT ![c.id] = "queued"]
    BY <2>1, <1>0, <1>3, RetriedKeepsFailures
  <2>2. CASE d.step = "answered" /\ UNCHANGED status
    <3>1. FailedIsTrue'
      BY <2>2, <1>0 DEF PageInv, FailedIsTrue
    <3>2. FailureHeard(d)' => FailureHeard(c)
      BY <1>0, <1>2 DEF FailureHeard, Mounted
    <3>3. \A x \in calls' : x = d \/ (x \in calls /\ (FailureHeard(x)' => FailureHeard(x)))
      BY <1>0, <1>3 DEF Forwarded, FailureHeard, Mounted, Live
    <3>4. StillFailed'
      BY <3>2, <3>3, <2>2, <1>2 DEF PageInv, StillFailed
    <3> QED BY <3>1, <3>4
  <2> QED BY <2>1, <2>2, <1>1
<1> QED BY <1>0, <1>3, <1>4, <1>6, <1>7, <1>8, ForwardedKeepsPage, ForwardedKeepsCreation
        DEF PageInv

LEMMA ServeCreateKeepsIt ==
  ASSUME PageInv, NEW c \in calls, ServeCreate(c)
  PROVE  PageInv'
<1>0. /\ TypeOK /\ Owned /\ OwnPage /\ OwnCall(c) /\ c \in Call
      /\ c.kind = "create" /\ c.step = "sent" /\ ~c.story
      /\ UNCHANGED <<deleted, place, reading, page, timers, mounts, lost, streak>>
  BY DEF PageInv, TypeOK, OwnCall, ServeCreate, pageVars
<1>1. PICK r \in Ids : /\ Created(r) /\ owner' = [owner EXCEPT ![r] = c.mount]
                       /\ Forward(c, [c EXCEPT !.step = "answered", !.id = r, !.status = "queued"])
  BY DEF ServeCreate
<1>2. PICK d : d = [c EXCEPT !.step = "answered", !.id = r, !.status = "queued"]
  OBVIOUS
<1>3. /\ d.kind = "create" /\ d.mount = c.mount /\ d.effect = c.effect /\ d.waited = c.waited
      /\ d.id = r /\ d.step = "answered" /\ d.status = "queued" /\ ~d.story /\ d \in Call
  BY <1>0, <1>2 DEF Call, Statuses
<1>4. /\ status[r] = "absent" /\ status' = [status EXCEPT ![r] = "queued"]
      /\ UNCHANGED <<attempts, delivered>> /\ Forward(c, d) /\ owner[r] = 0
  BY <1>0, <1>1, <1>2 DEF Created, Become, Owned
<1>5. c.mount \in Nat /\ c.mount # 0 /\ c.mount <= mounts /\ c.mount \in 1 .. mounts
  <2>1. c.mount \in 1 .. mounts
    BY <1>0 DEF OwnCall
  <2> QED BY <2>1, <1>0 DEF TypeOK
<1>6. Forwarded(c, d)
  BY <1>0, <1>3, <1>4, ForwardGoesOn DEF PageInv, Forwarded
<1>7. /\ owner' \in [Ids -> Nat] /\ owner'[r] = c.mount
      /\ \A q \in Ids : q # r => owner'[q] = owner[q]
  BY <1>0, <1>1, <1>5 DEF TypeOK
<1>8. Monotone
  BY <1>0, <1>4, <1>7 DEF TypeOK, Monotone
<1>9. TypeOK'
  BY <1>0, <1>3, <1>4, <1>6, <1>7 DEF TypeOK, Forwarded, Statuses
<1>10. Owned'
  BY <1>0, <1>4, <1>5, <1>7 DEF TypeOK, Owned
<1>11. (\A x \in calls : OwnCall(x))'
  <2>1. d \in calls' => OwnCall(d)'
    BY <1>0, <1>3, <1>5, <1>6, <1>7 DEF OwnCall, Forwarded
  <2> QED BY <2>1, <1>0, <1>6, <1>8, OwnCallsKept DEF PageInv, Forwarded
<1>12. \A q \in Ids : status[q] = "failed" => status'[q] = "failed"
  BY <1>0, <1>4 DEF TypeOK
<1>13. StillFailed'
  <2> SUFFICES ASSUME NEW x \in calls', FailureHeard(x)'
               PROVE  status'[x.id] = "failed"
    BY DEF StillFailed
  <2>1. x # d
    BY <1>3 DEF FailureHeard
  <2>2. x \in calls /\ FailureHeard(x)
    BY <2>1, <1>6 DEF FailureHeard, Mounted, Live, Forwarded
  <2>3. x.id \in Ids /\ status[x.id] = "failed"
    BY <2>2, <1>0, FailureHeardHasId DEF PageInv, StillFailed
  <2> QED BY <2>3, <1>12
<1>14. FailedIsTrue'
  <2>1. page.phase = "failed" => page.id \in Ids
    BY <1>0 DEF OwnPage
  <2> QED BY <2>1, <1>0, <1>12 DEF PageInv, FailedIsTrue
<1>15. (\A m \in Nat \ {0} : Creation(m))'
  <2> SUFFICES ASSUME NEW m \in Nat \ {0}, <<"create", m>> \notin lost
               PROVE  Creation(m)'
    BY <1>0 DEF Creation
  <2>1. Creation(m)
    BY DEF PageInv
  <2>2. \A x \in calls' : x = d \/ (x \in calls /\ x # c)
    BY <1>6 DEF Forwarded
  <2>3. CASE c.mount = m
    <3>1. /\ \A x \in calls : x.kind = "create" /\ x.mount = m => x = c
          /\ \A q \in Ids : owner[q] # m
          /\ ~(m = mounts /\ place = "generate" /\ page.phase = "none" /\ ~page.submitting)
      BY <2>1, <2>3, <1>0 DEF Creation
    <3>2. \A q \in Ids : owner'[q] = m => q = r
      BY <3>1, <1>7
    <3>3. \A x \in calls' : x.kind = "create" /\ x.mount = m => x = d
      BY <3>1, <2>2
    <3> QED BY <3>1, <3>2, <3>3, <1>0, <1>3 DEF Creation
  <2>4. CASE c.mount # m
    <3>1. \A q \in Ids : owner'[q] = m <=> owner[q] = m
      BY <2>4, <1>4, <1>7
    <3>2. \A x \in calls' : x.mount = m => x \in calls
      BY <2>2, <2>4, <1>3
    <3> QED BY <2>1, <3>1, <3>2, <1>0 DEF Creation
  <2> QED BY <2>3, <2>4
<1> QED BY <1>6, <1>8, <1>9, <1>10, <1>11, <1>13, <1>14, <1>15, ForwardedKeepsPage DEF PageInv

-----------------------------------------------------------------------------
(* The answer that the page polls on after: nothing else is expected.      *)
Followed(c) ==
  /\ Expected(c)
  /\ calls' = calls \ {c} /\ c.id \in Ids /\ owner[c.id] = mounts
  /\ UNCHANGED <<lifecycle, deleted, place, reading, mounts, owner, lost>>
  /\ page' \in Page /\ page'.phase = "polling" /\ page'.id = c.id /\ page'.failures = 0
  /\ page'.effect = page.effect + 1
  /\ timers' = {page'.effect} /\ streak' = 0

LEMMA FollowedKeepsIt ==
  ASSUME PageInv, NEW c \in calls, Followed(c)
  PROVE  PageInv'
<1>0. TypeOK /\ Owned /\ page.effect \in Nat /\ Monotone
  BY SameIsMonotone DEF PageInv, TypeOK, Page, Followed, lifecycle
<1>1. /\ calls' = calls \ {c} /\ place = "generate" /\ c.id \in Ids /\ owner[c.id] = mounts
      /\ UNCHANGED <<status, attempts, delivered, deleted, place, reading, mounts, owner, lost>>
      /\ page' \in Page /\ page'.phase = "polling" /\ page'.id = c.id /\ page'.failures = 0
      /\ page'.effect = page.effect + 1
      /\ timers' = {page'.effect} /\ streak' = 0
  BY DEF Followed, Expected, Mounted, lifecycle
<1>2. TypeOK' /\ Owned'
  BY <1>0, <1>1 DEF TypeOK, Owned
<1>3. OwnPage'
  BY <1>0, <1>1 DEF OwnPage
<1>4. (\A x \in calls : OwnCall(x))'
  BY <1>0, <1>1, OwnCallsKept DEF PageInv
<1>5. \A x \in calls' : x \in calls /\ ~Expected(x) /\ ~Expected(x)'
  BY <1>1 DEF PageInv, OneExpected, Expected, Mounted, Followed
<1>6. \A x \in calls' : x.kind = "status" /\ Mounted(x)' => x.effect < page'.effect
  <2> SUFFICES ASSUME NEW x \in calls', x.kind = "status", Mounted(x)'
               PROVE  x.effect < page'.effect
    OBVIOUS
  <2>1. x \in calls /\ Mounted(x) /\ x.effect \in Nat
    BY <1>0, <1>1 DEF Mounted, TypeOK, Call
  <2>2. x.effect <= page.effect
    BY <2>1 DEF PageInv, Awaited
  <2> QED BY <2>1, <2>2, <1>0, <1>1
<1>7. (\A x \in calls : Awaited(x))'
  <2> SUFFICES ASSUME NEW x \in calls', Mounted(x)' PROVE Awaited(x)'
    BY DEF Awaited
  <2>1. ~Expected(x)' /\ x.effect \in Nat
    BY <1>0, <1>5 DEF TypeOK, Call
  <2>2. x.kind = "status" => x.effect < page'.effect
    BY <1>6
  <2>3. x.kind = "status" => x.effect <= page'.effect /\ x.effect # page'.effect
    BY <2>1, <2>2, <1>0, <1>1
  <2> QED BY <2>1, <2>3 DEF Awaited, Expected
<1>8. OneExpected'
  BY <1>5 DEF OneExpected
<1>9. \A x \in calls' : ~FailureHeard(x)'
  <2> SUFFICES ASSUME NEW x \in calls', FailureHeard(x)' PROVE FALSE
    OBVIOUS
  <2>1. x.kind = "status" /\ Mounted(x)' /\ x.effect = page'.effect /\ x.effect \in Nat
    BY <1>0, <1>5 DEF FailureHeard, Expected, Live, TypeOK, Call
  <2> QED BY <2>1, <1>6
<1>10. StillFailed' /\ FailedIsTrue'
  BY <1>1, <1>9 DEF StillFailed, FailedIsTrue
<1>11. (\A m \in Nat \ {0} : Creation(m))'
  BY <1>1, CreationKept DEF PageInv
<1> QED BY <1>2, <1>3, <1>4, <1>7, <1>8, <1>10, <1>11 DEF PageInv

-----------------------------------------------------------------------------
(* A submit or a retry that the page stops waiting for, with nothing to    *)
(* poll; it may go on as n.                                                *)
Released(c, n) ==
  /\ c.kind # "status" /\ c.waited
  /\ n \in Call /\ n.kind = c.kind /\ n.mount = c.mount /\ n.step = c.step /\ n.id = c.id
  /\ ~n.waited /\ n.story = c.story
  /\ calls' \subseteq (calls \ {c}) \cup {n}
  /\ n \in calls' => c.step # "answered" /\ <<c.kind, Given(c)>> \in lost'
  /\ UNCHANGED <<lifecycle, deleted, place, reading, timers, mounts, owner, streak>>
  /\ page' \in Page /\ page'.phase = page.phase /\ page'.id = page.id
  /\ page'.failures = page.failures /\ page'.effect = page.effect
  /\ page'.submitting = IF Mounted(c) /\ c.kind = "create" THEN FALSE ELSE page.submitting
  /\ page'.retrying = IF Mounted(c) /\ c.kind = "retry" THEN FALSE ELSE page.retrying
  /\ ~Mounted(c) => UNCHANGED page
  /\ lost \subseteq lost'
  /\ \/ <<c.kind, Given(c)>> \in lost'
     \/ ~Mounted(c)
     \/ c.kind = "create" /\ c.step = "answered" /\ c.status = "refused"
     \/ c.kind = "retry" /\ FailureHeard(c)
     \/ c.kind = "retry" /\ <<"retry", c.id>> \in lost

LEMMA ReleasedKeepsCalls ==
  ASSUME PageInv, NEW c \in calls, NEW n, Released(c, n)
  PROVE  /\ TypeOK' /\ Owned' /\ OwnPage'
         /\ (\A x \in calls : OwnCall(x))' /\ (\A x \in calls : Awaited(x))' /\ OneExpected'
<1>0. TypeOK /\ Owned /\ OwnPage /\ Monotone /\ OwnCall(c)
  BY SameIsMonotone DEF PageInv, Released, lifecycle
<1>1. TypeOK' /\ Owned'
  BY <1>0 DEF TypeOK, Owned, Released, lifecycle
<1>2. OwnPage'
  <2>1. CASE Mounted(c)
    BY <2>1, <1>0 DEF OwnPage, Released, Mounted
  <2>2. CASE ~Mounted(c)
    BY <2>2, <1>0 DEF OwnPage, Released
  <2> QED BY <2>1, <2>2
<1>3. (\A x \in calls : OwnCall(x))'
  <2>1. n \in calls' => OwnCall(n)'
    BY <1>0 DEF OwnCall, Given, Released, lifecycle
  <2> QED BY <2>1, <1>0, OwnCallsKept DEF PageInv, Released
<1>4. \A x \in calls' : x = n \/ (x \in calls /\ x # c)
  BY DEF Released
<1>5. \A x : Mounted(x)' <=> Mounted(x)
  BY DEF Mounted, Released
<1>6. \A x \in calls' : Expected(x)' => x \in calls /\ x # c /\ Expected(x)
  BY <1>4, <1>5 DEF Expected, Released
<1>7. Mounted(c) => \A x \in calls' : ~Expected(x)'
  BY <1>6 DEF PageInv, OneExpected, Expected, Released
<1>8. (\A x \in calls : Awaited(x))'
  <2> SUFFICES ASSUME NEW x \in calls', Mounted(x)' PROVE Awaited(x)'
    BY DEF Awaited
  <2>1. CASE x = n
    BY <2>1, <1>0 DEF Awaited, Released
  <2>2. CASE x \in calls /\ x # c
    <3>1. Awaited(x) /\ Mounted(x)
      BY <2>2, <1>5 DEF PageInv
    <3>2. CASE Mounted(c)
      <4>1. ~(x.kind # "status" /\ x.waited)
        BY <3>2, <1>7 DEF Expected
      <4> QED BY <3>1, <4>1 DEF Awaited, Released
    <3>3. CASE ~Mounted(c)
      BY <3>1, <3>3 DEF Awaited, Released
    <3> QED BY <3>2, <3>3
  <2> QED BY <2>1, <2>2, <1>4
<1>9. OneExpected'
  BY <1>6 DEF PageInv, OneExpected
<1> QED BY <1>1, <1>2, <1>3, <1>8, <1>9

LEMMA ReleasedKeepsCreation ==
  ASSUME PageInv, NEW c \in calls, NEW n, Released(c, n)
  PROVE  (\A m \in Nat \ {0} : Creation(m))'
<1> SUFFICES ASSUME NEW m \in Nat \ {0}, <<"create", m>> \notin lost'
             PROVE  Creation(m)'
  BY DEF Creation
<1>1. /\ Creation(m) /\ <<"create", m>> \notin lost /\ UNCHANGED <<owner, mounts, place>>
      /\ page'.phase = page.phase /\ lost \subseteq lost'
  BY DEF PageInv, Released
<1>2. CASE c.kind # "create"
  <2>1. page'.submitting = page.submitting /\ \A x \in calls' : x.kind = "create" => x \in calls
    BY <1>2 DEF Released
  <2> QED BY <1>1, <2>1, CreationKept
<1>3. CASE c.kind = "create" /\ c.mount # m
  <2>1. \A x \in calls' : x.mount = m => x \in calls
    BY <1>3 DEF Released
  <2>2. m = mounts => page'.submitting = page.submitting
    BY <1>3 DEF Released, Mounted
  <2> QED BY <1>1, <2>1, <2>2 DEF Creation
<1>4. CASE c.kind = "create" /\ c.mount = m
  <2>1. n \notin calls' /\ calls' \subseteq calls \ {c}
    BY <1>4 DEF Released, Given
  <2>2. ~Mounted(c) \/ (c.step = "answered" /\ c.status = "refused")
    BY <1>4 DEF Released, Given
  <2>3. \A x \in calls : x.kind = "create" /\ x.mount = m => x = c
    BY <1>1, <1>4 DEF Creation
  <2>4. \A x \in calls' : x.kind = "create" => x.mount # m
    BY <2>1, <2>3
  <2>5. Mounted(c) => \A r \in Ids : owner[r] # m
    BY <1>1, <1>4, <2>2 DEF Creation
  <2>6. Mounted(c) <=> place = "generate" /\ m = mounts
    BY <1>4 DEF Mounted
  <2> QED BY <1>1, <2>4, <2>5, <2>6 DEF Creation
<1> QED BY <1>2, <1>3, <1>4

LEMMA ReleasedKeepsFailures ==
  ASSUME PageInv, NEW c \in calls, NEW n, Released(c, n)
  PROVE  StillFailed' /\ FailedIsTrue'
<1>1. StillFailed'
  <2> SUFFICES ASSUME NEW x \in calls', FailureHeard(x)'
               PROVE  status[x.id] = "failed"
    BY DEF StillFailed, Released, lifecycle
  <2>1. x # n
    BY DEF FailureHeard, Released
  <2>2. x \in calls
    BY <2>1 DEF Released
  <2>3. FailureHeard(x)
    BY DEF FailureHeard, Mounted, Live, Released
  <2> QED BY <2>2, <2>3 DEF PageInv, StillFailed
<1>2. FailedIsTrue'
  <2> SUFFICES ASSUME place = "generate", page.phase = "failed", ~page'.retrying,
                      <<"retry", page.id>> \notin lost'
               PROVE  status[page.id] = "failed"
    BY DEF FailedIsTrue, Released, lifecycle
  <2>1. <<"retry", page.id>> \notin lost
    BY DEF Released
  <2>2. CASE ~page.retrying
    BY <2>1, <2>2 DEF PageInv, FailedIsTrue
  <2>3. CASE page.retrying
    <3>1. Mounted(c) /\ c.kind = "retry"
      BY <2>3 DEF Released
    <3>2. page.id = c.id
      BY <3>1 DEF PageInv, Awaited, Released
    <3>3. FailureHeard(c)
      BY <2>1, <3>1, <3>2 DEF Released, Given
    <3> QED BY <3>2, <3>3 DEF PageInv, StillFailed
  <2> QED BY <2>2, <2>3 DEF PageInv, TypeOK, Page
<1> QED BY <1>1, <1>2

LEMMA ReleasedKeepsIt ==
  ASSUME PageInv, NEW c \in calls, NEW n, Released(c, n)
  PROVE  PageInv'
BY ReleasedKeepsCalls, ReleasedKeepsCreation, ReleasedKeepsFailures DEF PageInv

-----------------------------------------------------------------------------
(* The answers to submits and retries, and their loss.                     *)
LEMMA CreateAnswerKeepsIt ==
  ASSUME PageInv, NEW c \in calls, CreateAnswer(c)
  PROVE  PageInv'
<1>0. /\ TypeOK /\ OwnCall(c) /\ c \in Call /\ page \in Page /\ page.effect \in Nat
      /\ c.kind = "create" /\ c.step = "answered" /\ c.waited /\ calls' = calls \ {c}
      /\ UNCHANGED <<lifecycle, deleted, mounts, owner, lost, place, reading>>
  BY DEF PageInv, TypeOK, Page, OwnCall, CreateAnswer, Answered, Take
<1>1. PICK n : n = [c EXCEPT !.waited = FALSE]
  OBVIOUS
<1>2. /\ n \in Call /\ n.kind = c.kind /\ n.mount = c.mount /\ n.step = c.step /\ n.id = c.id
      /\ ~n.waited /\ n.story = c.story
  BY <1>0, <1>1 DEF Call
<1>3. n \notin calls'
  BY <1>0, <1>2 DEF PageInv, OwnCall
<1>4. CASE ~Mounted(c)
  <2>1. UNCHANGED <<page, timers, streak>>
    BY <1>4 DEF CreateAnswer
  <2>2. Released(c, n)
    BY <2>1, <1>0, <1>2, <1>3, <1>4 DEF Released
  <2> QED BY <2>2, ReleasedKeepsIt
<1>5. CASE Mounted(c) /\ c.status = "refused"
  <2>1. page' = [page EXCEPT !.submitting = FALSE] /\ UNCHANGED <<timers, streak>>
    BY <1>5 DEF CreateAnswer
  <2>2. /\ page' \in Page /\ page'.phase = page.phase /\ page'.id = page.id
        /\ page'.failures = page.failures /\ page'.effect = page.effect
        /\ page'.submitting = FALSE /\ page'.retrying = page.retrying
    BY <2>1, <1>0 DEF Page
  <2>3. Released(c, n)
    BY <2>1, <2>2, <1>0, <1>2, <1>3, <1>5 DEF Released
  <2> QED BY <2>3, ReleasedKeepsIt
<1>6. CASE Mounted(c) /\ c.status # "refused"
  <2>1. c.id \in Ids /\ owner[c.id] = mounts
    BY <1>0, <1>6 DEF OwnCall, Mounted
  <2>2. PICK p : /\ p = [page EXCEPT !.submitting = FALSE] /\ page' = Polling(p, c.id)
                 /\ timers' = {page'.effect} /\ streak' = 0
    BY <1>6 DEF CreateAnswer
  <2>3. /\ page' \in Page /\ page'.phase = "polling" /\ page'.id = c.id /\ page'.failures = 0
        /\ page'.effect = page.effect + 1
    <3>1. p \in Page /\ p.effect = page.effect
      BY <2>2, <1>0 DEF Page
    <3>2. PICK e \in Nat : e = page.effect + 1
      BY <1>0
    <3>3. page' = [p EXCEPT !.phase = "polling", !.id = c.id, !.failures = 0, !.effect = e]
      BY <2>2, <3>1, <3>2 DEF Polling
    <3> QED BY <2>1, <3>1, <3>2, <3>3 DEF Page
  <2>4. Followed(c)
    BY <2>1, <2>2, <2>3, <1>0, <1>6 DEF Followed, Expected
  <2> QED BY <2>4, FollowedKeepsIt
<1> QED BY <1>4, <1>5, <1>6

LEMMA RetryAnswerKeepsIt ==
  ASSUME PageInv, NEW c \in calls, RetryAnswer(c)
  PROVE  PageInv'
<1>0. /\ TypeOK /\ OwnCall(c) /\ c \in Call /\ page \in Page /\ page.effect \in Nat
      /\ c.kind = "retry" /\ c.step = "answered" /\ c.waited /\ calls' = calls \ {c}
      /\ UNCHANGED <<lifecycle, deleted, mounts, owner, lost, place, reading>>
  BY DEF PageInv, TypeOK, Page, OwnCall, RetryAnswer, Answered, Take
<1>1. PICK n : n = [c EXCEPT !.waited = FALSE]
  OBVIOUS
<1>2. /\ n \in Call /\ n.kind = c.kind /\ n.mount = c.mount /\ n.step = c.step /\ n.id = c.id
      /\ ~n.waited /\ n.story = c.story
  BY <1>0, <1>1 DEF Call
<1>3. n \notin calls'
  BY <1>0, <1>2 DEF PageInv, OwnCall
<1>4. CASE ~Mounted(c)
  <2>1. UNCHANGED <<page, timers, streak>>
    BY <1>4 DEF RetryAnswer
  <2>2. Released(c, n)
    BY <2>1, <1>0, <1>2, <1>3, <1>4 DEF Released
  <2> QED BY <2>2, ReleasedKeepsIt
<1>5. CASE Mounted(c) /\ c.status \in {"failed", "refused"}
  <2>1. page' = [page EXCEPT !.retrying = FALSE] /\ UNCHANGED <<timers, streak>>
    BY <1>5 DEF RetryAnswer
  <2>2. /\ page' \in Page /\ page'.phase = page.phase /\ page'.id = page.id
        /\ page'.failures = page.failures /\ page'.effect = page.effect
        /\ page'.submitting = page.submitting /\ page'.retrying = FALSE
    BY <2>1, <1>0 DEF Page
  <2>3. FailureHeard(c) \/ <<"retry", c.id>> \in lost
    BY <1>0, <1>5 DEF FailureHeard
  <2>4. Released(c, n)
    BY <2>1, <2>2, <2>3, <1>0, <1>2, <1>3, <1>5 DEF Released
  <2> QED BY <2>4, ReleasedKeepsIt
<1>6. CASE Mounted(c) /\ c.status \notin {"failed", "refused"}
  <2>1. c.id \in Ids /\ owner[c.id] = mounts
    BY <1>0, <1>6 DEF OwnCall, Mounted
  <2>2. PICK p : /\ p = [page EXCEPT !.retrying = FALSE] /\ page' = Polling(p, c.id)
                 /\ timers' = {page'.effect} /\ streak' = 0
    BY <1>6 DEF RetryAnswer
  <2>3. /\ page' \in Page /\ page'.phase = "polling" /\ page'.id = c.id /\ page'.failures = 0
        /\ page'.effect = page.effect + 1
    <3>1. p \in Page /\ p.effect = page.effect
      BY <2>2, <1>0 DEF Page
    <3>2. PICK e \in Nat : e = page.effect + 1
      BY <1>0
    <3>3. page' = [p EXCEPT !.phase = "polling", !.id = c.id, !.failures = 0, !.effect = e]
      BY <2>2, <3>1, <3>2 DEF Polling
    <3> QED BY <2>1, <3>1, <3>2, <3>3 DEF Page
  <2>4. Followed(c)
    BY <2>1, <2>2, <2>3, <1>0, <1>6 DEF Followed, Expected
  <2> QED BY <2>4, FollowedKeepsIt
<1> QED BY <1>4, <1>5, <1>6

LEMMA LoseKeepsIt ==
  ASSUME PageInv, NEW c \in calls, NEW goesOn \in BOOLEAN, Lose(c, goesOn)
  PROVE  PageInv'
<1>0. /\ TypeOK /\ OwnCall(c) /\ c \in Call /\ page \in Page
      /\ c.kind \in {"create", "retry"} /\ c.waited
      /\ UNCHANGED <<lifecycle, deleted, place, reading, timers, mounts, owner, streak>>
      /\ lost' = lost \cup {<<c.kind, Given(c)>>}
  BY DEF PageInv, TypeOK, Call, Lose, Given
<1>1. PICK n : n = [c EXCEPT !.waited = FALSE]
  OBVIOUS
<1>2. /\ n \in Call /\ n.kind = c.kind /\ n.mount = c.mount /\ n.step = c.step /\ n.id = c.id
      /\ ~n.waited /\ n.story = c.story
  BY <1>0, <1>1 DEF Call
<1>3. calls' \subseteq (calls \ {c}) \cup {n} /\ (n \in calls' => c.step # "answered")
  <2>1. n \in calls => c.step # "answered"
    BY <1>2 DEF PageInv, OwnCall
  <2> QED BY <2>1, <1>1 DEF Lose
<1>4. /\ page' \in Page /\ page'.phase = page.phase /\ page'.id = page.id
      /\ page'.failures = page.failures /\ page'.effect = page.effect
      /\ page'.submitting = IF Mounted(c) /\ c.kind = "create" THEN FALSE ELSE page.submitting
      /\ page'.retrying = IF Mounted(c) /\ c.kind = "retry" THEN FALSE ELSE page.retrying
      /\ ~Mounted(c) => UNCHANGED page
  <2>1. CASE ~Mounted(c)
    BY <2>1, <1>0 DEF Lose
  <2>2. CASE Mounted(c) /\ c.kind = "create"
    <3>1. page' = [page EXCEPT !.submitting = FALSE]
      BY <2>2 DEF Lose
    <3> QED BY <3>1, <2>2, <1>0 DEF Page
  <2>3. CASE Mounted(c) /\ c.kind = "retry"
    <3>1. page' = [page EXCEPT !.retrying = FALSE]
      BY <2>3 DEF Lose
    <3> QED BY <3>1, <2>3, <1>0 DEF Page
  <2> QED BY <2>1, <2>2, <2>3, <1>0
<1>5. Released(c, n)
  BY <1>0, <1>2, <1>3, <1>4 DEF Released
<1> QED BY <1>5, ReleasedKeepsIt

-----------------------------------------------------------------------------
LEMMA InitIsFine ==
  ASSUME Init, ConstantsOK
  PROVE  PageInv
<1>1. /\ status = [r \in Ids |-> "absent"] /\ attempts = [r \in Ids |-> 0] /\ delivered = {}
      /\ deleted = {} /\ place = "generate" /\ reading = NoId /\ page = FreshPage
      /\ timers = {} /\ calls = {} /\ mounts = 1 /\ owner = [r \in Ids |-> 0]
      /\ lost = {} /\ streak = 0
  BY DEF Init, LInit
<1>2. TypeOK
  BY <1>1 DEF TypeOK, Statuses, FreshPage, Page
<1>3. Owned /\ OwnPage
  BY <1>1 DEF Owned, OwnPage, FreshPage
<1>4. \A m \in Nat \ {0} : Creation(m)
  BY <1>1 DEF Creation
<1> QED BY <1>1, <1>2, <1>3, <1>4 DEF PageInv, OneExpected, StillFailed, FailedIsTrue, FreshPage

LEMMA StepsKeepIt ==
  ASSUME PageInv, ConstantsOK, [Next]_vars
  PROVE  PageInv'
<1>1. CASE Visitor
  <2>1. CASE Submit
    BY <2>1, SubmitKeepsIt
  <2>2. CASE Retry
    BY <2>2, RetryKeepsIt
  <2>3. CASE Leave
    BY <2>3, AwaySteps, AwayKeepsIt
  <2>4. CASE Open
    BY <2>4, OpenKeepsIt
  <2>5. CASE \E r \in Ids : DeleteStory(r)
    BY <2>5, QuietSteps, QuietKeepsIt
  <2> QED BY <1>1, <2>1, <2>2, <2>3, <2>4, <2>5 DEF Visitor
<1>2. CASE Timer
  BY <1>2, PollKeepsIt DEF Timer
<1>3. CASE QueueStep \/ UNCHANGED vars
  BY <1>3, QuietSteps, QuietKeepsIt
<1>4. CASE \E c \in calls : Serve(c) \/ Answer(c) \/ Fault(c)
  <2> SUFFICES ASSUME NEW c \in calls, Serve(c) \/ Answer(c) \/ Fault(c)
               PROVE  PageInv'
    BY <1>4
  <2>1. CASE Serve(c)
    BY <2>1, ServeCreateKeepsIt, ServeRetryKeepsIt, ReadStatusKeepsIt DEF Serve
  <2>2. CASE StatusIgnored(c)
    BY <2>2, QuietSteps, QuietKeepsIt
  <2>3. CASE StatusSucceeded(c) \/ RetryDelivered(c) \/ SessionEnded(c)
    BY <2>3, AwaySteps, AwayKeepsIt
  <2>4. CASE StatusFailed(c) \/ StatusPending(c) \/ StatusRefused(c) \/ LosePoll(c)
    BY <2>4, HeardSteps, HeardKeepsIt
  <2>5. CASE CreateAnswer(c) \/ RetryAnswer(c)
    BY <2>5, CreateAnswerKeepsIt, RetryAnswerKeepsIt
  <2>6. CASE Refuse(c) \/ \E goesOn \in BOOLEAN : Lose(c, goesOn)
    BY <2>6, RefuseKeepsIt, LoseKeepsIt
  <2> QED BY <2>1, <2>2, <2>3, <2>4, <2>5, <2>6 DEF Answer, Fault
<1> QED BY <1>1, <1>2, <1>3, <1>4 DEF Next

(* The page, its calls and the requests they are about agree, whatever is  *)
(* lost, refused or answered late.                                         *)
THEOREM PageInvariant == Spec => []PageInv
BY InitIsFine, StepsKeepIt, ConstantsOK, PTL DEF Spec

(* A failure with a Retry button is the request's state: no retry that the *)
(* page knows of has moved it on.                                          *)
THEOREM TheFailureShownIsTrue == Spec => []FailedIsTrue
<1>1. PageInv => FailedIsTrue
  BY DEF PageInv
<1> QED BY <1>1, PageInvariant, PTL

(* One opening of the page, one request in the queue, unless the answer to *)
(* a submit was lost and the visitor submitted again.                      *)
THEOREM OneOpeningOneRequest == Spec => []OneRequestPerPage
<1>1. PageInv => OneRequestPerPage
  <2> SUFFICES ASSUME PageInv, NEW r \in Ids, NEW q \in Ids, owner[r] # 0, owner[r] = owner[q],
                      <<"create", owner[r]>> \notin lost
               PROVE  r = q
    BY DEF OneRequestPerPage
  <2>1. PICK m \in Nat \ {0} : m = owner[r]
    BY DEF PageInv, TypeOK
  <2> QED BY <2>1 DEF PageInv, Creation
<1> QED BY <1>1, PageInvariant, PTL

(* The steps after which the visitor reads another story.                  *)
LEMMA OnlyTwoStepsOpenAStory ==
  ASSUME PageInv, ConstantsOK, [Next]_vars, reading' \notin {NoId, reading}
  PROVE  \E c \in calls : StatusSucceeded(c) \/ RetryDelivered(c)
<1>1. CASE Visitor \/ Timer \/ QueueStep \/ UNCHANGED vars
  BY <1>1 DEF Visitor, Timer, QueueStep, Submit, Retry, Leave, Open, DeleteStory, Poll, GoTo,
     vars, pageVars
<1>2. CASE \E c \in calls : Serve(c) \/ Fault(c)
  BY <1>2 DEF Serve, Fault, ServeCreate, ServeRetry, ReadStatus, Refuse, SessionEnded, LosePoll,
     Lose, GoTo, pageVars
<1>3. CASE \E c \in calls : Answer(c)
  BY <1>3 DEF Answer, CreateAnswer, StatusIgnored, StatusFailed, StatusPending, StatusRefused,
     RetryAnswer, pageVars
<1> QED BY <1>1, <1>2, <1>3 DEF Next

(* The visitor is taken to a delivered story of the request this opening   *)
(* made, however late answers come; only a retry's is never cancelled.     *)
THEOREM TakenOnlyToOwnStory == Spec => TakenToOwnStory
<1>1. ASSUME PageInv, [Next]_vars, ConstantsOK
      PROVE  [reading' \notin {NoId, reading} =>
                /\ reading' \in delivered
                /\ \/ place = "generate" /\ reading' = page.id /\ owner[reading'] = mounts
                   \/ \E c \in calls : Answered(c, "retry") /\ c.id = reading']_vars
  <2> SUFFICES ASSUME reading' \notin {NoId, reading}
               PROVE  /\ reading' \in delivered
                      /\ \/ place = "generate" /\ reading' = page.id /\ owner[reading'] = mounts
                         \/ \E c \in calls : Answered(c, "retry") /\ c.id = reading'
    OBVIOUS
  <2>1. PICK c \in calls : StatusSucceeded(c) \/ RetryDelivered(c)
    BY <1>1, OnlyTwoStepsOpenAStory
  <2>2. reading' = c.id /\ c.story
    BY <2>1 DEF StatusSucceeded, RetryDelivered, OpenStory, StoryReady
  <2>3. reading' \in delivered
    BY <1>1, <2>2 DEF PageInv, OwnCall
  <2>4. CASE StatusSucceeded(c)
    <3>1. Live(c) /\ c.kind = "status"
      BY <2>4 DEF StatusSucceeded, Answered
    <3>2. page.id = c.id /\ place = "generate" /\ owner[page.id] = mounts
      BY <1>1, <3>1 DEF PageInv, Awaited, OwnPage, Live, Mounted
    <3> QED BY <2>2, <2>3, <3>2
  <2>5. CASE RetryDelivered(c)
    BY <2>2, <2>3, <2>5 DEF RetryDelivered
  <2> QED BY <2>1, <2>4, <2>5
<1> QED BY <1>1, PageInvariant, ConstantsOK, PTL DEF Spec, TakenToOwnStory

(* The page gives up after MaxFailures failures in a row, or on an answer  *)
(* that cannot change.                                                     *)
THEOREM GivesUpForAReason == Spec => GivesUpOnlyWhenLost
<1>1. ASSUME PageInv, [Next]_vars, ConstantsOK
      PROVE  [page'.phase = "error" /\ page.phase # "error" =>
                \/ streak' >= MaxFailures
                \/ \E c \in calls : Live(c) /\ Answered(c, "status") /\ c.status = "refused"]_vars
  <2>0. page \in Page /\ streak \in Nat /\ page.failures <= streak /\ page.failures \in Nat
    BY <1>1 DEF PageInv, TypeOK, OwnPage, Page
  <2> SUFFICES ASSUME page'.phase = "error", page.phase # "error"
               PROVE  \/ streak' >= MaxFailures
                      \/ \E c \in calls : Live(c) /\ Answered(c, "status") /\ c.status = "refused"
    OBVIOUS
  <2>1. CASE Visitor \/ Timer \/ QueueStep \/ UNCHANGED vars
    BY <2>0, <2>1 DEF Visitor, Timer, QueueStep, Submit, Retry, Leave, Open, DeleteStory, Poll,
       GoTo, FreshPage, vars, pageVars, Page
  <2>2. ASSUME NEW c \in calls, Serve(c) \/ Refuse(c) \/ SessionEnded(c) \/ StatusIgnored(c)
                 \/ StatusSucceeded(c) \/ RetryDelivered(c)
        PROVE  FALSE
    <3>1. UNCHANGED page \/ page' = FreshPage
      BY <2>2 DEF Serve, ServeCreate, ServeRetry, ReadStatus, Refuse, SessionEnded, GoTo,
         StatusIgnored, StatusSucceeded, RetryDelivered, OpenStory, pageVars
    <3> QED BY <3>1 DEF FreshPage
  <2>3. ASSUME NEW c \in calls, CreateAnswer(c) \/ RetryAnswer(c) \/ StatusFailed(c)
                 \/ StatusPending(c)
        PROVE  FALSE
    BY <2>0, <2>3 DEF CreateAnswer, RetryAnswer, StatusFailed, StatusPending, Polling, Page
  <2>4. ASSUME NEW c \in calls, NEW goesOn \in BOOLEAN, Lose(c, goesOn)
        PROVE  FALSE
    BY <2>0, <2>4 DEF Lose, Page
  <2>5. ASSUME NEW c \in calls, StatusRefused(c)
        PROVE  Live(c) /\ Answered(c, "status") /\ c.status = "refused"
    BY <2>5 DEF StatusRefused
  <2>6. ASSUME NEW c \in calls, LosePoll(c)
        PROVE  streak' >= MaxFailures
    <3>1. streak' = streak + 1 /\ MaxFailures \in Nat
      BY <1>1, <2>6 DEF LosePoll, ConstantsOK
    <3>2. ~(page.failures + 1 < MaxFailures)
      <4> SUFFICES ASSUME page.failures + 1 < MaxFailures PROVE FALSE
        OBVIOUS
      <4>1. page' = [page EXCEPT !.failures = page.failures + 1]
        BY <2>6 DEF LosePoll
      <4> QED BY <4>1, <2>0 DEF Page
    <3> QED BY <2>0, <3>1, <3>2
  <2> QED BY <1>1, <2>1, <2>2, <2>3, <2>4, <2>5, <2>6 DEF Next, Answer, Fault
<1> QED BY <1>1, PageInvariant, ConstantsOK, PTL DEF Spec, GivesUpOnlyWhenLost
=============================================================================
