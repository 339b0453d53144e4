-------------------------- MODULE GenerationQueue --------------------------
(***************************************************************************)
(* The durable generation queue: the story_generation_requests table, the  *)
(* worker processes that claim rows and call the provider, the reclaim     *)
(* sweep, and the API transactions that create and retry requests.         *)
(*                                                                         *)
(* Database transactions are at READ COMMITTED.  A worker and an API       *)
(* request work on an ORM copy of the row, and their UPDATE is keyed by    *)
(* the row's id only, so whatever was committed between the read and the   *)
(* commit is overwritten.  Reads and commits are therefore separate steps. *)
(*                                                                         *)
(* Abstracted: timestamps to "is it set" (started, completed) and "is      *)
(* started_at older than the staleness threshold" (stale); the vocabulary  *)
(* snapshot, the prompt and the story's text; identifiers are handed out   *)
(* in created_at order.                                                    *)
(***************************************************************************)
EXTENDS Naturals, FiniteSets, Sequences

CONSTANTS
  Workers,        \* worker processes
  Clients,        \* API transactions that may be open at once
  MaxRequests,    \* bound: rows ever created
  MaxAttempts,    \* MAX_ATTEMPTS
  MaxActive,      \* MAX_ACTIVE_GENERATIONS
  MaxCrashes,     \* bound: abrupt process deaths
  SerialRetries,  \* TRUE: at most one retry of a request is open at a time
  TimelyCalls     \* TRUE: a live worker finishes within the staleness threshold

ASSUME ConstantsOK ==
  /\ MaxRequests \in Nat \ {0}
  /\ MaxAttempts \in Nat \ {0}
  /\ MaxActive \in Nat \ {0}
  /\ MaxCrashes \in Nat
  /\ SerialRetries \in BOOLEAN
  /\ TimelyCalls \in BOOLEAN
  /\ IsFiniteSet(Clients)

VARIABLES
  row,       \* story_generation_requests, by id
  stale,     \* running rows whose started_at is past the threshold
  story,     \* requests that have a row in stories
  produced,  \* history: how many Story rows were ever committed per request
  payloads,  \* raw_generation_payloads: attempt numbers, in insertion order
  pc,        \* where each worker process is
  cur,       \* the request each worker holds
  mem,       \* each worker's ORM copy of that row
  stop,      \* workers whose stop flag is set
  op,        \* the API transaction each client has open
  arg,       \* the request it is about
  nextId,    \* the next id to hand out
  crashes    \* abrupt deaths so far

rowVars    == <<row, stale>>
storyVars  == <<story, produced, payloads>>
workerVars == <<pc, cur, mem, stop>>
clientVars == <<op, arg, nextId>>
vars == <<rowVars, storyVars, workerVars, clientVars, crashes>>

Requests   == 1..MaxRequests
NoRequest  == 0
Finished   == {"succeeded", "failed"}
ActiveStatus == {"queued", "running"}
ErrorCodes == {"none", "ProviderError", "InsufficientVocabularyCoverage",
               "StaleWorkerRetryLimitExceeded"}

Row == [status    : {"absent"} \cup ActiveStatus \cup Finished,
        started   : BOOLEAN,
        completed : BOOLEAN,
        attempts  : Nat,
        error     : ErrorCodes]

NoRow == [status |-> "absent", started |-> FALSE, completed |-> FALSE,
          attempts |-> 0, error |-> "none"]

(* The copy that matters after the claim: what the transition check reads   *)
(* and the number the raw payload is filed under.                           *)
Copy   == [status : {"absent"} \cup ActiveStatus \cup Finished, attempts : Nat]
NoCopy == [status |-> "absent", attempts |-> 0]

PCs     == {"down", "boot", "top", "ready", "locked", "claimed", "calling"}
Holding == {"locked", "claimed", "calling"}
Ops     == {"none", "create", "retry_read", "retry"}

TypeOK ==
  /\ row \in [Requests -> Row]
  /\ stale \in SUBSET Requests
  /\ story \in SUBSET Requests
  /\ produced \in [Requests -> Nat]
  /\ payloads \in [Requests -> Seq(Nat)]
  /\ pc \in [Workers -> PCs]
  /\ cur \in [Workers -> Requests \cup {NoRequest}]
  /\ \A w \in Workers : pc[w] \in Holding => cur[w] \in Requests
  /\ mem \in [Workers -> Copy]
  /\ stop \in SUBSET Workers
  /\ op \in [Clients -> Ops]
  /\ arg \in [Clients -> Requests \cup {NoRequest}]
  /\ \A c \in Clients : op[c] # "none" => arg[c] \in Requests
  /\ nextId \in 1..(MaxRequests + 1)
  /\ crashes \in 0..MaxCrashes

Init ==
  /\ row = [r \in Requests |-> NoRow]
  /\ stale = {}
  /\ story = {}
  /\ produced = [r \in Requests |-> 0]
  /\ payloads = [r \in Requests |-> <<>>]
  /\ pc = [w \in Workers |-> "boot"]
  /\ cur = [w \in Workers |-> NoRequest]
  /\ mem = [w \in Workers |-> NoCopy]
  /\ stop = {}
  /\ op = [c \in Clients |-> "none"]
  /\ arg = [c \in Clients |-> NoRequest]
  /\ nextId = 1
  /\ crashes = 0

-----------------------------------------------------------------------------
(* The lifecycle-timestamps CHECK constraint of the table.                 *)
LifecycleCheck(x) ==
  \/ x.status = "absent"
  \/ x.status = "queued"  /\ ~x.started /\ ~x.completed
  \/ x.status = "running" /\  x.started /\ ~x.completed
  \/ x.status \in Finished /\ x.started /\ x.completed

(* VALID_TRANSITIONS, as _transition consults it.                          *)
Transition(from, to) ==
  \/ from = "queued"  /\ to = "running"
  \/ from = "running" /\ to \in {"succeeded", "failed", "queued"}
  \/ from = "failed"  /\ to = "queued"

ActiveRequests == {r \in Requests : row[r].status \in ActiveStatus}

(* _ensure_capacity: an unlocked count.                                    *)
HasCapacity == Cardinality(ActiveRequests) < MaxActive

(* Row locks: SELECT ... FOR UPDATE holds one until the claim commits.     *)
Locked(r) == \E w \in Workers : pc[w] = "locked" /\ cur[w] = r

Release(w) ==
  /\ cur' = [cur EXCEPT ![w] = NoRequest]
  /\ mem' = [mem EXCEPT ![w] = NoCopy]

(* An exception that run_forever does not catch ends the process; its open *)
(* transaction is rolled back.                                             *)
Dies(w) ==
  /\ pc' = [pc EXCEPT ![w] = "down"]
  /\ stop' = stop \ {w}
  /\ Release(w)

-----------------------------------------------------------------------------
(* The worker process.                                                     *)

(* Mutant: the claim is not FOR UPDATE.                                    *)
ClaimableUnlocked == {r \in Requests : row[r].status = "queued"}

(* claim_next_request, the SELECT: the oldest queued row that no other     *)
(* claim holds locked.                                                     *)
Claimable == {r \in Requests : row[r].status = "queued" /\ ~Locked(r)}

LockNext(w) ==
  /\ pc[w] \in {"top", "ready"}
  /\ pc[w] = "top" => w \notin stop
  /\ \E r \in Claimable :
       /\ \A q \in Claimable : r <= q
       /\ cur' = [cur EXCEPT ![w] = r]
  /\ pc' = [pc EXCEPT ![w] = "locked"]
  /\ UNCHANGED <<rowVars, storyVars, mem, stop, clientVars, crashes>>

(* Nothing to claim: run_once returns False and the loop comes round.      *)
PollEmpty(w) ==
  /\ pc[w] = "ready"
  /\ Claimable = {}
  /\ pc' = [pc EXCEPT ![w] = "top"]
  /\ UNCHANGED <<rowVars, storyVars, cur, mem, stop, clientVars, crashes>>

ClaimedRow(x) ==
  [x EXCEPT !.status = "running", !.started = TRUE, !.attempts = @ + 1]

CommitClaim(w) ==
  /\ pc[w] = "locked"
  /\ row' = [row EXCEPT ![cur[w]] = ClaimedRow(@)]
  /\ stale' = stale \ {cur[w]}
  /\ pc' = [pc EXCEPT ![w] = "claimed"]
  /\ UNCHANGED <<storyVars, cur, mem, stop, clientVars, crashes>>

(* The commit expired the ORM object; building the provider input reloads  *)
(* it.  The copy is then kept until the worker's own commit.               *)
Load(w) ==
  /\ pc[w] = "claimed"
  /\ mem' = [mem EXCEPT ![w] = [status   |-> row[cur[w]].status,
                                attempts |-> row[cur[w]].attempts]]
  /\ pc' = [pc EXCEPT ![w] = "calling"]
  /\ UNCHANGED <<rowVars, storyVars, cur, stop, clientVars, crashes>>

FailedRow(x, code) ==
  [x EXCEPT !.status = "failed", !.completed = TRUE, !.error = code]
SucceededRow(x) ==
  [x EXCEPT !.status = "succeeded", !.completed = TRUE]

(* The provider has answered and the worker commits new in place of the    *)
(* row it holds.  The transition check sees the worker's copy; the UPDATE  *)
(* meets the row as it is now, and waits while a claim holds it locked.    *)
Writable(w, new) ==
  /\ Transition(mem[w].status, new.status)
  /\ LifecycleCheck(new)

(* Mutant: payloads are numbered by a count instead of the attempt.        *)
CommitOutcomeCounted(w, new) ==
  /\ row' = [row EXCEPT ![cur[w]] = new]
  /\ stale' = stale \ {cur[w]}
  /\ payloads' = [payloads EXCEPT ![cur[w]] = Append(@, Len(@) + 1)]
  /\ pc' = [pc EXCEPT ![w] = "top"]
  /\ Release(w)
  /\ UNCHANGED <<stop, clientVars, crashes>>

CommitOutcome(w, new) ==
  /\ row' = [row EXCEPT ![cur[w]] = new]
  /\ stale' = stale \ {cur[w]}
  /\ payloads' = [payloads EXCEPT ![cur[w]] = Append(@, mem[w].attempts)]
  /\ pc' = [pc EXCEPT ![w] = "top"]
  /\ Release(w)
  /\ UNCHANGED <<stop, clientVars, crashes>>

RejectOutcome(w) ==
  /\ Dies(w)
  /\ UNCHANGED <<rowVars, storyVars, clientVars, crashes>>

(* Mutant: a story below the coverage threshold is saved all the same.     *)
FailSavesStory(w, code) ==
  /\ pc[w] = "calling"
  /\ ~Locked(cur[w])
  /\ Writable(w, FailedRow(row[cur[w]], code))
  /\ CommitOutcome(w, FailedRow(row[cur[w]], code))
  /\ story' = story \cup {cur[w]}
  /\ produced' = [produced EXCEPT ![cur[w]] = @ + 1]

(* A ProviderError, or a story below the coverage threshold: the raw       *)
(* payload and the failure are committed together.                         *)
Fail(w, code) ==
  /\ pc[w] = "calling"
  /\ ~Locked(cur[w])
  /\ LET new == FailedRow(row[cur[w]], code) IN
       \/ /\ Writable(w, new)
          /\ CommitOutcome(w, new)
          /\ UNCHANGED <<story, produced>>
       \/ /\ ~Writable(w, new)
          /\ RejectOutcome(w)

(* An accepted story: Story row, payload and status in one commit.         *)
(* stories.generation_request_id is UNIQUE.                                *)
Succeed(w) ==
  /\ pc[w] = "calling"
  /\ ~Locked(cur[w])
  /\ LET new == SucceededRow(row[cur[w]])
         accepted == Writable(w, new) /\ cur[w] \notin story IN
       \/ /\ accepted
          /\ CommitOutcome(w, new)
          /\ story' = story \cup {cur[w]}
          /\ produced' = [produced EXCEPT ![cur[w]] = @ + 1]
       \/ /\ ~accepted
          /\ RejectOutcome(w)

Finish(w) ==
  \/ Fail(w, "ProviderError")
  \/ Fail(w, "InsufficientVocabularyCoverage")
  \/ Succeed(w)

(* Mutant: a sweep always requeues.                                        *)
ReclaimedRowAlways(x) == [x EXCEPT !.status = "queued", !.started = FALSE]

(* reclaim_stale_running: two bulk UPDATEs in one transaction.             *)
ReclaimedRow(x) ==
  IF x.attempts < MaxAttempts
  THEN [x EXCEPT !.status = "queued", !.started = FALSE]
  ELSE FailedRow(x, "StaleWorkerRetryLimitExceeded")

(* Mutant: the sweep does not look at started_at.                          *)
ReclaimAnyAge(w) ==
  /\ pc[w] \in {"boot", "top"}
  /\ w \notin stop
  /\ row' = [r \in Requests |->
               IF row[r].status = "running" THEN ReclaimedRow(row[r]) ELSE row[r]]
  /\ stale' = {}
  /\ pc' = [pc EXCEPT ![w] = "ready"]
  /\ UNCHANGED <<storyVars, cur, mem, stop, clientVars, crashes>>

(* Mutant: the sweep runs once, when the process starts.                   *)
ReclaimAtBoot(w) ==
  /\ pc[w] = "boot"
  /\ w \notin stop
  /\ row' = [r \in Requests |->
               IF row[r].status = "running" /\ r \in stale
               THEN ReclaimedRow(row[r]) ELSE row[r]]
  /\ stale' = {}
  /\ pc' = [pc EXCEPT ![w] = "ready"]
  /\ UNCHANGED <<storyVars, cur, mem, stop, clientVars, crashes>>

Reclaim(w) ==
  /\ pc[w] \in {"boot", "top"}
  /\ w \notin stop
  /\ row' = [r \in Requests |->
               IF row[r].status = "running" /\ r \in stale
               THEN ReclaimedRow(row[r]) ELSE row[r]]
  /\ stale' = {}
  /\ pc' = [pc EXCEPT ![w] = "ready"]
  /\ UNCHANGED <<storyVars, cur, mem, stop, clientVars, crashes>>

(* SIGTERM sets the stop flag; the loop sees it at its top only.           *)
RequestStop(w) ==
  /\ pc[w] # "down"
  /\ w \notin stop
  /\ stop' = stop \cup {w}
  /\ UNCHANGED <<rowVars, storyVars, pc, cur, mem, clientVars, crashes>>

Exit(w) ==
  /\ pc[w] \in {"boot", "top"}
  /\ w \in stop
  /\ pc' = [pc EXCEPT ![w] = "down"]
  /\ stop' = stop \ {w}
  /\ UNCHANGED <<rowVars, storyVars, cur, mem, clientVars, crashes>>

(* SIGKILL, out of memory, power, an exception other than ProviderError.   *)
Crash(w) ==
  /\ pc[w] # "down"
  /\ crashes < MaxCrashes
  /\ crashes' = crashes + 1
  /\ Dies(w)
  /\ UNCHANGED <<rowVars, storyVars, clientVars>>

(* The container's restart policy, or the next deploy.                     *)
Restart(w) ==
  /\ pc[w] = "down"
  /\ pc' = [pc EXCEPT ![w] = "boot"]
  /\ UNCHANGED <<rowVars, storyVars, cur, mem, stop, clientVars, crashes>>

(* A running row's started_at passes the threshold.  Under TimelyCalls     *)
(* only a row whose worker has died gets there.                            *)
Age(r) ==
  /\ row[r].status = "running"
  /\ r \notin stale
  /\ TimelyCalls => \A w \in Workers : ~(cur[w] = r /\ pc[w] \in Holding)
  /\ stale' = stale \cup {r}
  /\ UNCHANGED <<row, storyVars, workerVars, clientVars, crashes>>

-----------------------------------------------------------------------------
(* The API.                                                                *)

EndTransaction(c) ==
  /\ op' = [op EXCEPT ![c] = "none"]
  /\ arg' = [arg EXCEPT ![c] = NoRequest]

(* POST /story-generations: the capacity check, then the commit.  Every    *)
(* earlier error (404, 422, 429) leaves the database as it was.            *)
CreateCheck(c) ==
  /\ op[c] = "none"
  /\ nextId \in Requests
  /\ HasCapacity
  /\ op' = [op EXCEPT ![c] = "create"]
  /\ arg' = [arg EXCEPT ![c] = nextId]
  /\ nextId' = nextId + 1
  /\ UNCHANGED <<rowVars, storyVars, workerVars, crashes>>

CreateCommit(c) ==
  /\ op[c] = "create"
  /\ row' = [row EXCEPT ![arg[c]] = [NoRow EXCEPT !.status = "queued"]]
  /\ EndTransaction(c)
  /\ UNCHANGED <<stale, storyVars, workerVars, nextId, crashes>>

(* Mutants of the retry: no look at attempt_count; a succeeded row too.    *)
RetryReadUnlimited(c, r) ==
  /\ op[c] = "none"
  /\ row[r].status = "failed"
  /\ SerialRetries => \A d \in Clients : ~(arg[d] = r /\ op[d] \in {"retry_read", "retry"})
  /\ op' = [op EXCEPT ![c] = "retry_read"]
  /\ arg' = [arg EXCEPT ![c] = r]
  /\ UNCHANGED <<rowVars, storyVars, workerVars, nextId, crashes>>

RetryReadFinished(c, r) ==
  /\ op[c] = "none"
  /\ row[r].status \in Finished
  /\ row[r].attempts < MaxAttempts
  /\ SerialRetries => \A d \in Clients : ~(arg[d] = r /\ op[d] \in {"retry_read", "retry"})
  /\ op' = [op EXCEPT ![c] = "retry_read"]
  /\ arg' = [arg EXCEPT ![c] = r]
  /\ UNCHANGED <<rowVars, storyVars, workerVars, nextId, crashes>>

(* POST /story-generations/{id}/retry: read the row and check its attempts *)
(* (409), count the active rows (429) and check the transition, commit.    *)
(* A row that is not failed ends in a 409 that changes nothing.            *)
RetryRead(c, r) ==
  /\ op[c] = "none"
  /\ row[r].status = "failed"
  /\ row[r].attempts < MaxAttempts
  /\ SerialRetries => \A d \in Clients : ~(arg[d] = r /\ op[d] \in {"retry_read", "retry"})
  /\ op' = [op EXCEPT ![c] = "retry_read"]
  /\ arg' = [arg EXCEPT ![c] = r]
  /\ UNCHANGED <<rowVars, storyVars, workerVars, nextId, crashes>>

RetryCheck(c) ==
  /\ op[c] = "retry_read"
  /\ HasCapacity
  /\ op' = [op EXCEPT ![c] = "retry"]
  /\ UNCHANGED <<rowVars, storyVars, workerVars, arg, nextId, crashes>>

(* Mutant: the retry forgets to clear completed_at.                        *)
RetriedRowKeepsCompleted(x) ==
  [x EXCEPT !.status = "queued", !.started = FALSE, !.error = "none"]

RetriedRow(x) ==
  [x EXCEPT !.status = "queued", !.started = FALSE, !.completed = FALSE,
            !.error = "none"]

RetryCommit(c) ==
  /\ op[c] = "retry"
  /\ ~Locked(arg[c])
  /\ row' = [row EXCEPT ![arg[c]] = RetriedRow(@)]
  /\ stale' = stale \ {arg[c]}
  /\ EndTransaction(c)
  /\ UNCHANGED <<storyVars, workerVars, nextId, crashes>>

(* The 429 answer, an error, or the API process going away: rollback.      *)
Abort(c) ==
  /\ op[c] # "none"
  /\ EndTransaction(c)
  /\ UNCHANGED <<rowVars, storyVars, workerVars, nextId, crashes>>

(* DELETE /stories/{id}: the request's row stays.                          *)
DeleteStory(r) ==
  /\ r \in story
  /\ story' = story \ {r}
  /\ UNCHANGED <<rowVars, produced, payloads, workerVars, clientVars, crashes>>

-----------------------------------------------------------------------------
WorkerStep(w) ==
  \/ LockNext(w) \/ PollEmpty(w) \/ CommitClaim(w) \/ Load(w) \/ Finish(w)
  \/ Reclaim(w) \/ Exit(w)

WorkerEnvironment(w) == RequestStop(w) \/ Crash(w) \/ Restart(w)

ClientStep(c) ==
  \/ CreateCheck(c) \/ CreateCommit(c)
  \/ \E r \in Requests : RetryRead(c, r)
  \/ RetryCheck(c) \/ RetryCommit(c) \/ Abort(c)

Next ==
  \/ \E w \in Workers : WorkerStep(w) \/ WorkerEnvironment(w)
  \/ \E c \in Clients : ClientStep(c)
  \/ \E r \in Requests : Age(r) \/ DeleteStory(r)

Spec == Init /\ [][Next]_vars

(* A live worker keeps going round its loop, the supervisor restarts a     *)
(* dead one, and time passes.  The sweep is due again every interval and   *)
(* at every start, and a worker is not stopped for ever before its first   *)
(* round: strong fairness.  Nothing is assumed of clients, of stop signals *)
(* or of crashes (which MaxCrashes bounds).                                *)
Fairness ==
  /\ \A w \in Workers :
       WF_vars(WorkerStep(w)) /\ SF_vars(Reclaim(w)) /\ WF_vars(Restart(w))
  /\ \A r \in Requests : WF_vars(Age(r))

FairSpec == Spec /\ Fairness
-----------------------------------------------------------------------------
(* Properties.  The first group needs SerialRetries and TimelyCalls.       *)

(* A request is worked on by one worker at a time, from the row lock of    *)
(* the claim to the commit of the outcome (worker.py: multiple workers     *)
(* poll "without ever processing the same request twice").                 *)
OneWorkerPerRequest ==
  \A v, w \in Workers :
    v # w /\ pc[v] \in Holding /\ pc[w] \in Holding => cur[v] # cur[w]

(* Crashes, reclaims and retries together never give a request more than   *)
(* MAX_ATTEMPTS provider calls (README: "no request may be attempted more  *)
(* than three times").                                                     *)
AttemptsBounded == \A r \in Requests : row[r].attempts <= MaxAttempts

(* Whatever put a row back into the queue, it has an attempt left: the     *)
(* claim itself does not look at attempt_count.                            *)
QueuedHasAttemptLeft ==
  \A r \in Requests : row[r].status = "queued" => row[r].attempts < MaxAttempts

(* One Story row is ever committed for a succeeded request, none for any   *)
(* other: the single commit of run_once is all or nothing, and deleting a  *)
(* story never lets a second one be written.                               *)
OneStoryPerSuccess ==
  \A r \in Requests : produced[r] = IF row[r].status = "succeeded" THEN 1 ELSE 0

(* Every outcome a worker commits leaves exactly one raw payload, filed    *)
(* under the attempt that produced it; a lost attempt leaves none.         *)
OnePayloadPerOutcome ==
  \A r \in Requests :
    LET p == payloads[r] IN
      /\ \A i, j \in DOMAIN p : i < j => p[i] < p[j]
      /\ \A i \in DOMAIN p : p[i] <= row[r].attempts
      /\ row[r].status \in Finished
           /\ row[r].error # "StaleWorkerRetryLimitExceeded"
           => p # <<>> /\ p[Len(p)] = row[r].attempts

(* A worker that has paid for a provider call is never refused its commit: *)
(* the transition check, the timestamps CHECK and the UNIQUE story         *)
(* constraint would all let the outcome in.                                *)
OutcomeNeverRejected ==
  \A w \in Workers :
    pc[w] = "calling" =>
      /\ Writable(w, FailedRow(row[cur[w]], "ProviderError"))
      /\ Writable(w, SucceededRow(row[cur[w]]))
      /\ cur[w] \notin story

(* The status endpoint reports an error for a failed request and for no    *)
(* other: requeueing, retrying and succeeding leave no error behind.       *)
ErrorOnlyWhenFailed ==
  \A r \in Requests : row[r].error # "none" <=> row[r].status = "failed"

(* A succeeded request stays succeeded (VALID_TRANSITIONS gives it no way  *)
(* out), and so keeps its story until the reader deletes it.               *)
SucceededIsFinal ==
  [][\A r \in Requests :
       row[r].status = "succeeded" => row'[r].status = "succeeded"]_row

(* A queued or running request is eventually succeeded or failed, through  *)
(* worker deaths and deploys: the reclaim sweep finds every orphan.        *)
EveryRequestFinishes ==
  \A r \in Requests :
    row[r].status \in ActiveStatus ~> row[r].status \in Finished

(* The queue implements the lifecycle promised for each request.           *)
Lifecycle == INSTANCE GenerationLifecycle WITH
  Ids          <- Requests,
  AttemptLimit <- MaxAttempts,
  status       <- [r \in Requests |-> row[r].status],
  attempts     <- [r \in Requests |-> row[r].attempts],
  delivered    <- {r \in Requests : produced[r] > 0}

(* Every step of the workers, the sweep and the API is a step that the     *)
(* lifecycle allows, or leaves it alone.                                   *)
ImplementsLifecycle == Lifecycle!LSpec

(* Why the first group holds: QueueInv is preserved by every step.         *)

(* A row stays as its holder left it, so the worker's copy is current.     *)
HeldRows ==
  \A w \in Workers :
    /\ pc[w] = "locked" => row[cur[w]].status = "queued"
    /\ pc[w] \in {"claimed", "calling"} =>
         row[cur[w]].status = "running" /\ cur[w] \notin stale
    /\ pc[w] = "calling" => mem[w] = [status   |-> "running",
                                      attempts |-> row[cur[w]].attempts]

(* What an open API transaction has read is still so.                      *)
OpenTransactions ==
  /\ \A c \in Clients :
       /\ op[c] = "create" => arg[c] < nextId /\ row[arg[c]] = NoRow
       /\ op[c] \in {"retry_read", "retry"} =>
            row[arg[c]].status = "failed" /\ row[arg[c]].attempts < MaxAttempts
  /\ \A c, d \in Clients :
       c # d /\ op[c] # "none" /\ op[d] # "none" => arg[c] # arg[d]
  /\ \A r \in Requests : r >= nextId => row[r] = NoRow

(* A story is there only for a succeeded row; an unused id has no history. *)
StoryOfSucceeded ==
  /\ \A r \in story : row[r].status = "succeeded"
  /\ \A r \in Requests : row[r].status = "absent" => row[r] = NoRow

QueueInv ==
  /\ OneWorkerPerRequest
  /\ HeldRows
  /\ OpenTransactions
  /\ StoryOfSucceeded
  /\ AttemptsBounded
  /\ QueuedHasAttemptLeft
  /\ OneStoryPerSuccess
  /\ ErrorOnlyWhenFailed

(* The second group holds whatever the retries and the calls do.           *)

(* Every committed row satisfies the timestamps CHECK, so no claim, sweep, *)
(* retry or overwritten outcome is ever refused by it half way.            *)
LifecycleHolds == \A r \in Requests : LifecycleCheck(row[r])

(* The unlocked capacity count may be overrun, by at most one row for each *)
(* further API transaction open at the same time.                          *)
CapOverrunBounded ==
  Cardinality(ActiveRequests) <= MaxActive + Cardinality(Clients) - 1

(* Retries that race can take a request past MAX_ATTEMPTS, by at most one  *)
(* attempt for each further API transaction open at the same time.         *)
AttemptsOverrunBounded ==
  \A r \in Requests : row[r].attempts <= MaxAttempts + Cardinality(Clients) - 1

(* Why the second group holds: what survives any race.                     *)
RaceInv ==
  /\ \A v, w \in Workers :
       v # w /\ pc[v] = "locked" /\ pc[w] = "locked" => cur[v] # cur[w]
  /\ \A w \in Workers :
       /\ pc[w] = "locked" => row[cur[w]].status = "queued"
       /\ pc[w] \in Holding => row[cur[w]].status # "absent"
  /\ \A c \in Clients :
       /\ op[c] = "create" => arg[c] < nextId /\ row[arg[c]].status = "absent"
       /\ op[c] \in {"retry_read", "retry"} => row[arg[c]].status # "absent"
  /\ \A c, d \in Clients :
       c # d /\ op[c] = "create" /\ op[d] = "create" => arg[c] # arg[d]
  /\ \A r \in Requests : r >= nextId => row[r].status = "absent"
  /\ LifecycleHolds
=============================================================================
