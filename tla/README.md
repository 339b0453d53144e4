# Chinese Story Generator: specifications

TLA+ models of this repository's program, the TLC runs that check them on small
instances, and TLAPS proofs of what matters most for every size of the system.
Definitions keep the names of the code where TLA+ allows it; `PROJECT.json` maps
each one to the lines it stands for.

## The system

A FastAPI process and one or more worker processes share a PostgreSQL database;
a cron job syncs vocabulary from Skritter; a static Next.js frontend talks to
the API. The processes meet only in database rows and HTTP calls, so what is
hard is transactions of different processes that overlap, processes that die
between two of them, and answers that come late or never.

| Component | State it keeps | Operations | What is hard | What makes it correct |
| --- | --- | --- | --- | --- |
| Generation queue (`generation/worker.py`, `generation/persistence`, `api/routers/story_generations.py`, `cli/generation_worker.py`) | `story_generation_requests`, `stories`, raw payloads; each worker's loaded row and stop flag | create, retry, status, claim, run, reclaim, stop | claims, sweeps, retries and outcomes that overlap; workers that die, stall or are stopped; attempts and a cap checked without a lock | a request is worked on once at a time, at most `MAX_ATTEMPTS` times, has one story if it succeeds, and always ends |
| Rate limiting (`api/rate_limit.py`, `api/routers/auth.py`) | a deque of hits per key, in memory | check, sweep of idle keys | the clock is read before the lock is taken; two limiters in a row | the limit holds, nobody is locked out, memory stays bounded |
| Skritter sync (`ingestion/`) | advisory lock, `sync_runs`, raw payloads, lists and links | full sync, single list, tracking, prune, archive | failure at each step, lists that change while they are read, bad responses, a lost lock | lists are never half imported, wiped or wrongly archived; a reported success is one |
| Vocabulary (`vocabulary/`, `generation/vocabulary_selection.py`) | lists, words, links, hidden and archived flags, snapshots of requests | hide, show, custom words, selection, glossary | the same words inserted by two transactions that wait for each other; lists and words that change between check and use | every request gets the words it asked for, none twice; no reading is overwritten; no request waits for ever |
| Stories and quizzes (`stories/`, `generation/worker.py`, `frontend/app/stories`, `story-quiz.tsx`, `fetchAllPages`) | stories, attempts, flags; the page's choices and marks; the list loaded so far | write, list, read, delete, mark, flag, review | a story deleted under a reader; lists read page by page while rows come and go; lost answers | marks follow the model's answer, the page shows what is stored, lists are complete |
| Accounts and sessions (`auth/`, `cli/manage_logins.py`, `frontend/lib/session.ts`) | the account, sessions, the audit trail; the cookie and each tab's session state | create, login, logout, authenticate, change password, purge | a login that overlaps a password change; two tabs with one cookie; answers lost or late | a changed password has no older session, every session has its events, a tab never claims a logout that did not happen |
| Prompts, provider clients and parsing (`generation/prompts`, `generation/providers`, `validation.py`) | none | number, request, parse, repair, score | many ways an exchange can end; rounding in the prompt against limits in validation | every failure becomes a ProviderError; an answer that follows its prompt is kept |
| Generate page (`frontend/app/generate`, `lib/api.ts`) | form, submit, polled request | submit, poll, retry | answers that arrive after the page was left, calls that fail with or without effect | the page shows the truth and polling ends |
| Page-view tracking (`frontend/lib/tracking`, `components/tracking.tsx`) | consent, identity cookies, the pending view, what GTM holds | show page, consent, login, logout | a view that waits while consent or the user changes | one view per page, none without consent, nothing left behind |
| Operations (`scripts/`, `deploy-backend.yml`) | databases by name, containers, checkout, dumps | deploy, roll back, back up, rehearse, restore, drop, undo | a command that fails between two others; a deploy and a restore at once | a database that has served is live or kept until it is given up, no code runs on a schema older than its own |

`PROJECT.json` lists the hazards of each, at their lines, with the properties
that watch over them.

## The modules

| Module | Models | Composed with |
| --- | --- | --- |
| `GenerationLifecycle` | what the queue promises about one request: statuses, attempts, a story per success | abstract; implemented by `GenerationQueue`, used by `GeneratePage` |
| `GenerationQueue` | table, workers, sweep, API transactions | refines `GenerationLifecycle` |
| `SlidingWindow` | the limiter as operators on its state | used by `LoginThrottle` |
| `LoginThrottle` | the per-client and the shared limiter of the login, one after the other, under concurrent threads | two `SlidingWindow` states |
| `SkritterSync` | two sync processes, Skritter, the tables | |
| `VocabularyWords` | custom words, selection and snapshots of concurrent requests; glossary readings | the sync and `manage-lists` as an environment |
| `StoryAnswers` | prompt numbers, exchanges with a provider, their errors, the parser and validation, as operators | extended by `Stories` |
| `Stories` | workers that save stories, the reader's pages, other clients, the review command | extends `StoryAnswers` |
| `AuthSessions` | one account with its sessions and audit trail, two tabs that share a cookie | |
| `GeneratePage` | the page, its calls, the API's handlers | extends `GenerationLifecycle` |
| `PageTracking` | one tab's page views, consent and session | |
| `Operations` | the deploy, backup and restore scripts and the operator | |
| `LoginProofs` | the theorems about `AuthSessions` and `LoginThrottle` | extends both |
| `StoriesProofs` | the theorems about `Stories` and `StoryAnswers` | extends `Stories` |
| other `...Proofs` | the theorems about the module of that name: `GenerationQueue`, `SkritterSync`, `VocabularyWords`, `GeneratePage`, `PageTracking`, `Operations` | extends it |
| `MC...` | the model values and symmetry sets of a run | |

Definitions marked *Mutant* in a comment are deliberate faults, never part of
the next-state relation: each property is shown to fail once the definition after a mutant is
replaced by it.

### GenerationQueue

Sessions run at READ COMMITTED and every UPDATE of a row is keyed by its id
only, so a commit overwrites whatever happened since the row was read. Reads
and commits are therefore separate actions.

- A worker's `pc` is its place in `run_forever`: `boot` and `top` are the head
  of the loop (where the stop flag is looked at, and the sweep made), `ready`
  the call of `run_once`, `locked` between the SELECT ... FOR UPDATE SKIP LOCKED
  and the commit of the claim, `claimed` before the row is loaded again,
  `calling` the provider call, up to the commit of its outcome. `mem` is what
  the ORM still holds then: `_transition` judges by it, and the payload is
  numbered by it.
- `Fail` and `Succeed` are the single commit of `run_once`, with the payload,
  the story and the row together.
- `Reclaim` is the sweep: both bulk UPDATEs, whose WHERE clauses see the rows
  as they are.
- A client's `op` is an open API transaction: `CreateCheck` / `CreateCommit`,
  and `RetryRead` / `RetryCheck` / `RetryCommit`.
- `Age` lets a running row become older than the stale threshold. Under
  `TimelyCalls` only rows whose worker is dead age: the threshold is chosen
  above the provider's timeout. `SerialRetries` says that retries of one
  request do not overlap. Both are assumptions that the code does not enforce,
  so both are switched off in the runs that show what then remains and what
  breaks.

Timestamps are reduced to what the code and the CHECK look at: whether
`started_at` and `completed_at` are set, and whether the first is stale.

### SlidingWindow and LoginThrottle

`check` is one operator from a limiter's state to the next, so that two
limiters are two values. A request of `LoginThrottle` reads the clock
(`Arrive`) and later gets the lock of the client limiter (`CheckClient`), then
the same of the shared one (`Proceed`, `CheckShared`); others may pass it at
each point. `TimePasses` is the clock; `read` is what a request has read of it.
`MaxSkew` is the longest wait for a lock; `LimitsKept` is stated up to it, because
no stronger property holds. `passed` and `entered` are history, the whole of what
each limiter let through, which the deques forget. The limiter of the generation routes
is one such limiter alone.

### SkritterSync

`BeginRun` is one commit: interrupted runs are failed, old payloads pruned, the
new run opened. The listing of a full sync comes in one response or several, each
request with the cursor of the response before (`GetLists`), while `Edit` may
change Skritter between them. Of its paging nothing is taken for granted but
this (`Pages`): while no list changes, responses repeat no list, and together
hold every list once the last has come, unless that one is bad and empty. Lists
that a `Torn` listing left out are `missed`; one that came twice (`again`) is
imported twice. Each list is read (`GetList`), its transaction opened
(`OpenTransaction`), new words fetched one response at a time (`FetchWord`) and
committed (`CommitList`); each of these may fail, and Skritter may `Edit` its
lists at any point. `broken` is a tracking session whose commit has failed and
which refuses every later use. A lock may be lost (`DropLock`): properties that
the code itself rests on the lock are stated for `drops = 0`, the others
without. `MaxRuns` bounds runs and lost locks together.

### VocabularyWords

Each client creates one request, in one transaction at READ COMMITTED. A custom
word that is not found is inserted; `custom[w]` is the client whose uncommitted
row holds the unique index entry, and another insert of the same word waits
until that client has committed or rolled back. A circle of two such waits is
broken by PostgreSQL (`Deadlock`), at the cost of one request. `found` is what
the session's identity map returns, so a row read twice keeps its first
writing; it is also the snapshot the request commits. The sync and
`manage-lists` change words, links and flags at any point, at most `MaxEdits`
times. A worker reads which words have no reading (`ReadWords`) and commits
later (`SaveStory`); a request that links one word twice is refused by the
primary key of the story's words.

### StoryAnswers and Stories

`StoryAnswers` has no state. `Exchanges(r)` is every way the call for a request
`r` can end; `Checks` lists, in the code's order, what the adapter and the
parser test and what they raise, and `Parsed` what survives of the questions, in
their order: a set with one member, since the positions that are kept have one
increasing list (`InOrder`), which the provers can reason about where they could
not about a recursive filter.
`Follows` says of an answer that it does exactly what its prompt asks.

In `Stories` two workers pick any outcome of any exchange (`Generate`), shuffle
the options and commit (`Commit`): the story's id is taken before the commit, so
ids become visible out of order. Each API call reads and writes in two steps,
and its answer arrives (`Answered`), or is lost (`Lost`), later. The reader has
one tab with the story page or the list; the list is rows, then a count, per
page (`FetchRows`, `FetchCount`). Other clients send answers that need not fit.
The review command reads the flags, then their stories one by one.

### AuthSessions

A login reads the account, verifies the typed password against that copy and
commits later, so `LoginRead` and `LoginCommit` are two actions; everything else
on the server is one guarded statement and one action. A password is the number
of the change that chose it. `seen` and `made` record, for the properties, how
many changes there had been when a session's login read the account and when it
committed. Two tabs share the cookie; each may have one question about its
session, one logout and one other request under way, and an answer may be lost
or arrive when another login has replaced the cookie. `Purge` removes old
events, `Tick` lets sessions expire. Two bounds keep the tabs small: a visitor
types a password that is or was in force (any other is refused as an old one
is), and sends nothing at the last instant, when no time is left to pass.

### Operations

CI runs one deploy at a time and the operator one database command at a time;
these two interleave, command by command. A script stops at its first failing
command and leaves what it did; the same `MaxFaults` bounds commands that fail
and scripts that are cut off. Databases have an identity which a rename keeps
and a restore does not, so that "the old database is kept" can be said. Release
`r` ends at schema revision `HeadRev[r]`. `matched` is history: it is false from
the moment a restore puts another database under code that a deploy has started
or is about to start, or an undo starts the checked-out release by hand, until the
next start by a script.

The operator may name any database but the live one, to `--drop` and to a
rehearsal alike (`CheckName`): a restore first drops what has the name
(`RestoreInto`) and then creates it (`Create`), so a rehearsal into a kept name
drops the kept database. After a restore that failed once it had swapped, the
runbook's undo is typed command by command (`UndoStop`, `UndoAside`, `UndoBack`,
`UndoUp`), whether or not the site has served from the restored database in the
meantime, and may be left at each of them (`GiveUp`). It gives that database the
staging name, which the next `--replace-live` drops. `discarded` is history: the
databases that the operator has given up in one of these ways, by naming a kept one
or by an undo.

### GeneratePage

The page's state is what its `useState` hooks and the closure of its polling
effect hold; it is there only while the page is mounted. A call goes from
`sent` to `answered` and outlives the page that made it. Calls get lost before
or after their effect; a poll that fails is retried up to `MaxFailures` in a row.
The queue behind the API is the abstract lifecycle, which the queue is proved
to implement as long as retries of one request do not overlap. That assumption
is the page's to break: when the answer to a retry is lost, the button comes
back while the first retry may still be open.

### PageTracking

The module state of `page-view.ts`, the cookie and what GTM was told are one
record (`tab`), and each function of the code one operator on it. What React
and Next.js do around it is assumed, and external: a change of the consent or
session store renders with its effects at once; a route change renders first,
and its effects run before anything else renders; the title goes with the route
change and comes back after those effects, or not at all. `session_id` lives
and dies with `anonymous_id` here: its half hour is not modelled.

## The runs

| Run | Asks | Bounds |
| --- | --- | --- |
| `queue` | everything the queue promises, its refinement of the lifecycle, and that requests end, under `SerialRetries` and `TimelyCalls` | 2 workers, 2 clients, 2 requests, 2 attempts, 2 crashes |
| `queue_races` | what remains without these assumptions | 2 workers, 2 clients, 2 requests, 2 attempts, no crashes |
| `queue_retry_attempts` | a statement of the README that overlapping retries refute | 1 request, 3 attempts |
| `limits` | both limits, their tightness and the memory | 2 threads, 2 addresses, limits 1 and 4, window 2, wait 1, 5 instants |
| `sync` | two syncs, full and single-list, with listings in several responses | 2 lists, 2 words, 3 runs less lost locks, 1 edit, 1 crash or lost lock |
| `vocabulary` | words, snapshots and readings of concurrent requests, and that they end | 2 clients, 2 workers, 2 Skritter rows, 2 writings, 2 words asked for, 1 edit |
| `stories` | quiz, flags, list and review while stories come and go | 2 workers, 3 stories of which 1 has questions, pages of 2, 2 calls that change something |
| `provider_errors` | a statement of `errors.py` that an odd error body refutes | as `stories` |
| `auth` | trail, password change and sign-out | 2 tabs, 2 sessions, 1 change, lifetime and retention 1, 3 instants, 2 calls under way |
| `page_tracking` | views, consent and identity | 4 pages shown, 6 changes |
| `generate_page` | page, calls and queue | 2 openings, 2 requests, 2 attempts, 2 failures in a row |
| `operations` | databases and schema under deploys and restores | 3 releases with a migration each, 2 deploys, 3 databases, 2 kept names, 2 failing commands |

The bounds are the smallest in which every hazard happens. Two workers and two
clients are enough for each race, which is between two transactions on one row;
two attempts give a retry, a reclaim with an attempt left and one without; two
crashes let a request lose its worker on every attempt. The limiter's window
must pass twice for a sweep to find an idle key, hence five instants for a
window of 2; the shared limit of 4 is out of reach of one address with a limit
of 1. The code's own numbers (3 attempts, 5 failures in a row, 10 runs
kept) are scaled down with them. Three sync runs are one more than those whose
payloads are kept plus the one in progress. Two openings of the page let calls of the first meet
the second, and two failures in a row separate "in a row" from "in all".

Two requests with the same two words in opposite order, or one that repeats a
word of the other, are every way their inserts can wait; one edit between the
steps of a request separates each read from the next. Three stories and pages of
two make a list that needs a second page, and one on which a deletion moves a
row across the boundary. Two sessions and one change give a login before, across
and after the change; retention may not be shorter than the lifetime
(`RetentionAssumption`; in the code they are 90 and 30 days), so both are 1. Three
databases are the first one, one that replaces it and one that replaces that;
two faults let a failed step be followed by a failed repair. Two lists and one
edit are enough for a listing that misses a list which is there, or has one
twice.

Deadlock is checked in the three queue runs and in `limits`. In the others the
bounds on runs, edits, calls, visits or deploys leave an instance with nothing to
do.

**Fairness.** `queue`: a live worker goes round its loop (WF), a dead one is
restarted (`restart: unless-stopped`, WF), running rows grow old (time), and the
sweep comes due again and again (SF on `Reclaim`, since a worker may be stopped
before it gets there, but not for ever). Nothing is assumed of clients or stop
signals; crashes are bounded. `page_tracking`: effects run and timers fire;
titles need not come back. `generate_page`: of timers, answers by the API and
deliveries to the page, one that is due happens, and the queue goes on (which is
`EveryRequestFinishes` of `queue`); the visitor does nothing unless they like.
`vocabulary`: a transaction that can take its next step does (WF on each
client's steps: its process runs, and PostgreSQL ends a deadlock). `sync`,
`stories`, `auth`, `operations` and `limits` check safety only and assume none.

**What the runs found.** Two statements of the repository do not hold:

- README, "no request may be attempted more than three times": `retry` reads
  status and attempts without a lock and commits later, so two overlapping
  retries give a fourth attempt (`queue_retry_attempts`). `queue_races` and the
  proofs bound the damage: one attempt for each further open transaction.
- `errors.py`, every adapter "must translate whatever it can fail with": an error
  answer whose JSON is a list, or whose `error` is a string, raises an
  `AttributeError` in `_error_message` (`provider_errors`). The worker's process
  ends and its request waits to be reclaimed.

What else the models show is stated as a condition of a property:

- `succeeded` is final in `VALID_TRANSITIONS`, but not for a worker that outlives
  the stale threshold and commits from its own copy: `SucceededIsFinal` needs
  `TimelyCalls`.
- That the cap on active requests can be overrun is known to the code (a comment
  at `_ensure_capacity`); by how much at most is proved.
- A story deleted before its page has seen it leaves the page polling for ever
  (`PollingEnds`); the answer to a retry takes the visitor to the story even from
  a page they have since moved to (`TakenToOwnStory`).
- A login that overlaps a password change leaves a session opened with the old
  password, and if it also renews an outdated hash, the old password itself is in
  force again (`ChangeUndone` in `ChangeTakesHold`).
- A word renamed by the sync while a request is created can be in its snapshot
  twice, which the story's primary key refuses: the worker dies of it
  (`SnapshotsSound`).
- A story that commits late under a smaller id can put another one twice on a
  list (`ListingSound`); a deletion can hide one.
- `get_lists` follows its cursor while Skritter's lists may change; a list it
  misses is archived, though it is there, until the next full sync
  (`ArchivedOnlyIfLostOrMissed`).
- A rehearsal under the name of a kept database drops it without `--drop`, and a
  restored database that is undone after it has served is dropped by the next
  `--replace-live` (`discarded` in `ServedDataKept`).
- A restore that swaps the live database under a running deploy, or the runbook's
  undo after a deploy that failed in its migration, leaves code in front of an
  older schema (`NewCodeNeedsNewSchema`).

## The proofs

Every safety property of the passing runs is also a theorem, for every value of
the constants: any number of workers, clients, requests, attempts, tabs, sessions,
lists, words, stories, addresses, releases, databases and failures. The theorems
rest on the modules' named assumptions about their constants, and where it is
said on `SerialRetries` and `TimelyCalls`. Hardly any of the properties is
inductive; each section says what the inductive invariant adds and why the
property needs it.

`GenerationQueue`:

- `TypeCorrect`: type correctness, one step per action.
- `QueueInvariant` (assuming `SerialRetries` and `TimelyCalls`): `QueueInv` is
  inductive. The properties alone are not: that two workers never hold the same
  request needs that a held row is `running` and not stale (`HeldRows`), so that
  neither a claim nor a sweep can take it; that in turn needs that no open retry
  is about a row that a worker holds, hence that what an open transaction has
  read is still true (`OpenTransactions`); and one story per success needs that
  a row without a history has no story (`StoryOfSucceeded`).
  From it: `NoDoubleProcessing`, `AttemptLimit`, `StoryPerSuccess`,
  `OutcomeAccepted`, and the action property `SuccessIsFinal`.
- `PayloadPerOutcome` (same assumptions): `PayloadInv` adds that while an attempt
  runs all payloads are those of earlier attempts (`Filed`), so that the payload
  of its outcome is filed last and under a number of its own.
- `RefinesLifecycle`: every step of the queue maps to a step of
  `GenerationLifecycle` or leaves it alone; a sweep is one `Swept` of all rows
  it takes.
- `LifecycleAlwaysHolds` (no assumption on retries or calls): the timestamps
  CHECK, by `RaceInv`, which keeps of the above only what races cannot break:
  the row lock, and that ids are not handed out twice.
- `CapOverrunIsBounded`: active rows, plus transactions that have passed the
  count, never exceed the cap by more than the clients but one; by cardinalities,
  since a count passed at most leaves the others that had passed before it.
- `AttemptsOverrunIsBounded`: likewise attempts, with the retries that have read
  the row and not yet committed counted against the bound.

`SkritterSync`: `RunsAlwaysTellTheTruth`, `NeverAHalfImport`,
`ArchivedOnlyWhenLostOrMissed` and the action property `SuccessMirrors`, from
`SyncInvariant`. A half import is excluded because a list that is being imported
has words that Skritter once had for it (`WordsHad`); a wrong archiving because
what a listing does not have was missing at some time or is counted as `missed`
(`ListingMade`): a listing starts from nothing (`Unlisted`), and its last response
brings what the others have not, or tears it (`WholeListing`); and a
success mirrors its listing because, while the lock holds, a live sync is alone
(`AloneWithLock`) and has imported every list it is done with (`DoneImported`).
`RunsAlwaysTellTheTruth` needs that the row of a live sync is the newest and
running (`RunOpen`), `ConstantsOK` that `NoProc` is no process.

`VocabularyWords`: `EveryWordResolves`, `SnapshotsAreSound` and the action
property `ReadingsAreKept`, from `WordsInvariant`. What a session has found so far
is true of the tables, or of a word renamed since (`EntriesTrue`); its custom words
are stored or its own open inserts (`CustomThere`), which belong to a create under
way (`InsertedByCreates`); and it has no word twice unless one was renamed
(`Sound`): together that is what the snapshot it commits needs. Readings need that
no two workers have the same request (`WorkersApart`). `IdsAssumption` says that
ids are positive and names of states are no clients.

`StoryAnswers`: `FollowedPromptIsKept`, for every known prompt version, target
length and number of words: an answer that follows its prompt is covered, long
enough and aligned, and the parser keeps all its questions. It rests on the
arithmetic of the length range and the question count, and on the fact that the
only increasing list of all positions is the identity.

`Stories`: `QuizzesMarkedAsWritten`, `StoryPageIsTrue`, `ListingIsSound` and
`ReviewsEnd`, from `StoriesInvariant`. A mark the page shows is a call that was
carried out on its own story with the choices still shown (`PageOK`), and such a
call left its row unless the story has gone (`CallOK`). A list loaded by offset is
complete because each story it began with is listed, or stands in the table behind
what has been read (`NothingMissed`), and shows none twice because what is listed
stands within what has been read, unless a story with a smaller id has pushed it on
(`NothingTwice`); `Place` counts the stories up to one, and the proofs about it are
about cardinalities of initial segments. `ListsAssumption` says only that what a
model writes is a sequence of questions, `ClientAnswersAssumption` that what a
client sends is a sequence of numbers.

`GeneratePage`: `TheFailureShownIsTrue`, `OneOpeningOneRequest`, and the action
properties `TakenOnlyToOwnStory` and `GivesUpForAReason`, from `PageInvariant`.
Calls outlive the page that made them, so each call and each request keeps its
opening (`Owned`, `OwnCall`); an opening has at most one create, made before it
has a request, unless an answer was lost (`Creation`); and a failure that the page
has heard of, or that is on its way to it, is still one (`StillFailed`), since only
the page's own retry could have changed it.

`PageTracking`: `OneViewPerVisit`, `GtmForgetsWhoLeft`, `EventsNeedConsent` and
`IdentityKeptUntilRefusal`, from `TrackingInvariant`. `TabOK` says what holds
between any two calls of `page-view.ts`: a waiting view is of the page on display
and was not sent with the present identifiers (`Waiting`), and GTM holds no more
than the flags `userIn` and `idIn` admit (`Held`). `Follows` says what one function
may do to identifiers and events, and is transitive, so that a step of React which
calls several is proved function by function.

`AuthSessions` (in `LoginProofs`): `TrailAlwaysMatches` and `ChangesTakeHold`, from
`AuthInv`. For every row it adds that a session which is not revoked was committed
after the last change, and keeps its login event as long as it is accepted
(`GoodRow`; here `RetentionAssumption` is used); for every login under way, that it
read the password in force unless a change has overtaken it (`ReadsInForce`), which
is what its commit needs. `SignOutsAreTrue`, an action property, adds `SignsTrue`: a
refusal on its way to a tab names a session that is refused, and once refused a
session stays so (`RefusedStays`).

`LoginThrottle` (in `LoginProofs`): `LimitsAlwaysKept`, `RefusedOnlyWhenFull`,
`RoomIsLeft` and the action property `MemoryStaysBounded`, from
`ThrottleInvariant`. Nothing can be said of a deque alone: it is unsorted, a thread
with an early reading drops less than the one before it, and a sweep drops all. So
`Tracks` relates it to the whole history: a deque is the end of what was let
through, each hit at most `MaxSkew` before its entry, and whatever was dropped is a
window old, less `MaxSkew`. A hit is let through only when the one `limit` before it
is among the dropped. The shared limiter needs the order in which all addresses
entered, which the history does not have: `SharedTracked` says that there is one
(`Merges`), and the count of entries in a window is carried over by a surjection.
For `RoomIsLeft`, `Follow` counts what entered since an entry, and what may yet
enter, against what passed since. `Remembered` bounds the memory: what is kept was
let through since a window before the last sweep. Apart from the constants being
numbers it assumes that there are finitely many threads.

`Operations`: `ServedDataIsKept` and `NewCodeHasNewSchema`, from `OpsInv`: a
database that has served and was not given up has the live name or a kept one
(`SafelyNamed`), which only an undo or a drop by name takes from it; what a
restore is about to create has no database in its place; and what a script has migrated still
follows when it is started, unless the live database was swapped
(`MigratedFirst`), since revisions only grow in place.

Only model-checked are the four liveness properties, `EveryRequestFinishes`,
`PollingEnds`, `EveryPageCounted` and `CreateEnds`: liveness under fairness is out
of TLAPS' reach. The two violations are TLC's.

## Not modelled

- Matching words in a text, redaction of raw payloads, the registry of approved
  providers: pure functions of strings. `StoryAnswers` has their outcomes.
- The wording of prompts, error messages and pages; the validation of the
  generate form.
- Read-only routes other than the paged list of stories, CORS, the API key of
  server-side callers and cookie flags.
- A Skritter list that comes in more than two responses of one listing: it is
  imported twice, where the code imports it once for each.
- Times of day: `completed_at >= started_at` when the clock steps back, and the
  ages by which backups and the laptop's copies are pruned.
- `session_id`'s half hour, and page views in more than one tab.
- The provider comparison and its fixtures (a sequential report), the pull-request
  review script, migrations (generated, applied once; their constraints are in the
  models of the tables), Terraform, CI and styling.

## The plan

What is left, in this order:

1. Proofs: what the liveness properties rest on and is not itself liveness, first
   that each claim of a request uses up an attempt, so that an unfinished one can
   be reclaimed only so often; and that the lifecycle under `GeneratePage` is what
   `GenerationQueue` implements also when retries overlap, up to the attempts.
2. The ages of backups, with pruning on the Droplet and on the laptop.
