---------------------------- MODULE SkritterSync ----------------------------
(***************************************************************************)
(* The vocabulary sync (sync-skritter, from cron or by hand): its advisory *)
(* lock, the sync_runs rows it tracks itself in, and the import of each    *)
(* list in a transaction of its own.  Skritter's lists change while a sync *)
(* reads them, and a process may die at any step.                          *)
(*                                                                         *)
(* Abstracted: readings and definitions, a run's summary and its error     *)
(* message, and the order in which a sync takes the lists.  A response is  *)
(* recorded and read in one step.  A list that comes in more than two      *)
(* responses is imported twice.                                            *)
(***************************************************************************)
EXTENDS Naturals, FiniteSets, Sequences

CONSTANTS
  Procs,        \* sync processes
  Lists,        \* Skritter list ids
  Words,        \* Skritter vocab ids
  NoList,       \* a model value: no list
  RunsKept,     \* RAW_PAYLOAD_RUNS_KEPT
  Refresh,      \* --refresh: fetch every word, not just new ones
  MaxRuns,      \* bound: sync_runs rows and dropped locks
  MaxEdits,     \* bound: changes made in Skritter
  MaxFaults     \* bound: processes that die and locks that are dropped

NoProc == "none"

ASSUME ConstantsOK ==
  /\ NoProc \notin Procs
  /\ NoList \notin Lists
  /\ RunsKept \in Nat \ {0}
  /\ Refresh \in BOOLEAN
  /\ MaxRuns \in Nat /\ MaxEdits \in Nat /\ MaxFaults \in Nat

VARIABLES
  remote,   \* Skritter: the words of each list it has
  ever,     \* history: every set of words a list has ever had there
  lost,     \* history: lists that have ever been missing there
  edits,    \* changes made in Skritter so far
  missed,   \* history: lists it had that a torn listing left out (see GetLists)
  stored,   \* vocabulary_lists and list_vocabulary: is it known, archived, its words
  items,    \* vocabulary_items
  runs,     \* sync_runs, by id: running, succeeded or failed
  payloads, \* runs that have rows in raw_skritter_payloads
  recorded, \* history: runs that ever had any
  lock,     \* who holds the advisory lock
  sync,     \* each process's run in progress
  crashes,
  drops     \* times the server has dropped the lock

skritter == <<remote, ever, lost, edits>>
database == <<stored, items>>
tracking == <<runs, payloads, recorded>>
faults   == <<crashes, drops>>
vars == <<skritter, missed, database, tracking, lock, sync, faults>>

Modes == {"all", "single"}

Idle == [pc |-> "idle", mode |-> "all", run |-> 0, todo |-> {}, listing |-> {},
         again |-> {}, since |-> 0, list |-> NoList, words |-> {}, fetch |-> {},
         failed |-> FALSE, broken |-> FALSE]

Init ==
  /\ remote = [l \in Lists |-> Words]
  /\ ever = [l \in Lists |-> {remote[l]}]
  /\ lost = {}
  /\ edits = 0
  /\ missed = {}
  /\ stored = [l \in Lists |-> [known |-> FALSE, archived |-> FALSE, words |-> {}]]
  /\ items = {}
  /\ runs = <<>>
  /\ payloads = {}
  /\ recorded = {}
  /\ lock = NoProc
  /\ sync = [p \in Procs |-> Idle]
  /\ crashes = 0
  /\ drops = 0

-----------------------------------------------------------------------------
(* Skritter, and what may go wrong around a sync.                          *)

(* A list gets other words, appears or disappears.                         *)
Edit(l) ==
  /\ edits < MaxEdits
  /\ \/ \E ws \in SUBSET Words :
          /\ l \in DOMAIN remote => ws # remote[l]
          /\ remote' = [m \in DOMAIN remote \cup {l} |-> IF m = l THEN ws ELSE remote[m]]
          /\ ever' = [ever EXCEPT ![l] = @ \cup {ws}]
          /\ UNCHANGED lost
     \/ /\ l \in DOMAIN remote
        /\ remote' = [m \in DOMAIN remote \ {l} |-> remote[m]]
        /\ lost' = lost \cup {l}
        /\ UNCHANGED ever
  /\ edits' = edits + 1
  /\ UNCHANGED <<missed, database, tracking, lock, sync, faults>>

(* SyncLock.release: a rollback, which a lost lock does not mind.          *)
ReleaseLock(p) == lock' = IF lock = p THEN NoProc ELSE lock

Gone(p) ==
  /\ sync' = [sync EXCEPT ![p] = Idle]
  /\ ReleaseLock(p)

(* The process dies: open transactions are rolled back, and the lock goes  *)
(* with its connection.                                                    *)
Crash(p) ==
  /\ sync[p].pc # "idle"
  /\ crashes + drops < MaxFaults
  /\ crashes' = crashes + 1
  /\ Gone(p)
  /\ UNCHANGED <<skritter, missed, database, tracking, drops>>

(* idle_in_transaction_session_timeout ends the lock's transaction.        *)
DropLock ==
  /\ crashes + drops < MaxFaults
  /\ lock # NoProc
  /\ lock' = NoProc
  /\ drops' = drops + 1
  /\ UNCHANGED <<skritter, missed, database, tracking, sync, crashes>>

-----------------------------------------------------------------------------
(* Tracking.                                                               *)

(* try_acquire: a process that does not get the lock leaves.               *)
Acquire(p, mode, l) ==
  /\ sync[p].pc = "idle"
  /\ lock = NoProc
  /\ Len(runs) + drops < MaxRuns
  /\ lock' = p
  /\ sync' = [sync EXCEPT ![p] = [Idle EXCEPT !.pc = "begin", !.mode = mode,
                                               !.todo = IF mode = "all" THEN {} ELSE {l}]]
  /\ UNCHANGED <<skritter, missed, database, tracking, faults>>

(* Mutant: runs that were left behind are left alone.                      *)
InterruptedNone(rs) == rs

(* fail_interrupted_runs.                                                  *)
Interrupted(rs) ==
  [r \in DOMAIN rs |-> IF rs[r] = "running" THEN "failed" ELSE rs[r]]

(* prune_raw_payloads: the newest RunsKept runs keep theirs.               *)
Pruned(rs, ps) == {r \in ps : r > Len(rs) - RunsKept}

(* The three in one commit, with the new run's row; on an error, none.     *)
BeginRun(p) ==
  /\ sync[p].pc = "begin"
  /\ Len(runs) + drops < MaxRuns
  /\ runs' = Append(Interrupted(runs), "running")
  /\ payloads' = Pruned(runs, payloads)
  /\ sync' = [sync EXCEPT
       ![p].run = Len(runs) + 1,
       ![p].pc = IF sync[p].mode = "all" THEN "listing" ELSE "lists"]
  /\ UNCHANGED <<skritter, missed, database, recorded, lock, faults>>

BeginFails(p) ==
  /\ sync[p].pc = "begin"
  /\ Gone(p)
  /\ UNCHANGED <<skritter, missed, database, tracking, faults>>

(* on_response commits each response on the tracking session.              *)
Record(p) ==
  /\ payloads' = payloads \cup {sync[p].run}
  /\ recorded' = recorded \cup {sync[p].run}
  /\ UNCHANGED runs

(* A request that fails may have had a response to record.                 *)
RecordIfAny(p, broken) ==
  \/ ~broken /\ Record(p)
  \/ UNCHANGED tracking

(* Once a commit of the tracking session fails, the session refuses every  *)
(* later use: recording raises, and so does closing the run.  The commit   *)
(* that closes the run may also be the one to fail.                        *)
Outcome(p, status) ==
  /\ sync[p].pc = "end"
  /\ \/ /\ ~sync[p].broken
        /\ runs' = [runs EXCEPT ![sync[p].run] = status]
     \/ UNCHANGED runs
  /\ Gone(p)
  /\ UNCHANGED <<skritter, missed, database, payloads, recorded, faults>>

Complete(p) ==
  /\ ~sync[p].failed
  /\ Outcome(p, "succeeded")

(* fail_sync_run, for an exception or for a list that failed.              *)
FailRun(p) ==
  /\ sync[p].failed
  /\ Outcome(p, "failed")

-----------------------------------------------------------------------------
(* The import.                                                             *)

(* Skritter's paging, as far as it can be relied on: no list has changed    *)
(* since the first response of this listing.  Then its responses repeat no *)
(* list, and hold every list once the last has come, unless that one is    *)
(* bad and holds none.                                                     *)
Undisturbed(p) == sync[p].pc = "listing" \/ sync[p].since = edits

Pages(p, last) ==
  {page \in SUBSET DOMAIN remote : Undisturbed(p) =>
     /\ page \cap sync[p].listing = {}
     /\ last => page \in {DOMAIN remote \ sync[p].listing, {}}}

(* A listing in several responses is torn when lists changed between them, *)
(* or when the last of them is bad.                                        *)
Torn(p, page) == sync[p].pc = "paging" /\ (page = {} \/ ~Undisturbed(p))

(* Mutant: the cursor of the first response is not followed.               *)
GetListsOnce(p) ==
  /\ sync[p].pc = "listing"
  /\ \E last \in BOOLEAN : \E page \in Pages(p, last) :
       sync' = [sync EXCEPT ![p].listing = page, ![p].todo = page, ![p].pc = "lists"]
  /\ Record(p)
  /\ UNCHANGED <<skritter, missed, database, lock, faults>>

(* get_lists asks again while a response has a cursor, and then hands over *)
(* all the lists it was given, one that came twice (again) to be imported  *)
(* twice.                                                                  *)
GetLists(p) ==
  /\ sync[p].pc \in {"listing", "paging"}
  /\ \E last \in BOOLEAN : \E page \in Pages(p, last) :
       LET all == sync[p].listing \cup page
       IN /\ sync' = [sync EXCEPT ![p] =
               [@ EXCEPT !.listing = all,
                         !.again = sync[p].again \cup (page \cap sync[p].listing),
                         !.todo = IF last THEN all ELSE {},
                         !.since = IF last THEN 0
                                   ELSE IF sync[p].pc = "listing" THEN edits
                                   ELSE sync[p].since,
                         !.pc = IF last THEN "lists" ELSE "paging"]]
          /\ missed' = IF last /\ Torn(p, page) /\ all # {}
                       THEN missed \cup (DOMAIN remote \ all) ELSE missed
  /\ Record(p)
  /\ UNCHANGED <<skritter, database, lock, faults>>

GetListsFails(p) ==
  /\ sync[p].pc \in {"listing", "paging"}
  /\ \E b \in BOOLEAN :
       /\ sync' = [sync EXCEPT ![p] =
            [@ EXCEPT !.listing = {}, !.again = {}, !.since = 0,
                      !.failed = TRUE, !.broken = b, !.pc = "end"]]
       /\ RecordIfAny(p, b)
  /\ UNCHANGED <<skritter, missed, database, lock, faults>>

(* get_list; a bad response may hold no words.                             *)
GetList(p, l) ==
  /\ sync[p].pc = "lists"
  /\ ~sync[p].broken
  /\ l \in sync[p].todo \cap DOMAIN remote
  /\ \E ws \in {remote[l], {}} :
       sync' = [sync EXCEPT ![p].list = l, ![p].words = ws, ![p].pc = "fetched"]
  /\ Record(p)
  /\ UNCHANGED <<skritter, missed, database, lock, faults>>

(* ensure_list locks the list's row, and waits for it, until the commit;   *)
(* then the words that are not stored yet are looked up.                   *)
OpenTransaction(p) ==
  /\ sync[p].pc = "fetched"
  /\ \A q \in Procs : ~(sync[q].pc = "import" /\ sync[q].list = sync[p].list)
  /\ sync' = [sync EXCEPT
       ![p].fetch = IF Refresh THEN sync[p].words ELSE sync[p].words \ items,
       ![p].pc = "import"]
  /\ UNCHANGED <<skritter, missed, database, tracking, lock, faults>>

(* get_vocab, ensure_vocab and the link, in the open transaction.          *)
FetchWord(p) ==
  /\ sync[p].pc = "import"
  /\ \E w \in sync[p].fetch : sync' = [sync EXCEPT ![p].fetch = @ \ {w}]
  /\ Record(p)
  /\ UNCHANGED <<skritter, missed, database, lock, faults>>

(* What the commit leaves of the list: its links are those of the          *)
(* response, unless that held no words, and it is not archived.            *)
ImportedList(old, ws) ==
  [known |-> TRUE, archived |-> FALSE, words |-> IF ws = {} THEN old.words ELSE ws]

(* A list is done, or has failed; one that came twice comes once more.     *)
Left(r, l) == IF l \in r.again THEN r.todo ELSE r.todo \ {l}

NextList(p, failed, broken) ==
  sync' = [sync EXCEPT ![p] =
    [@ EXCEPT !.todo = Left(sync[p], sync[p].list),
              !.again = sync[p].again \ {sync[p].list}, !.list = NoList, !.words = {},
              !.fetch = {}, !.failed = failed, !.broken = broken,
              !.pc = IF sync[p].mode = "all" THEN "lists" ELSE "end"]]

CommitList(p) ==
  /\ sync[p].pc = "import"
  /\ sync[p].fetch = {}
  /\ stored' = [stored EXCEPT ![sync[p].list] = ImportedList(@, sync[p].words)]
  /\ items' = items \cup sync[p].words
  /\ NextList(p, sync[p].failed, FALSE)
  /\ UNCHANGED <<skritter, missed, tracking, lock, faults>>

(* Mutants of FailList: the words linked so far are committed; the failure *)
(* is not remembered.                                                      *)
FailListCommits(p) ==
  /\ sync[p].pc = "import"
  /\ stored' = [stored EXCEPT ![sync[p].list] =
       [known |-> TRUE, archived |-> FALSE,
        words |-> @.words \cup (sync[p].words \ sync[p].fetch)]]
  /\ NextList(p, TRUE, FALSE)
  /\ UNCHANGED <<skritter, missed, items, tracking, lock, faults>>

FailListSilently(p) ==
  /\ sync[p].pc \in {"fetched", "import"}
  /\ NextList(p, sync[p].failed, FALSE)
  /\ UNCHANGED <<skritter, missed, database, tracking, lock, faults>>

(* Any exception while a list is imported rolls its transaction back.  A   *)
(* full sync goes on with the next list.                                   *)
FailList(p) ==
  /\ sync[p].pc \in {"fetched", "import"}
  /\ \E b \in BOOLEAN :
       /\ b => sync[p].fetch # {}
       /\ NextList(p, TRUE, b)
       /\ \/ sync[p].fetch # {} /\ RecordIfAny(p, b)
          \/ sync[p].fetch = {} /\ UNCHANGED tracking
  /\ UNCHANGED <<skritter, missed, database, lock, faults>>

GetListFails(p, l) ==
  /\ sync[p].pc = "lists"
  /\ l \in sync[p].todo
  /\ \E b \in BOOLEAN :
       /\ sync[p].broken => b
       /\ sync' = [sync EXCEPT ![p] =
            [@ EXCEPT !.todo = Left(sync[p], l), !.again = sync[p].again \ {l},
                      !.failed = TRUE, !.broken = b,
                      !.pc = IF sync[p].mode = "all" THEN "lists" ELSE "end"]]
       /\ RecordIfAny(p, b)
  /\ UNCHANGED <<skritter, missed, database, lock, faults>>

(* _archive_removed_lists, after the last list of a full sync: nothing is  *)
(* archived on the word of an empty listing.                               *)
Archive(p) ==
  /\ sync[p].pc = "lists"
  /\ sync[p].mode = "all"
  /\ sync[p].todo = {}
  /\ stored' = [l \in Lists |->
       IF sync[p].listing # {} /\ stored[l].known /\ l \notin sync[p].listing
       THEN [stored[l] EXCEPT !.archived = TRUE] ELSE stored[l]]
  /\ sync' = [sync EXCEPT ![p].pc = "end"]
  /\ UNCHANGED <<skritter, missed, items, tracking, lock, faults>>

ArchiveFails(p) ==
  /\ sync[p].pc = "lists"
  /\ sync[p].mode = "all"
  /\ sync[p].todo = {}
  /\ sync[p].listing # {}
  /\ sync' = [sync EXCEPT ![p].pc = "end", ![p].failed = TRUE]
  /\ UNCHANGED <<skritter, missed, database, tracking, lock, faults>>

-----------------------------------------------------------------------------
SyncStep(p) ==
  \/ \E mode \in Modes, l \in Lists : Acquire(p, mode, l)
  \/ BeginRun(p) \/ BeginFails(p)
  \/ GetLists(p) \/ GetListsFails(p)
  \/ \E l \in Lists : GetList(p, l) \/ GetListFails(p, l)
  \/ OpenTransaction(p) \/ FetchWord(p) \/ CommitList(p) \/ FailList(p)
  \/ Archive(p) \/ ArchiveFails(p)
  \/ Complete(p) \/ FailRun(p)

Next ==
  \/ \E p \in Procs : SyncStep(p) \/ Crash(p)
  \/ DropLock
  \/ \E l \in Lists : Edit(l)

Spec == Init /\ [][Next]_vars

-----------------------------------------------------------------------------
(* What sync_runs says is so.  "Holding the lock proves no other sync is   *)
(* running, so any run still marked running belongs to a process that      *)
(* died": while the lock holds, a live sync's run is never closed by       *)
(* another.  A run left behind by a dead process, or by a database that    *)
(* refused the commit that closes it, stays running only until the next    *)
(* sync; and the newest RunsKept earlier runs keep their raw payloads.     *)
RunsTellTheTruth ==
  /\ drops = 0 => \A p \in Procs :
       sync[p].pc \notin {"idle", "begin"} => runs[sync[p].run] = "running"
  /\ \A r \in DOMAIN runs : runs[r] = "running" => r = Len(runs)
  /\ drops = 0 => payloads = {r \in recorded : r >= Len(runs) - RunsKept}

(* A list's words are always a set that Skritter had for it: no failure,   *)
(* crash or edit in the middle of an import leaves a mixture behind, and   *)
(* nor do two syncs at once.                                               *)
NoHalfImport ==
  \A l \in Lists : stored[l].words \in ever[l] \cup {{}}

(* A list is archived only if Skritter really lacked it at some time, or   *)
(* left it out of a listing in several responses between which its lists   *)
(* changed or the last of which was bad: never for a listing that failed   *)
(* or was empty, for one that nothing disturbed, for a list that failed to *)
(* import or for a single-list sync.                                       *)
ArchivedOnlyIfLostOrMissed ==
  \A l \in Lists : stored[l].archived => l \in lost \cup missed

(* A full sync that is reported as succeeded has left the lists as its     *)
(* listing said: those in it available, all others archived.               *)
SuccessMirrorsListing ==
  [][\A p \in Procs :
       /\ drops = 0
       /\ sync[p].run \in DOMAIN runs
       /\ runs[sync[p].run] # runs'[sync[p].run]
       /\ runs'[sync[p].run] = "succeeded"
       /\ sync[p].mode = "all" /\ sync[p].listing # {}
       => \A l \in Lists :
            IF l \in sync[p].listing
            THEN stored[l].known /\ ~stored[l].archived
            ELSE stored[l].known => stored[l].archived]_runs
=============================================================================
