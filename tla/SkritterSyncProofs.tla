------------------------- MODULE SkritterSyncProofs -------------------------
(***************************************************************************)
(* The safety of the sync, for any number of processes, lists, words, runs *)
(* and failures.  SyncInv is the inductive invariant: what a live sync     *)
(* knows of its run, of Skritter and of the database at each of its steps. *)
(***************************************************************************)
EXTENDS SkritterSync, SequenceTheorems, TLAPS

Status == {"running", "succeeded", "failed"}

Steps == {"idle", "begin", "listing", "paging", "lists", "fetched", "import", "end"}

Run == [pc : Steps, mode : Modes, run : Nat, todo : SUBSET Lists,
        listing : SUBSET Lists, again : SUBSET Lists, since : Nat,
        list : Lists \cup {NoList}, words : SUBSET Words, fetch : SUBSET Words,
        failed : BOOLEAN, broken : BOOLEAN]

Copy == [known : BOOLEAN, archived : BOOLEAN, words : SUBSET Words]

TypeOK ==
  /\ DOMAIN remote \subseteq Lists
  /\ remote \in [DOMAIN remote -> SUBSET Words]
  /\ ever \in [Lists -> SUBSET (SUBSET Words)]
  /\ lost \subseteq Lists /\ missed \subseteq Lists /\ edits \in Nat
  /\ stored \in [Lists -> Copy]
  /\ items \subseteq Words
  /\ runs \in Seq(Status)
  /\ payloads \subseteq Nat /\ recorded \subseteq Nat
  /\ lock \in Procs \cup {NoProc}
  /\ sync \in [Procs -> Run]
  /\ drops \in Nat

Active(p)   == sync[p].pc # "idle"
Tracked(p)  == sync[p].pc \notin {"idle", "begin"}
InAList(p)  == sync[p].pc \in {"fetched", "import"}
Listed(p)   == sync[p].pc \in {"lists", "fetched", "import"}

(* While the lock was never dropped, its holder is the only live sync.     *)
AloneWithLock == drops = 0 => \A p \in Procs : Active(p) => lock = p

(* A live sync has a row, which is the latest one and running.             *)
RunOpen ==
  /\ \A p \in Procs : IF Tracked(p) THEN sync[p].run \in DOMAIN runs
                                    ELSE sync[p].run = 0
  /\ drops = 0 => \A p \in Procs : Tracked(p) => runs[sync[p].run] = "running"
  /\ \A r \in DOMAIN runs : runs[r] = "running" => r = Len(runs)

PayloadsKept == drops = 0 => payloads = {r \in recorded : r >= Len(runs) - RunsKept}

(* What Skritter has, and what it does not, is in its history.             *)
History ==
  /\ \A l \in DOMAIN remote : remote[l] \in ever[l]
  /\ Lists \ DOMAIN remote \subseteq lost

(* A list is imported with words it had, or with none.                     *)
WordsHad == \A p \in Procs : InAList(p) =>
              sync[p].list \in Lists /\ sync[p].words \in ever[sync[p].list] \cup {{}}

(* A list that is not in a listing was missing when it was made, unless    *)
(* the listing was torn; and a listing begins with nothing.                *)
Whole(p) == sync[p].listing # {} => Lists \ sync[p].listing \subseteq lost \cup missed
Unlisted(p) == sync[p].pc \in {"idle", "begin", "listing"} => sync[p].listing = {}
ListingMade == \A p \in Procs : Unlisted(p) /\ (Listed(p) => Whole(p))

Available(l) == stored[l].known /\ ~stored[l].archived

(* A full sync without a failure has imported the lists that are done, and *)
(* at its end archived the others.                                         *)
DoneImported ==
  drops = 0 => \A p \in Procs :
    sync[p].mode = "all" /\ sync[p].listing # {} /\ ~sync[p].failed =>
      /\ InAList(p) \/ sync[p].pc = "lists" =>
           \A l \in sync[p].listing \ sync[p].todo : Available(l)
      /\ sync[p].pc = "end" =>
           \A l \in Lists : IF l \in sync[p].listing THEN Available(l)
                            ELSE stored[l].known => stored[l].archived

SyncInv == /\ TypeOK /\ AloneWithLock /\ RunOpen /\ PayloadsKept
           /\ History /\ WordsHad /\ ListingMade /\ DoneImported
           /\ NoHalfImport /\ ArchivedOnlyIfLostOrMissed

-----------------------------------------------------------------------------
(* Lemmas on operators and on the shape of a step.                         *)

LEMMA InterruptedRuns ==
  ASSUME NEW rs \in Seq(Status)
  PROVE  /\ Interrupted(rs) \in Seq(Status)
         /\ Len(Interrupted(rs)) = Len(rs)
         /\ DOMAIN Interrupted(rs) = DOMAIN rs
         /\ \A r \in DOMAIN rs : Interrupted(rs)[r] # "running"
<1>1. /\ rs \in [1 .. Len(rs) -> Status]
      /\ Len(rs) \in Nat /\ DOMAIN rs = 1 .. Len(rs)
  BY LenProperties
<1>2. \A r \in DOMAIN rs : rs[r] \in Status
  BY <1>1
<1>3. Interrupted(rs) \in [1 .. Len(rs) -> Status]
  BY <1>1, <1>2 DEF Interrupted, Status
<1> QED
  BY <1>1, <1>3, SeqDef, LenProperties DEF Interrupted

(* The row that BeginRun adds is the latest, and the only running one.     *)
LEMMA RunBegun ==
  ASSUME runs \in Seq(Status), NEW rs, rs = Append(Interrupted(runs), "running")
  PROVE  /\ rs \in Seq(Status)
         /\ Len(rs) = Len(runs) + 1
         /\ DOMAIN rs = DOMAIN runs \cup {Len(runs) + 1}
         /\ \A r \in DOMAIN rs : rs[r] = "running" <=> r = Len(runs) + 1
<1> DEFINE old == Interrupted(runs)
<1>1. /\ old \in Seq(Status) /\ Len(old) = Len(runs)
      /\ DOMAIN old = DOMAIN runs /\ \A r \in DOMAIN runs : old[r] # "running"
  BY InterruptedRuns
<1>2. Len(runs) \in Nat /\ DOMAIN runs = 1 .. Len(runs)
  BY LenProperties
<1> HIDE DEF old
<1> QED
  BY <1>1, <1>2 DEF old, Status

(* A run that is closed stays where it is.                                 *)
LEMMA RunClosed ==
  ASSUME runs \in Seq(Status), NEW r \in DOMAIN runs, NEW s \in Status
  PROVE  /\ [runs EXCEPT ![r] = s] \in Seq(Status)
         /\ Len([runs EXCEPT ![r] = s]) = Len(runs)
         /\ DOMAIN [runs EXCEPT ![r] = s] = DOMAIN runs
BY ExceptSeq, LenProperties

ProcessStep(p) == SyncStep(p) \/ Crash(p)

(* A process changes no other's run, nothing in Skritter, and drops no     *)
(* lock.                                                                   *)
LEMMA OthersKept ==
  ASSUME TypeOK, NEW p \in Procs, ProcessStep(p)
  PROVE  /\ sync' = [sync EXCEPT ![p] = sync'[p]]
         /\ \A q \in Procs \ {p} : sync'[q] = sync[q]
         /\ UNCHANGED skritter /\ drops' = drops
         /\ missed \subseteq missed' /\ (missed' = missed \/ GetLists(p))
BY DEF TypeOK, ProcessStep, SyncStep, Crash, Gone, Acquire, BeginRun, BeginFails, GetLists,
       GetListsFails, GetList, GetListFails, OpenTransaction, FetchWord, CommitList, FailList,
       NextList, Archive, ArchiveFails, Complete, FailRun, Outcome, Record, RecordIfAny,
       database, skritter, tracking, faults

(* Who writes what.                                                        *)
LEMMA Writers ==
  ASSUME TypeOK, NEW p \in Procs, ProcessStep(p)
  PROVE  /\ runs' = runs \/ BeginRun(p) \/ Complete(p) \/ FailRun(p)
         /\ UNCHANGED <<payloads, recorded>> \/ BeginRun(p) \/ (Record(p) /\ Tracked(p))
         /\ UNCHANGED stored \/ CommitList(p) \/ Archive(p)
         /\ UNCHANGED items \/ CommitList(p) \/ Archive(p)
         /\ \/ Active(p) /\ lock' = lock
            \/ lock = NoProc /\ lock' = p
            \/ Gone(p)
BY DEF TypeOK, Active, ProcessStep, SyncStep, Crash, Gone, ReleaseLock, Acquire, BeginRun, BeginFails,
       GetLists, GetListsFails, GetList, GetListFails, OpenTransaction, FetchWord, CommitList,
       FailList, NextList, Archive, ArchiveFails, Complete, FailRun, Outcome, Record, RecordIfAny,
       database, skritter, tracking, faults, Tracked

-----------------------------------------------------------------------------
(* Types.                                                                  *)

LEMMA TypeInit == ConstantsOK /\ Init => TypeOK
<1>1. <<>> \in Seq(Status)
  OBVIOUS
<1> QED
  BY <1>1 DEF ConstantsOK, Init, TypeOK, Run, Steps, Copy, Idle, Modes, NoProc

LEMMA RunUpdates ==
  ASSUME NEW r \in Run, NEW f \in BOOLEAN, NEW b \in BOOLEAN, NEW l
  PROVE  /\ [r EXCEPT !.listing = {}, !.again = {}, !.since = 0,
                      !.failed = f, !.broken = b, !.pc = "end"] \in Run
         /\ [r EXCEPT !.pc = "end", !.failed = f] \in Run
         /\ [r EXCEPT !.pc = "end"] \in Run
         /\ [r EXCEPT !.todo = Left(r, l), !.again = r.again \ {l}, !.failed = f, !.broken = b,
                      !.pc = IF r.mode = "all" THEN "lists" ELSE "end"] \in Run
         /\ [r EXCEPT !.todo = Left(r, r.list), !.again = r.again \ {r.list},
                      !.list = NoList, !.words = {}, !.fetch = {},
                      !.failed = f, !.broken = b,
                      !.pc = IF r.mode = "all" THEN "lists" ELSE "end"] \in Run
BY DEF Run, Steps, Left

(* What one response of get_lists leaves of the run.                       *)
Given(p, last, page) ==
  /\ sync'[p] = [sync[p] EXCEPT
       !.listing = sync[p].listing \cup page,
       !.again = sync[p].again \cup (page \cap sync[p].listing),
       !.todo = IF last THEN sync[p].listing \cup page ELSE {},
       !.since = IF last THEN 0 ELSE IF sync[p].pc = "listing" THEN edits ELSE sync[p].since,
       !.pc = IF last THEN "lists" ELSE "paging"]
  /\ missed' = IF last /\ Torn(p, page) /\ sync[p].listing \cup page # {}
               THEN missed \cup (DOMAIN remote \ (sync[p].listing \cup page)) ELSE missed

LEMMA ResponseGiven ==
  ASSUME TypeOK, NEW p \in Procs, GetLists(p)
  PROVE  \E last \in BOOLEAN : \E page \in Pages(p, last) : Given(p, last, page)
BY DEF GetLists, Given, TypeOK

LEMMA ListsField ==
  ASSUME TypeOK, NEW p \in Procs, GetLists(p)
  PROVE  /\ sync'[p] \in Run
         /\ sync'[p].run = sync[p].run
         /\ \/ sync'[p].pc = "paging"
            \/ sync'[p].pc = "lists" /\ sync'[p].todo = sync'[p].listing
         /\ missed' \subseteq Lists
<1>1. PICK last \in BOOLEAN : \E page \in Pages(p, last) : Given(p, last, page)
  BY ResponseGiven
<1>2. PICK page \in Pages(p, last) : Given(p, last, page)
  BY <1>1
<1>3. page \subseteq Lists /\ sync[p] \in Run /\ edits \in Nat
  BY DEF Pages, TypeOK
<1>4. missed' \subseteq Lists
  BY <1>2 DEF Given, TypeOK
<1> DEFINE all == sync[p].listing \cup page
           twice == sync[p].again \cup (page \cap sync[p].listing)
           todo == IF last THEN all ELSE {}
           n == IF last THEN 0 ELSE IF sync[p].pc = "listing" THEN edits ELSE sync[p].since
           pc == IF last THEN "lists" ELSE "paging"
<1>5. sync'[p] = [sync[p] EXCEPT !.listing = all, !.again = twice, !.todo = todo,
                                 !.since = n, !.pc = pc]
  BY <1>2 DEF Given
<1>6. /\ all \in SUBSET Lists /\ twice \in SUBSET Lists /\ todo \in SUBSET Lists
      /\ n \in Nat /\ pc \in Steps
      /\ pc = "paging" \/ (pc = "lists" /\ todo = all)
  BY <1>3 DEF Run, Steps
<1> HIDE DEF all, twice, todo, n, pc
<1>7. sync'[p] \in Run
  BY <1>3, <1>5, <1>6 DEF Run
<1>8. /\ sync'[p].run = sync[p].run /\ sync'[p].pc = pc
      /\ sync'[p].todo = todo /\ sync'[p].listing = all
  BY <1>3, <1>5 DEF Run
<1> QED
  BY <1>4, <1>6, <1>7, <1>8

LEMMA RunTyped ==
  ASSUME TypeOK, ConstantsOK, NEW p \in Procs, ProcessStep(p)
  PROVE  sync' \in [Procs -> Run]
<1> DEFINE r == sync[p]
<1>0. r \in Run /\ p \in DOMAIN sync
  BY DEF TypeOK
<1>1. ASSUME NEW mode \in Modes, NEW l \in Lists, Acquire(p, mode, l)
      PROVE  sync'[p] \in Run
  BY <1>1 DEF TypeOK, Acquire, Run, Steps, Idle
<1>2. ASSUME BeginRun(p)
      PROVE  sync'[p] \in Run
  <2>1. sync'[p] = [r EXCEPT !.run = Len(runs) + 1,
                             !.pc = IF r.mode = "all" THEN "listing" ELSE "lists"]
    BY <1>2, <1>0 DEF BeginRun
  <2>2. Len(runs) + 1 \in Nat
    BY LenProperties DEF TypeOK
  <2> HIDE DEF r
  <2> QED
    BY <1>0, <2>1, <2>2 DEF Run, Steps
<1>3. Gone(p) => sync'[p] \in Run
  BY DEF TypeOK, Gone, Run, Steps, Idle, Modes
<1>4. GetLists(p) => sync'[p] \in Run
  BY ListsField
<1>5. ASSUME GetListsFails(p) PROVE sync'[p] \in Run
  <2>1. PICK b \in BOOLEAN : sync' = [sync EXCEPT ![p] =
            [@ EXCEPT !.listing = {}, !.again = {}, !.since = 0,
                      !.failed = TRUE, !.broken = b, !.pc = "end"]]
    BY <1>5 DEF GetListsFails
  <2>2. sync'[p] = [r EXCEPT !.listing = {}, !.again = {}, !.since = 0,
                             !.failed = TRUE, !.broken = b, !.pc = "end"]
    BY <2>1 DEF TypeOK
  <2> HIDE DEF r
  <2>3. \A f, c \in BOOLEAN : [r EXCEPT !.listing = {}, !.again = {}, !.since = 0,
                                       !.failed = f, !.broken = c, !.pc = "end"] \in Run
    BY <1>0, RunUpdates, Zenon
  <2>4. TRUE \in BOOLEAN
    OBVIOUS
  <2> QED
    BY <2>2, <2>3, <2>4, Zenon
<1>6. ASSUME NEW l \in Lists, GetList(p, l)
      PROVE  sync'[p] \in Run
  BY <1>6 DEF TypeOK, GetList, Run, Steps
<1>7. ASSUME NEW l \in Lists, GetListFails(p, l)
      PROVE  sync'[p] \in Run
  <2>1. PICK b \in BOOLEAN : sync'[p] = [r EXCEPT !.todo = Left(r, l), !.again = r.again \ {l},
                      !.failed = TRUE, !.broken = b,
                      !.pc = IF r.mode = "all" THEN "lists" ELSE "end"]
    BY <1>7, <1>0 DEF GetListFails
  <2> HIDE DEF r
  <2>2. \A f, c \in BOOLEAN : [r EXCEPT !.todo = Left(r, l), !.again = r.again \ {l},
                      !.failed = f, !.broken = c,
                      !.pc = IF r.mode = "all" THEN "lists" ELSE "end"] \in Run
    BY <1>0, RunUpdates, Zenon
  <2>3. TRUE \in BOOLEAN
    OBVIOUS
  <2> QED
    BY <2>1, <2>2, <2>3, Zenon
<1>8. ASSUME OpenTransaction(p) \/ FetchWord(p)
      PROVE  sync'[p] \in Run
  <2>1. PICK ws \in SUBSET Words, pc \in {r.pc, "import"} : sync'[p] = [r EXCEPT !.fetch = ws, !.pc = pc]
    <3>1. CASE OpenTransaction(p)
      <4> DEFINE ws == IF Refresh THEN r.words ELSE r.words \ items
      <4>1. ws \in SUBSET Words
        BY <1>0 DEF Run
      <4>2. sync'[p] = [r EXCEPT !.fetch = ws, !.pc = "import"]
        BY <1>0, <3>1 DEF OpenTransaction
      <4> QED
        BY <4>1, <4>2
    <3>2. CASE FetchWord(p)
      <4>1. PICK w \in r.fetch : sync'[p] = [r EXCEPT !.fetch = r.fetch \ {w}]
        BY <3>2, <1>0 DEF FetchWord
      <4>2. sync'[p] = [r EXCEPT !.fetch = r.fetch \ {w}, !.pc = r.pc] /\ r.fetch \ {w} \in SUBSET Words
        BY <4>1, <1>0 DEF Run
      <4> QED
        BY <4>2
    <3> QED
      BY <1>8, <3>1, <3>2
  <2>2. r.pc \in Steps
    BY <1>0 DEF Run, Steps
  <2> HIDE DEF r
  <2> QED
    BY <1>0, <2>1, <2>2 DEF Run, Steps
<1>10. ASSUME NEW f \in BOOLEAN, NEW b \in BOOLEAN, NextList(p, f, b)
       PROVE  sync'[p] \in Run
  BY <1>0, <1>10, RunUpdates, Zenon DEF NextList
<1>11. CommitList(p) => sync'[p] \in Run
  BY <1>10 DEF CommitList, TypeOK, Run
<1>12. FailList(p) => sync'[p] \in Run
  BY <1>10 DEF FailList
<1>13. Archive(p) => sync'[p] \in Run
  BY <1>0, RunUpdates, Zenon DEF Archive
<1>14. ASSUME ArchiveFails(p)
       PROVE  sync'[p] \in Run
  <2>1. sync'[p] = [r EXCEPT !.pc = "end", !.failed = TRUE]
    BY <1>14, <1>0 DEF ArchiveFails
  <2> HIDE DEF r
  <2> QED
    BY <1>0, <2>1 DEF Run, Steps
<1>15. sync'[p] \in Run
  BY <1>1, <1>2, <1>3, <1>4, <1>5, <1>6, <1>7, <1>8, <1>11, <1>12, <1>13, <1>14
  DEF ProcessStep, SyncStep, Crash, BeginFails, Complete, FailRun, Outcome
<1>16. sync' = [sync EXCEPT ![p] = sync'[p]]
  BY OthersKept
<1> QED
  BY <1>15, <1>16 DEF TypeOK

LEMMA TypeStep ==
  ASSUME ConstantsOK, TypeOK, RunOpen, [Next]_vars
  PROVE  TypeOK'
<1>1. ASSUME NEW p \in Procs, ProcessStep(p)
      PROVE  TypeOK'
  <2>1. sync' \in [Procs -> Run]
    BY <1>1, RunTyped
  <2>2. runs' \in Seq(Status)
    <3>1. BeginRun(p) => runs' \in Seq(Status)
      BY RunBegun DEF BeginRun, TypeOK
    <3>2. \A s \in {"succeeded", "failed"} : Outcome(p, s) => runs' \in Seq(Status)
      BY RunClosed DEF Outcome, TypeOK, RunOpen, Tracked, Status
    <3> QED
      BY <1>1, <3>1, <3>2, Writers DEF TypeOK, Complete, FailRun
  <2>3. payloads' \subseteq Nat /\ recorded' \subseteq Nat
    <3>1. BeginRun(p) => payloads' \subseteq Nat /\ recorded' \subseteq Nat
      BY DEF BeginRun, Pruned, TypeOK
    <3>2. Record(p) => payloads' \subseteq Nat /\ recorded' \subseteq Nat
      BY DEF Record, TypeOK, Run
    <3> QED
      BY <1>1, <3>1, <3>2, Writers DEF TypeOK
  <2>4. stored' \in [Lists -> Copy] /\ items' \subseteq Words
    <3>1. ASSUME CommitList(p)
          PROVE  stored' \in [Lists -> Copy] /\ items' \subseteq Words
      <4>1. sync[p].words \subseteq Words
        BY DEF TypeOK, Run
      <4>2. \A l \in Lists : ImportedList(stored[l], sync[p].words) \in Copy
        BY <4>1 DEF TypeOK, ImportedList, Copy
      <4> QED
        BY <3>1, <4>1, <4>2 DEF CommitList, TypeOK
    <3>2. ASSUME Archive(p)
          PROVE  stored' \in [Lists -> Copy] /\ items' \subseteq Words
      <4>1. \A c \in Copy : [c EXCEPT !.archived = TRUE] \in Copy
        BY DEF Copy
      <4> QED
        BY <3>2, <4>1 DEF Archive, TypeOK
    <3> QED
      BY <1>1, <3>1, <3>2, Writers DEF TypeOK
  <2>5. lock' \in Procs \cup {NoProc}
    BY <1>1, Writers DEF TypeOK, Gone, ReleaseLock
  <2>6. missed' \subseteq Lists
    BY <1>1, ListsField, OthersKept DEF TypeOK
  <2> QED
    BY <1>1, <2>1, <2>2, <2>3, <2>4, <2>5, <2>6, OthersKept DEF TypeOK, skritter
<1>2. ASSUME DropLock
      PROVE  TypeOK'
  BY <1>2 DEF TypeOK, DropLock, skritter, database, tracking
<1>3. ASSUME NEW l \in Lists, Edit(l)
      PROVE  TypeOK'
  <2>1. DOMAIN remote' \subseteq Lists /\ remote' \in [DOMAIN remote' -> SUBSET Words]
    <3>1. ASSUME NEW ws \in SUBSET Words,
                 remote' = [m \in DOMAIN remote \cup {l} |-> IF m = l THEN ws ELSE remote[m]]
          PROVE  DOMAIN remote' \subseteq Lists /\ remote' \in [DOMAIN remote' -> SUBSET Words]
      BY <3>1 DEF TypeOK
    <3>2. ASSUME remote' = [m \in DOMAIN remote \ {l} |-> remote[m]]
          PROVE  DOMAIN remote' \subseteq Lists /\ remote' \in [DOMAIN remote' -> SUBSET Words]
      BY <3>2 DEF TypeOK
    <3> QED
      BY <1>3, <3>1, <3>2 DEF Edit
  <2>2. ever' \in [Lists -> SUBSET (SUBSET Words)] /\ lost' \subseteq Lists
    BY <1>3 DEF TypeOK, Edit
  <2> QED
    BY <1>3, <2>1, <2>2 DEF TypeOK, Edit, database, tracking, faults
<1>4. ASSUME UNCHANGED vars
      PROVE  TypeOK'
  BY <1>4 DEF TypeOK, vars, skritter, database, tracking, faults
<1> QED
  BY <1>1, <1>2, <1>3, <1>4 DEF Next, ProcessStep

-----------------------------------------------------------------------------
(* The lock and the rows of sync_runs.                                     *)

(* While the lock was never dropped, a process that takes a step is alone. *)
LEMMA OthersIdle ==
  ASSUME ConstantsOK, TypeOK, AloneWithLock, NEW p \in Procs, ProcessStep(p), drops = 0
  PROVE  \A q \in Procs \ {p} : ~Active(q)
<1>1. Active(p) \/ lock = NoProc
  BY DEF Active, ProcessStep, SyncStep, Crash, Acquire, BeginRun, BeginFails, GetLists,
         GetListsFails, GetList, GetListFails, OpenTransaction, FetchWord, CommitList,
         FailList, Archive, ArchiveFails, Complete, FailRun, Outcome
<1> QED
  BY <1>1 DEF AloneWithLock, ConstantsOK

(* A process that does not begin or end a run keeps the run it has.        *)
LEMMA RunField ==
  ASSUME TypeOK, RunOpen, NEW p \in Procs, ProcessStep(p)
  PROVE  \/ BeginRun(p) /\ sync'[p].run = Len(runs) + 1 /\ Tracked(p)'
         \/ sync'[p].run = 0 /\ ~Tracked(p)' /\ ~BeginRun(p)
         \/ /\ sync'[p].run = sync[p].run /\ Tracked(p)' /\ Tracked(p)
            /\ UNCHANGED runs
<1>1. BeginRun(p) => sync'[p].run = Len(runs) + 1 /\ Tracked(p)'
  BY DEF BeginRun, Tracked, TypeOK, Run, Modes
<1>2. Gone(p) => sync'[p].run = 0 /\ ~Tracked(p)'
  BY DEF Gone, Idle, Tracked, TypeOK
<1>3. ASSUME NEW mode \in Modes, NEW l \in Lists, Acquire(p, mode, l)
      PROVE  sync'[p].run = 0 /\ ~Tracked(p)'
  BY <1>3 DEF Acquire, Idle, Tracked, TypeOK
<1>4. ASSUME NEW f, NEW b, NextList(p, f, b)
      PROVE  sync'[p].run = sync[p].run /\ Tracked(p)'
  BY <1>4 DEF NextList, TypeOK, Run, Tracked
<1>5. CommitList(p) \/ FailList(p) =>
        sync'[p].run = sync[p].run /\ Tracked(p)' /\ Tracked(p) /\ UNCHANGED runs
  BY <1>4 DEF CommitList, FailList, Tracked, Record, RecordIfAny, tracking
<1>6. ASSUME NEW l \in Lists, GetList(p, l) \/ GetListFails(p, l)
      PROVE  sync'[p].run = sync[p].run /\ Tracked(p)' /\ Tracked(p) /\ UNCHANGED runs
  <2>1. Tracked(p) /\ UNCHANGED runs
    BY <1>6 DEF GetList, GetListFails, Tracked, Record, RecordIfAny, tracking
  <2>2. GetList(p, l) => sync'[p].run = sync[p].run /\ Tracked(p)'
    BY DEF GetList, TypeOK, Run, Tracked
  <2>3. GetListFails(p, l) => sync'[p].run = sync[p].run /\ Tracked(p)'
    BY DEF GetListFails, TypeOK, Run, Tracked
  <2> QED
    BY <1>6, <2>1, <2>2, <2>3
<1>7. ASSUME \/ GetLists(p) \/ GetListsFails(p) \/ OpenTransaction(p) \/ FetchWord(p)
             \/ Archive(p) \/ ArchiveFails(p)
      PROVE  sync'[p].run = sync[p].run /\ Tracked(p)' /\ Tracked(p) /\ UNCHANGED runs
  <2>1. Tracked(p) /\ UNCHANGED runs
    BY <1>7 DEF GetLists, GetListsFails, OpenTransaction, FetchWord, Archive, ArchiveFails,
                Tracked, Record, RecordIfAny, tracking
  <2>2. GetLists(p) \/ GetListsFails(p) => sync'[p].run = sync[p].run /\ Tracked(p)'
    <3>1. GetLists(p) => sync'[p].run = sync[p].run /\ sync'[p].pc \in {"lists", "paging"}
      BY ListsField
    <3>2. GetListsFails(p) => sync'[p].run = sync[p].run /\ sync'[p].pc = "end"
      BY DEF GetListsFails, TypeOK
    <3> QED
      BY <3>1, <3>2 DEF Tracked
  <2>3. OpenTransaction(p) \/ FetchWord(p) => sync'[p].run = sync[p].run /\ Tracked(p)'
    BY DEF OpenTransaction, FetchWord, TypeOK, Run, Tracked
  <2>4. Archive(p) \/ ArchiveFails(p) => sync'[p].run = sync[p].run /\ Tracked(p)'
    BY DEF Archive, ArchiveFails, TypeOK, Run, Tracked
  <2> QED
    BY <1>7, <2>1, <2>2, <2>3, <2>4
<1>8. BeginRun(p) => ~Gone(p)
  BY <1>1, <1>2
<1> QED
  BY <1>1, <1>2, <1>3, <1>5, <1>6, <1>7, <1>8
  DEF ProcessStep, SyncStep, Crash, BeginFails, Complete, FailRun, Outcome

(* What is true in both kinds of other steps.                              *)
LEMMA Elsewhere ==
  ASSUME TypeOK, DropLock \/ (\E l \in Lists : Edit(l)) \/ UNCHANGED vars
  PROVE  /\ UNCHANGED <<missed, database, tracking, sync>>
         /\ drops' = 0 => drops = 0 /\ lock' = lock
<1>1. CASE DropLock
  BY <1>1 DEF TypeOK, DropLock, database, tracking
<1>2. ASSUME NEW l \in Lists, Edit(l)
      PROVE  UNCHANGED <<missed, database, tracking, sync, drops, lock>>
  BY <1>2 DEF Edit, faults
<1>3. CASE UNCHANGED vars
  BY <1>3 DEF vars, faults
<1> QED
  BY <1>1, <1>2, <1>3

LEMMA AloneStep ==
  ASSUME ConstantsOK, SyncInv, [Next]_vars
  PROVE  AloneWithLock'
<1> USE DEF SyncInv
<1>1. ASSUME NEW p \in Procs, ProcessStep(p), drops' = 0, NEW q \in Procs, Active(q)'
      PROVE  lock' = q
  <2>1. drops = 0
    BY <1>1, OthersKept
  <2>2. q = p
    BY <1>1, <2>1, OthersKept, OthersIdle DEF Active
  <2>3. ~Gone(p)
    BY <1>1, <2>2 DEF Gone, Idle, Active, TypeOK
  <2> QED
    BY <1>1, <2>1, <2>2, <2>3, Writers DEF AloneWithLock
<1>2. ASSUME DropLock \/ (\E l \in Lists : Edit(l)) \/ UNCHANGED vars
      PROVE  AloneWithLock'
  BY <1>2, Elsewhere DEF AloneWithLock, Active
<1> QED
  BY <1>1, <1>2 DEF AloneWithLock, Next, ProcessStep

LEMMA RunOpenStep ==
  ASSUME ConstantsOK, SyncInv, [Next]_vars
  PROVE  RunOpen'
<1> USE DEF SyncInv
<1>1. ASSUME NEW p \in Procs, ProcessStep(p)
      PROVE  RunOpen'
  <2>1. /\ DOMAIN runs \subseteq DOMAIN runs'
        /\ \A r \in DOMAIN runs' : runs'[r] = "running" => r = Len(runs')
    <3>1. CASE BeginRun(p)
      BY <3>1, RunBegun DEF BeginRun, TypeOK
    <3>2. ASSUME NEW s \in {"succeeded", "failed"}, Outcome(p, s)
          PROVE  /\ DOMAIN runs \subseteq DOMAIN runs'
                 /\ \A r \in DOMAIN runs' : runs'[r] = "running" => r = Len(runs')
      <4>1. sync[p].run \in DOMAIN runs
        BY <3>2 DEF RunOpen, Tracked, Outcome
      <4>2. runs' = runs \/ runs' = [runs EXCEPT ![sync[p].run] = s]
        BY <3>2 DEF Outcome
      <4> QED
        BY <4>1, <4>2, RunClosed DEF RunOpen, TypeOK, Status
    <3> QED
      BY <1>1, <3>1, <3>2, Writers DEF RunOpen, Complete, FailRun
  <2>2. ASSUME NEW q \in Procs
        PROVE  IF Tracked(q)' THEN sync'[q].run \in DOMAIN runs' ELSE sync'[q].run = 0
    <3>1. CASE q # p
      BY <1>1, <2>1, <3>1, OthersKept DEF RunOpen, Tracked
    <3>2. CASE q = p
      <4>1. BeginRun(p) => Len(runs) + 1 \in DOMAIN runs'
        BY RunBegun DEF BeginRun, TypeOK
      <4> QED
        BY <1>1, <2>1, <3>2, <4>1, RunField DEF RunOpen
    <3> QED
      BY <3>1, <3>2
  <2>3. ASSUME drops' = 0, NEW q \in Procs, Tracked(q)'
        PROVE  runs'[sync'[q].run] = "running"
    <3>1. drops = 0 /\ q = p
      BY <1>1, <2>3, OthersKept, OthersIdle DEF Tracked, Active
    <3>2. CASE BeginRun(p) /\ sync'[p].run = Len(runs) + 1
      BY <3>1, <3>2, RunBegun DEF BeginRun, TypeOK
    <3> QED
      BY <1>1, <2>3, <3>1, <3>2, RunField DEF RunOpen
  <2> QED
    BY <2>1, <2>2, <2>3 DEF RunOpen
<1>2. ASSUME DropLock \/ (\E l \in Lists : Edit(l)) \/ UNCHANGED vars
      PROVE  RunOpen'
  BY <1>2, Elsewhere DEF RunOpen, Tracked, tracking
<1> QED
  BY <1>1, <1>2 DEF Next, ProcessStep

(* Recording for the newest run keeps what the newest runs have kept.      *)
LEMMA NewestRecorded ==
  ASSUME NEW n \in Nat, NEW k \in Nat, NEW rec \in SUBSET Nat
  PROVE  {r \in rec : r >= n - k} \cup {n} = {r \in rec \cup {n} : r >= n - k}
<1>1. n >= n - k
  OBVIOUS
<1> QED
  BY <1>1, Zenon

LEMMA PayloadsStep ==
  ASSUME ConstantsOK, SyncInv, [Next]_vars
  PROVE  PayloadsKept'
<1> USE DEF SyncInv
<1>1. ASSUME NEW p \in Procs, ProcessStep(p), drops' = 0
      PROVE  payloads' = {r \in recorded' : r >= Len(runs') - RunsKept}
  <2>1. /\ drops = 0 /\ payloads = {r \in recorded : r >= Len(runs) - RunsKept}
        /\ Len(runs) \in Nat /\ RunsKept \in Nat /\ recorded \subseteq Nat
    BY <1>1, OthersKept, LenProperties DEF PayloadsKept, TypeOK, ConstantsOK
  <2>2. CASE BeginRun(p)
    <3>1. Len(runs') = Len(runs) + 1
      BY <2>2, RunBegun DEF BeginRun, TypeOK
    <3> QED
      BY <2>1, <2>2, <3>1 DEF BeginRun, Pruned
  <2>3. ASSUME NEW s \in {"succeeded", "failed"}, Outcome(p, s)
        PROVE  payloads' = {r \in recorded' : r >= Len(runs') - RunsKept}
    <3>1. Len(runs') = Len(runs)
      BY <2>3, RunClosed DEF Outcome, TypeOK, RunOpen, Tracked, Status
    <3> QED
      BY <2>1, <2>3, <3>1 DEF Outcome
  <2>4. CASE Record(p) /\ Tracked(p)
    <3>1. sync[p].run = Len(runs)
      BY <2>1, <2>4 DEF RunOpen
    <3> QED
      <4>1. payloads' = payloads \cup {Len(runs)} /\ recorded' = recorded \cup {Len(runs)}
            /\ Len(runs') = Len(runs)
        BY <2>4, <3>1, Zenon DEF Record
      <4>2. {r \in recorded : r >= Len(runs) - RunsKept} \cup {Len(runs)}
              = {r \in recorded \cup {Len(runs)} : r >= Len(runs) - RunsKept}
        BY <2>1, NewestRecorded
      <4> QED
        BY <2>1, <4>1, <4>2, Zenon
  <2> QED
    BY <1>1, <2>1, <2>2, <2>3, <2>4, Writers DEF Complete, FailRun
<1>2. ASSUME DropLock \/ (\E l \in Lists : Edit(l)) \/ UNCHANGED vars
      PROVE  PayloadsKept'
  BY <1>2, Elsewhere DEF PayloadsKept, tracking
<1> QED
  BY <1>1, <1>2 DEF PayloadsKept, Next, ProcessStep

-----------------------------------------------------------------------------
(* The import.                                                             *)

(* What a process is importing was just fetched, or is what it was.  Its   *)
(* listing comes from get_lists and stays until its run ends.              *)
Imports == {"lists", "fetched", "import", "end"}

LEMMA ImportField ==
  ASSUME TypeOK, NEW p \in Procs, Unlisted(p), ProcessStep(p)
  PROVE  /\ \/ ~InAList(p)'
            \/ \E l \in DOMAIN remote : sync'[p].list = l /\ sync'[p].words \in {remote[l], {}}
            \/ InAList(p) /\ sync'[p].list = sync[p].list /\ sync'[p].words = sync[p].words
         /\ \/ sync'[p].listing = {}
            \/ /\ sync'[p].listing = sync[p].listing /\ sync'[p].pc \in Imports
               /\ Listed(p)' => Listed(p)
            \/ GetLists(p)
<1> DEFINE Fetched == \E l \in DOMAIN remote : sync'[p].list = l /\ sync'[p].words \in {remote[l], {}}
           Same == InAList(p) /\ sync'[p].list = sync[p].list /\ sync'[p].words = sync[p].words
           Kept == \/ sync'[p].listing = {}
                   \/ /\ sync'[p].listing = sync[p].listing /\ sync'[p].pc \in Imports
                      /\ Listed(p)' => Listed(p)
<1>1. BeginRun(p) => ~InAList(p)' /\ Kept
  BY DEF BeginRun, InAList, TypeOK, Run, Modes, Unlisted
<1>2. Gone(p) => ~InAList(p)' /\ Kept
  BY DEF Gone, Idle, InAList, TypeOK, Listed, Imports
<1>3. ASSUME NEW mode \in Modes, NEW l \in Lists, Acquire(p, mode, l)
      PROVE  ~InAList(p)' /\ Kept
  BY <1>3 DEF Acquire, Idle, InAList, TypeOK, Listed, Imports
<1>4. ASSUME NEW f, NEW b, NextList(p, f, b), InAList(p)
      PROVE  ~InAList(p)' /\ Kept
  BY <1>4 DEF NextList, TypeOK, Run, InAList, Listed, Imports
<1>5. CommitList(p) \/ FailList(p) => ~InAList(p)' /\ Kept
  BY <1>4 DEF CommitList, FailList, InAList
<1>6. ASSUME NEW l \in Lists, GetList(p, l)
      PROVE  Fetched /\ Kept
  BY <1>6 DEF GetList, TypeOK, Listed, Imports
<1>7. ASSUME NEW l \in Lists, GetListFails(p, l)
      PROVE  ~InAList(p)' /\ Kept
  BY <1>7 DEF GetListFails, TypeOK, Run, InAList, Listed, Imports
<1>8. GetLists(p) => ~InAList(p)'
  BY ListsField DEF InAList
<1>9. GetListsFails(p) => ~InAList(p)' /\ Kept
  BY DEF GetListsFails, TypeOK, InAList, Listed, Imports
<1>10. OpenTransaction(p) => Same /\ Kept
  BY DEF OpenTransaction, TypeOK, InAList, Listed, Imports
<1>11. FetchWord(p) => Same /\ Kept
  BY DEF FetchWord, TypeOK, InAList, Listed, Imports
<1>12. Archive(p) => ~InAList(p)' /\ Kept
  BY DEF Archive, TypeOK, InAList, Listed, Imports
<1>13. ArchiveFails(p) => ~InAList(p)' /\ Kept
  BY DEF ArchiveFails, TypeOK, InAList, Listed, Imports
<1> QED
  BY <1>1, <1>2, <1>3, <1>5, <1>6, <1>7, <1>8, <1>9, <1>10, <1>11, <1>12, <1>13
  DEF ProcessStep, SyncStep, Crash, BeginFails, Complete, FailRun, Outcome

LEMMA HistoryStep ==
  ASSUME SyncInv, [Next]_vars
  PROVE  /\ History'
         /\ \A l \in Lists : ever[l] \subseteq ever'[l]
         /\ lost \subseteq lost'
<1> USE DEF SyncInv
<1>1. ASSUME NEW p \in Procs, ProcessStep(p)
      PROVE  UNCHANGED <<remote, ever, lost>>
  BY <1>1, OthersKept DEF skritter
<1>2. ASSUME NEW l \in Lists, Edit(l)
      PROVE  History' /\ (\A m \in Lists : ever[m] \subseteq ever'[m]) /\ lost \subseteq lost'
  <2>1. ASSUME NEW ws \in SUBSET Words, UNCHANGED lost,
               remote' = [m \in DOMAIN remote \cup {l} |-> IF m = l THEN ws ELSE remote[m]],
               ever' = [ever EXCEPT ![l] = @ \cup {ws}]
        PROVE  History' /\ (\A m \in Lists : ever[m] \subseteq ever'[m])
    BY <2>1 DEF History, TypeOK
  <2>2. ASSUME UNCHANGED ever, lost' = lost \cup {l},
               remote' = [m \in DOMAIN remote \ {l} |-> remote[m]]
        PROVE  History'
    BY <2>2 DEF History
  <2> QED
    BY <1>2, <2>1, <2>2 DEF Edit
<1>3. ASSUME DropLock \/ UNCHANGED vars
      PROVE  UNCHANGED <<remote, ever, lost>>
  BY <1>3 DEF DropLock, vars, skritter
<1> QED
  BY <1>1, <1>2, <1>3 DEF Next, ProcessStep, History

LEMMA WordsHadStep ==
  ASSUME SyncInv, [Next]_vars
  PROVE  WordsHad'
<1> USE DEF SyncInv
<1>1. ASSUME NEW p \in Procs, ProcessStep(p), NEW q \in Procs, InAList(q)'
      PROVE  sync'[q].list \in Lists /\ sync'[q].words \in ever'[sync'[q].list] \cup {{}}
  <2>1. UNCHANGED <<remote, ever, lost>>
    BY <1>1, OthersKept DEF skritter
  <2>2. CASE q = p
    <3>1. \A l \in DOMAIN remote : l \in Lists /\ remote[l] \in ever[l]
      BY DEF History, TypeOK
    <3> QED
      BY <1>1, <2>1, <2>2, <3>1, ImportField DEF WordsHad, ListingMade
  <2>3. CASE q # p
    BY <1>1, <2>1, <2>3, OthersKept DEF WordsHad, InAList
  <2> QED
    BY <2>2, <2>3
<1>2. ASSUME DropLock \/ (\E l \in Lists : Edit(l)) \/ UNCHANGED vars
      PROVE  WordsHad'
  BY <1>2, Elsewhere, HistoryStep DEF WordsHad, InAList
<1> QED
  BY <1>1, <1>2 DEF WordsHad, Next, ProcessStep

(* A listing that is complete and not torn has all that Skritter has.      *)
LEMMA WholeListing ==
  ASSUME SyncInv, NEW p \in Procs, GetLists(p), Listed(p)'
  PROVE  sync'[p].listing # {} => Lists \ sync'[p].listing \subseteq lost \cup missed'
<1> USE DEF SyncInv
<1>1. PICK last \in BOOLEAN : \E page \in Pages(p, last) : Given(p, last, page)
  BY ResponseGiven
<1>2. PICK page \in Pages(p, last) : Given(p, last, page)
  BY <1>1
<1>3. sync[p] \in Run
  BY DEF TypeOK
<1>4. /\ sync'[p].listing = sync[p].listing \cup page
      /\ sync'[p].pc = IF last THEN "lists" ELSE "paging"
      /\ missed' = IF last /\ Torn(p, page) /\ sync[p].listing \cup page # {}
                   THEN missed \cup (DOMAIN remote \ (sync[p].listing \cup page)) ELSE missed
  BY <1>2, <1>3 DEF Given, Run
<1>5. last
  BY <1>4 DEF Listed
<1>6. sync[p].pc \in {"listing", "paging"} /\ Lists \ DOMAIN remote \subseteq lost
  BY DEF GetLists, History
<1>7. CASE Torn(p, page)
  BY <1>5, <1>6, <1>7, <1>4
<1>8. CASE ~Torn(p, page)
  <2>1. Undisturbed(p)
    BY <1>6, <1>8 DEF Torn, Undisturbed
  <2>2. page \in {DOMAIN remote \ sync[p].listing, {}}
    BY <1>2, <1>5, <2>1 DEF Pages
  <2>3. page = {} => sync[p].listing = {}
    BY <1>6, <1>8 DEF Torn, ListingMade, Unlisted
  <2> QED
    BY <1>6, <1>4, <2>2, <2>3
<1> QED
  BY <1>7, <1>8

LEMMA ListingStep ==
  ASSUME SyncInv, [Next]_vars
  PROVE  ListingMade'
<1> USE DEF SyncInv
<1>1. ASSUME NEW p \in Procs, ProcessStep(p), NEW q \in Procs
      PROVE  (Unlisted(q) /\ (Listed(q) => Whole(q)))'
  <2>1. lost' = lost /\ missed \subseteq missed' /\ Unlisted(q) /\ (Listed(q) => Whole(q))
    BY <1>1, OthersKept DEF skritter, ListingMade
  <2>2. CASE q # p
    BY <1>1, <2>1, <2>2, OthersKept DEF Unlisted, Listed, Whole
  <2>3. CASE q = p /\ GetLists(p)
    <3>1. sync'[p].pc \in {"lists", "paging"}
      BY <2>3, ListsField
    <3> QED
      BY <2>1, <2>3, <3>1, WholeListing DEF Unlisted, Whole
  <2>4. CASE q = p /\ ~GetLists(p)
    BY <1>1, <2>1, <2>4, ImportField DEF Unlisted, Listed, Whole, Imports
  <2> QED
    BY <2>2, <2>3, <2>4
<1>2. ASSUME DropLock \/ (\E l \in Lists : Edit(l)) \/ UNCHANGED vars
      PROVE  ListingMade'
  BY <1>2, Elsewhere, HistoryStep DEF ListingMade, Unlisted, Listed, Whole
<1> QED
  BY <1>1, <1>2 DEF ListingMade, Next, ProcessStep

(* NoHalfImport: only CommitList changes the words of a list.              *)
LEMMA NoHalfImportStep ==
  ASSUME SyncInv, [Next]_vars
  PROVE  NoHalfImport'
<1> USE DEF SyncInv
<1>1. ASSUME NEW p \in Procs, ProcessStep(p), NEW l \in Lists
      PROVE  stored'[l].words \in ever'[l] \cup {{}}
  <2>1. ever' = ever
    BY <1>1, OthersKept DEF skritter
  <2>2. CASE CommitList(p)
    <3>1. sync[p].list \in Lists /\ sync[p].words \in ever[sync[p].list] \cup {{}}
      BY <2>2 DEF WordsHad, InAList, CommitList
    <3> QED
      BY <2>1, <2>2, <3>1 DEF CommitList, ImportedList, NoHalfImport, TypeOK
  <2>3. CASE Archive(p)
    BY <2>1, <2>3 DEF Archive, NoHalfImport, TypeOK, Copy
  <2> QED
    BY <1>1, <2>1, <2>2, <2>3, Writers DEF NoHalfImport
<1>2. ASSUME DropLock \/ (\E l \in Lists : Edit(l)) \/ UNCHANGED vars
      PROVE  NoHalfImport'
  BY <1>2, Elsewhere, HistoryStep DEF NoHalfImport, database
<1> QED
  BY <1>1, <1>2 DEF NoHalfImport, Next, ProcessStep

(* ArchivedOnlyIfLostOrMissed: only Archive sets the flag, on what its     *)
(* listing had not.                                                        *)
LEMMA ArchivedStep ==
  ASSUME SyncInv, [Next]_vars
  PROVE  ArchivedOnlyIfLostOrMissed'
<1> USE DEF SyncInv
<1>1. ASSUME NEW p \in Procs, ProcessStep(p), NEW l \in Lists, stored'[l].archived
      PROVE  l \in lost' \cup missed'
  <2>1. lost' = lost /\ missed \subseteq missed'
    BY <1>1, OthersKept DEF skritter
  <2>2. CASE CommitList(p)
    BY <1>1, <2>1, <2>2 DEF CommitList, ImportedList, ArchivedOnlyIfLostOrMissed, TypeOK
  <2>3. CASE Archive(p)
    BY <1>1, <2>1, <2>3 DEF Archive, ArchivedOnlyIfLostOrMissed, ListingMade, Listed, Whole
  <2> QED
    BY <1>1, <2>1, <2>2, <2>3, Writers DEF ArchivedOnlyIfLostOrMissed
<1>2. ASSUME DropLock \/ (\E l \in Lists : Edit(l)) \/ UNCHANGED vars
      PROVE  ArchivedOnlyIfLostOrMissed'
  BY <1>2, Elsewhere, HistoryStep DEF ArchivedOnlyIfLostOrMissed, database
<1> QED
  BY <1>1, <1>2 DEF ArchivedOnlyIfLostOrMissed, Next, ProcessStep

(* What DoneImported says of one process and its lists.                    *)
Done(p) ==
  sync[p].mode = "all" /\ sync[p].listing # {} /\ ~sync[p].failed =>
    /\ InAList(p) \/ sync[p].pc = "lists" =>
         \A l \in sync[p].listing \ sync[p].todo : Available(l)
    /\ sync[p].pc = "end" =>
         \A l \in Lists : IF l \in sync[p].listing THEN Available(l)
                          ELSE stored[l].known => stored[l].archived

LEMMA DoneImportedStep ==
  ASSUME ConstantsOK, SyncInv, [Next]_vars
  PROVE  DoneImported'
<1> USE DEF SyncInv
<1>1. ASSUME NEW p \in Procs, ProcessStep(p), drops' = 0, NEW q \in Procs
      PROVE  Done(q)'
  <2>1. drops = 0 /\ Done(p)
    BY <1>1, OthersKept DEF DoneImported, Done
  <2>2. CASE q # p
    <3>1. sync'[q] = sync[q] /\ ~Active(q)
      BY <1>1, <2>1, <2>2, OthersKept, OthersIdle
    <3> QED
      BY <3>1 DEF Done, Active, InAList
  <2>3. Gone(p) => Done(p)'
    BY DEF Gone, Idle, Done, TypeOK
  <2>4. ASSUME NEW mode \in Modes, NEW l \in Lists, Acquire(p, mode, l)
        PROVE  Done(p)'
    BY <2>4 DEF Acquire, Idle, Done, TypeOK
  <2>5. BeginRun(p) => Done(p)'
    BY DEF BeginRun, Done, InAList, TypeOK, Run, Modes
  <2>6. GetLists(p) => Done(p)'
    BY ListsField DEF Done, InAList
  <2>7. ASSUME NEW l \in Lists, GetList(p, l)
        PROVE  Done(p)'
    BY <2>1, <2>7 DEF GetList, Done, Available, InAList, TypeOK, database
  <2>8. OpenTransaction(p) => Done(p)'
    BY <2>1 DEF OpenTransaction, Done, Available, InAList, TypeOK, database
  <2>9. FetchWord(p) => Done(p)'
    BY <2>1 DEF FetchWord, Done, Available, InAList, TypeOK, database
  <2>10. GetListsFails(p) \/ FailList(p) \/ ArchiveFails(p) \/ (\E l \in Lists : GetListFails(p, l))
           => Done(p)'
    <3>1. GetListsFails(p) => sync'[p].failed
      BY DEF GetListsFails, TypeOK
    <3>2. FailList(p) => sync'[p].failed
      BY DEF FailList, NextList, TypeOK
    <3>3. ArchiveFails(p) => sync'[p].failed
      BY DEF ArchiveFails, TypeOK
    <3>4. \A l \in Lists : GetListFails(p, l) => sync'[p].failed
      BY DEF GetListFails, TypeOK
    <3> QED
      BY <3>1, <3>2, <3>3, <3>4 DEF Done
  <2>11. ASSUME CommitList(p)
         PROVE  Done(p)'
    <3>1. /\ sync'[p].mode = sync[p].mode /\ sync'[p].listing = sync[p].listing
          /\ sync'[p].failed = sync[p].failed
          /\ sync[p].todo \ {sync[p].list} \subseteq sync'[p].todo
          /\ sync[p].mode = "all" => sync'[p].pc = "lists"
      BY <2>11 DEF CommitList, NextList, Left, TypeOK
    <3>2. \A l \in Lists : Available(l)' <=> Available(l) \/ l = sync[p].list
      BY <2>11 DEF CommitList, ImportedList, Available, TypeOK, WordsHad, InAList
    <3>3. sync[p].listing \subseteq Lists
      BY DEF TypeOK, Run
    <3> QED
      BY <2>1, <2>11, <3>1, <3>2, <3>3 DEF Done, CommitList, InAList
  <2>12. ASSUME Archive(p)
         PROVE  Done(p)'
    <3>1. /\ sync'[p].mode = sync[p].mode /\ sync'[p].listing = sync[p].listing
          /\ sync'[p].failed = sync[p].failed /\ sync'[p].pc = "end"
      BY <2>12 DEF Archive, TypeOK
    <3>2. ASSUME sync[p].listing # {}, ~sync[p].failed, NEW l \in Lists
          PROVE  IF l \in sync[p].listing THEN Available(l)'
                 ELSE stored'[l].known => stored'[l].archived
      BY <2>1, <2>12, <3>2 DEF Archive, Available, Done, TypeOK, Copy
    <3> QED
      BY <3>1, <3>2 DEF Done, InAList
  <2> QED
    BY <1>1, <2>2, <2>3, <2>4, <2>5, <2>6, <2>7, <2>8, <2>9, <2>10, <2>11, <2>12
    DEF ProcessStep, SyncStep, Crash, BeginFails, Complete, FailRun, Outcome
<1>2. ASSUME DropLock \/ (\E l \in Lists : Edit(l)) \/ UNCHANGED vars
      PROVE  DoneImported'
  BY <1>2, Elsewhere DEF DoneImported, Available, InAList, database
<1> QED
  BY <1>1, <1>2 DEF DoneImported, Done, Next, ProcessStep

-----------------------------------------------------------------------------
(* The theorems.                                                           *)

LEMMA SyncInvInit == ConstantsOK /\ Init => SyncInv
<1> SUFFICES ASSUME ConstantsOK, Init
             PROVE  SyncInv
  OBVIOUS
<1>1. TypeOK
  BY TypeInit
<1>2. AloneWithLock /\ RunOpen /\ PayloadsKept
  BY DEF Init, Idle, AloneWithLock, RunOpen, PayloadsKept, Active, Tracked
<1>3. History /\ WordsHad /\ ListingMade
  BY DEF Init, Idle, History, WordsHad, ListingMade, Unlisted, Listed, InAList
<1>4. DoneImported /\ NoHalfImport /\ ArchivedOnlyIfLostOrMissed
  BY DEF Init, Idle, DoneImported, NoHalfImport, ArchivedOnlyIfLostOrMissed
<1> QED
  BY <1>1, <1>2, <1>3, <1>4 DEF SyncInv

LEMMA SyncInvStep == ConstantsOK /\ SyncInv /\ [Next]_vars => SyncInv'
<1> SUFFICES ASSUME ConstantsOK, SyncInv, [Next]_vars
             PROVE  SyncInv'
  OBVIOUS
<1>1. TypeOK'
  BY TypeStep DEF SyncInv
<1> QED
  BY <1>1, AloneStep, RunOpenStep, PayloadsStep, HistoryStep, WordsHadStep, ListingStep,
     DoneImportedStep, NoHalfImportStep, ArchivedStep
  DEF SyncInv

(* The inductive invariant holds in every reachable state.                 *)
THEOREM SyncInvariant == Spec => []SyncInv
BY ConstantsOK, SyncInvInit, SyncInvStep, PTL DEF Spec

(* skritter_sync.py, tracking: the newest row alone may be running, a live *)
(* sync's own row is, and the payloads of the newest runs are kept.        *)
THEOREM RunsAlwaysTellTheTruth == Spec => []RunsTellTheTruth
<1>1. SyncInv => RunsTellTheTruth
  BY DEF SyncInv, RunOpen, PayloadsKept, RunsTellTheTruth, Tracked
<1> QED
  BY <1>1, SyncInvariant, PTL

(* A list's words are always a set that Skritter had for it.               *)
THEOREM NeverAHalfImport == Spec => []NoHalfImport
<1>1. SyncInv => NoHalfImport
  BY DEF SyncInv
<1> QED
  BY <1>1, SyncInvariant, PTL

(* A list is archived only if Skritter really lacked it at some time, or   *)
(* left it out of a listing in several responses that was torn.            *)
THEOREM ArchivedOnlyWhenLostOrMissed == Spec => []ArchivedOnlyIfLostOrMissed
<1>1. SyncInv => ArchivedOnlyIfLostOrMissed
  BY DEF SyncInv
<1> QED
  BY <1>1, SyncInvariant, PTL

(* A full sync reported as succeeded left the lists as its listing said.   *)
(* Only Complete writes "succeeded", and only of its own run.              *)
THEOREM SuccessMirrors == Spec => SuccessMirrorsListing
<1> DEFINE Mirrored == \A p \in Procs :
             /\ drops = 0
             /\ sync[p].run \in DOMAIN runs
             /\ runs[sync[p].run] # runs'[sync[p].run]
             /\ runs'[sync[p].run] = "succeeded"
             /\ sync[p].mode = "all" /\ sync[p].listing # {}
             => \A l \in Lists :
                  IF l \in sync[p].listing
                  THEN stored[l].known /\ ~stored[l].archived
                  ELSE stored[l].known => stored[l].archived
<1>1. ConstantsOK /\ SyncInv /\ [Next]_vars => [Mirrored]_runs
  <2> SUFFICES ASSUME ConstantsOK, SyncInv, [Next]_vars, runs' # runs, NEW p \in Procs,
                      drops = 0, sync[p].run \in DOMAIN runs,
                      runs[sync[p].run] # runs'[sync[p].run],
                      runs'[sync[p].run] = "succeeded",
                      sync[p].mode = "all", sync[p].listing # {}
               PROVE  \A l \in Lists : IF l \in sync[p].listing THEN Available(l)
                                       ELSE stored[l].known => stored[l].archived
    BY DEF Available
  <2>1. PICK q \in Procs : ProcessStep(q)
    BY Elsewhere DEF Next, ProcessStep, SyncInv, tracking
  <2>2. Active(p)
    BY DEF SyncInv, RunOpen, Active, Tracked, TypeOK
  <2>3. q = p
    BY <2>1, <2>2, OthersIdle DEF SyncInv
  <2>4. CASE BeginRun(p)
    BY <2>4, LenProperties DEF BeginRun, SyncInv, RunOpen, Tracked, TypeOK
  <2>5. CASE FailRun(p)
    BY <2>5 DEF FailRun, Outcome, SyncInv, TypeOK
  <2>6. CASE Complete(p)
    BY <2>6 DEF Complete, Outcome, SyncInv, DoneImported
  <2> QED
    BY <2>1, <2>3, <2>4, <2>5, <2>6, Writers DEF SyncInv
<1> QED
  BY <1>1, ConstantsOK, SyncInvariant, PTL DEF Spec, SuccessMirrorsListing
=============================================================================
