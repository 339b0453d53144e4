-------------------------- MODULE VocabularyWords --------------------------
(***************************************************************************)
(* How the words of a generation request are found and frozen, while other *)
(* requests insert the same custom words, the sync changes words and lists, *)
(* lists are hidden, and workers fill in the readings of custom words.     *)
(*                                                                         *)
(* Each client creates one request, in one READ COMMITTED transaction: a   *)
(* custom word that is not stored is inserted, and until the transaction   *)
(* ends a second insert of it waits.  Skritter's words have positive ids;  *)
(* the custom word w, of which the unique index allows one, has the id -w. *)
(* There is one list; a word's reading stands for its definition as well.  *)
(***************************************************************************)
EXTENDS Integers, FiniteSets, SequencesExt

CONSTANTS Clients,      \* requests being created
          Workers,      \* generation workers
          SkritterIds,  \* ids of Skritter's words: positive numbers
          Writings,     \* what words are written with: positive numbers
          FirstItems,   \* what Skritter's words may be written with at first
          MaxWords,     \* bound on target_vocabulary_count
          MaxEdits      \* bound on changes by the sync and by manage-lists

Nobody == "nobody"

ASSUME IdsAssumption == /\ SkritterIds \subseteq Nat \ {0} /\ IsFiniteSet(SkritterIds)
                        /\ Writings \subseteq Nat \ {0}
                        /\ {"none", "stored"} \cap Clients = {}
                        /\ Nobody \notin Clients \cup Workers
ASSUME FirstItemsAssumption == FirstItems \subseteq [SkritterIds -> {0} \cup Writings]
ASSUME MaxWordsAssumption == MaxWords \in Nat

VARIABLES item,    \* the writing of each Skritter row, 0 if there is none
          custom,  \* each custom row: none, stored, or its uncommitted inserter
          reading, \* the worker whose reading each custom row has, or Nobody
          linked,  \* the list's Skritter rows
          list,    \* the list's flags
          client,  \* the requests
          worker,  \* the workers
          edits,   \* changes made so far
          renamed  \* history: Skritter rows whose writing has changed

words == <<item, linked, list, edits, renamed>>
vars == <<item, custom, reading, linked, list, client, worker, edits, renamed>>

Entry == [id : Int, writing : Writings]
Requests == {r \in [useList : BOOLEAN, words : UNION {[1 .. n -> Writings] : n \in 0 .. MaxWords},
                    target : 1 .. MaxWords] :
               /\ IsInjective(r.words)            \* normalize_custom_words
               /\ r.useList \/ r.words # <<>>     \* require_a_vocabulary_source
               /\ Len(r.words) <= r.target}

Fresh == [pc |-> "idle", useList |-> FALSE, target |-> 1, words |-> <<>>, found |-> <<>>]
NotWorking == [request |-> Nobody, blank |-> {}, plan |-> {}]

Init == /\ item \in FirstItems
        /\ linked = {k \in SkritterIds : item[k] # 0}
        /\ custom = [w \in Writings |-> "none"]
        /\ reading = [w \in Writings |-> Nobody]
        /\ list = [archived |-> FALSE, hidden |-> FALSE]
        /\ client = [c \in Clients |-> Fresh]
        /\ worker = [v \in Workers |-> NotWorking]
        /\ edits = 0 /\ renamed = {}

-----------------------------------------------------------------------------
(* Creating a request *)

Available == ~list.archived /\ ~list.hidden

Become(c, pc) == client' = [client EXCEPT ![c].pc = pc]

(* The request is answered with an error or has its story: its words stay  *)
(* what they were, and are not kept here.                                  *)
Over(c, pc) == client' = [client EXCEPT ![c] = [Fresh EXCEPT !.pc = pc]]

(* The transaction's uncommitted custom words become stored, or go. *)
Settled(c, as) == [w \in Writings |-> IF custom[w] = c THEN as ELSE custom[w]]

(* Mutant: an error leaves the session and its transaction open. *)
RolledBackNot(c) == UNCHANGED custom

RolledBack(c) == custom' = Settled(c, "none")

(* The request is validated and the list it names must be available now. *)
Begin(c) ==
  /\ client[c].pc = "idle"
  /\ \E r \in Requests :
       \/ r.useList /\ ~Available /\ Over(c, "refused")
       \/ /\ r.useList => Available
          /\ client' = [client EXCEPT ![c] =
               [pc |-> "looking", useList |-> r.useList, target |-> r.target,
                words |-> r.words, found |-> <<>>]]
  /\ UNCHANGED <<words, custom, reading, worker>>

Word(c) == client[c].words[Len(client[c].found) + 1]
Resolved(c) == Len(client[c].found) = Len(client[c].words)

(* _find_by_writing: a Skritter row first, the oldest of them; 0 if none.  *)
(* A custom row is seen once stored, or by the transaction that inserted it. *)
Find(c, w, rows) ==
  LET skritter == {k \in SkritterIds : item[k] = w} IN
  CASE skritter # {} -> Min(skritter)
    [] skritter = {} /\ rows[w] \in {"stored", c} -> -w
    [] OTHER -> 0

(* The row as the session holds it: one it has loaded is not read again. *)
Loaded(c, id, w) ==
  LET same == {i \in 1 .. Len(client[c].found) : client[c].found[i].id = id} IN
  IF same = {} THEN [id |-> id, writing |-> w] ELSE client[c].found[Min(same)]

Take(c, id) == client' = [client EXCEPT ![c].pc = "looking",
                                        ![c].found = Append(@, Loaded(c, id, Word(c)))]

Look(c) == /\ client[c].pc = "looking" /\ ~Resolved(c)
           /\ LET id == Find(c, Word(c), custom) IN
              IF id = 0 THEN Become(c, "inserting") ELSE Take(c, id)
           /\ UNCHANGED <<words, custom, reading, worker>>

WaitsFor(c) == {d \in Clients \ {c} : client[c].pc = "inserting" /\ custom[Word(c)] = d}

(* Mutant: the word is not looked up again after the insert did nothing. *)
FindInserted(c, rows) == IF custom[Word(c)] = "none" THEN -Word(c) ELSE 0

(* After the insert, the look-up is repeated. *)
FindAgain(c, rows) == Find(c, Word(c), rows)

(* The insert does nothing if the custom row is there; then look again. *)
Insert(c) ==
  /\ client[c].pc = "inserting" /\ WaitsFor(c) = {}
  /\ custom' = [custom EXCEPT ![Word(c)] = IF @ = "none" THEN c ELSE @]
  /\ LET id == FindAgain(c, custom') IN
     IF id = 0 THEN Become(c, "unresolved") ELSE Take(c, id)
  /\ UNCHANGED <<words, reading, worker>>

(* Mutant: the list may repeat the custom words. *)
CandidatesAll(c) == {k \in linked : item[k] # 0}

(* The list's words that are not written like a custom word of the request. *)
Candidates(c) ==
  {k \in linked : \A i \in 1 .. Len(client[c].found) : client[c].found[i].writing # item[k]}

(* select_vocabulary: the custom words first, then a sample of the list.   *)
(* Its order is random, and of no consequence: here it is that of the ids. *)
Select(c) ==
  LET r == client[c]
      room == IF r.useList THEN r.target - Len(r.found) ELSE 0
      size == Min({room, Cardinality(Candidates(c))}) IN
  /\ r.pc = "looking" /\ Resolved(c)
  /\ \E sample \in [1 .. size -> Candidates(c)] :
       /\ \A i, j \in 1 .. size : i < j => sample[i] < sample[j]
       /\ LET all == r.found \o [i \in 1 .. size |-> Loaded(c, sample[i], item[sample[i]])] IN
          \/ all = <<>> /\ Over(c, "refused") /\ RolledBack(c)
          \/ /\ all # <<>> /\ UNCHANGED custom
             /\ client' = [client EXCEPT ![c].found = all, ![c].pc = "chosen"]
  /\ UNCHANGED <<words, reading, worker>>

(* The queue has room: the request is committed with its words. *)
Commit(c) == /\ client[c].pc = "chosen"
             /\ Become(c, "queued") /\ custom' = Settled(c, "stored")
             /\ UNCHANGED <<words, reading, worker>>

(* GenerationQueueFullError: 429, and the session is closed. *)
QueueFull(c) == /\ client[c].pc = "chosen"
                /\ Over(c, "refused") /\ RolledBack(c)
                /\ UNCHANGED <<words, reading, worker>>

(* PostgreSQL breaks a circle of waiting inserts: one request gets a 500. *)
Deadlock(c) == /\ \E d \in WaitsFor(c) : c \in WaitsFor(d)
               /\ Over(c, "failed") /\ RolledBack(c)
               /\ UNCHANGED <<words, reading, worker>>

-----------------------------------------------------------------------------
(* The sync and the manage-lists command *)

Edit == edits < MaxEdits /\ edits' = edits + 1 /\ UNCHANGED <<custom, reading, client, worker>>

(* ensure_vocab and link_vocab_to_list: a new word, or its latest writing. *)
SyncWord(k, w) == /\ Edit
                  /\ item' = [item EXCEPT ![k] = w]
                  /\ linked' = linked \cup {k}
                  /\ renamed' = IF item[k] \in {0, w} THEN renamed ELSE renamed \cup {k}
                  /\ UNCHANGED list

(* unlink_vocab_not_in *)
UnlinkWord(k) == /\ Edit /\ k \in linked
                 /\ linked' = linked \ {k}
                 /\ UNCHANGED <<item, list, renamed>>

(* archive_lists_not_in, ensure_list *)
SyncList(archived) == /\ Edit /\ list' = [list EXCEPT !.archived = archived]
                      /\ UNCHANGED <<item, linked, renamed>>

(* manage-lists hide, show *)
SetHidden(hidden) == /\ Edit /\ list' = [list EXCEPT !.hidden = hidden]
                     /\ UNCHANGED <<item, linked, renamed>>

-----------------------------------------------------------------------------
(* The workers *)

CustomWords(c) == {w \in Writings : \E i \in 1 .. Len(client[c].found) :
                                      client[c].found[i].id = -w}
Distinct(c) == \A i, j \in 1 .. Len(client[c].found) :
                 client[c].found[i].id = client[c].found[j].id => i = j
Blank(c) == {w \in CustomWords(c) : reading[w] = Nobody}

(* Mutant: a reading that is there is replaced by the model's. *)
FillableAll(c) == CustomWords(c)

(* _apply_glossary: the custom words without a reading. *)
Fillable(c) == Blank(c)

(* A worker's story is valid; it reads the words that the glossary names.  *)
ReadWords(v, c) ==
  /\ client[c].pc = "queued" /\ worker[v] = NotWorking
  /\ Become(c, "running")
  /\ \E plan \in SUBSET Fillable(c) :
       worker' = [worker EXCEPT ![v] = [request |-> c, blank |-> Blank(c), plan |-> plan]]
  /\ UNCHANGED <<words, custom, reading>>

(* The commit writes what was read to be empty, whatever it holds by now.  *)
(* The story links each word once: a request that holds a word twice is    *)
(* refused by the primary key, and the worker dies.                        *)
SaveStory(v) ==
  LET c == worker[v].request IN
  /\ worker[v] # NotWorking
  /\ reading' = [w \in Writings |->
                   IF Distinct(c) /\ w \in worker[v].plan THEN v ELSE reading[w]]
  /\ IF Distinct(c) THEN Over(c, "succeeded") ELSE Become(c, "stuck")
  /\ worker' = [worker EXCEPT ![v] = NotWorking]
  /\ UNCHANGED <<words, custom>>

-----------------------------------------------------------------------------
Creating(c) == Look(c) \/ Insert(c) \/ Select(c) \/ Commit(c) \/ QueueFull(c) \/ Deadlock(c)

Editing == \/ \E k \in SkritterIds, w \in Writings : SyncWord(k, w)
           \/ \E k \in SkritterIds : UnlinkWord(k)
           \/ \E flag \in BOOLEAN : SyncList(flag) \/ SetHidden(flag)

Working(v) == SaveStory(v) \/ \E c \in Clients : ReadWords(v, c)

Next == \/ Editing
        \/ \E c \in Clients : Begin(c) \/ Creating(c)
        \/ \E v \in Workers : Working(v)

Spec == Init /\ [][Next]_vars /\ \A c \in Clients : WF_vars(Creating(c))

-----------------------------------------------------------------------------
Stored(c) == client[c].pc \in {"queued", "running", "stuck"}

(* get_or_create_custom_items: every word is resolved, so its RuntimeError *)
(* is unreachable, and an uncommitted row belongs to a request under way.  *)
WordsResolve ==
  /\ item \in [SkritterIds -> {0} \cup Writings] /\ linked \subseteq SkritterIds
  /\ reading \in [Writings -> {Nobody} \cup Workers]
  /\ custom \in [Writings -> {"none", "stored"} \cup Clients]
  /\ \A c \in Clients :
       /\ client[c].pc # "unresolved"
       /\ client[c].found \in Seq(Entry)
       /\ Stored(c) => \A w \in CustomWords(c) : custom[w] = "stored"
  /\ \A w \in Writings : custom[w] \in Clients =>
       client[custom[w]].pc \in {"looking", "inserting", "chosen"}

(* select_vocabulary, get_or_create_custom_items: a stored request has its *)
(* custom words in order and then at most its target of other words, none  *)
(* of them written like a custom word and none twice, unless the sync has  *)
(* renamed one of its words: then a worker may die of it.                  *)
SnapshotsSound ==
  \A c \in Clients : Stored(c) =>
    LET found == client[c].found
        given == Len(client[c].words)
        all == 1 .. Len(found) IN
    /\ Len(found) \in 1 .. client[c].target
    /\ \/ /\ \A i \in 1 .. given : found[i].writing = client[c].words[i]
          /\ \A i \in all, j \in 1 .. given :
               found[i].writing = found[j].writing => i = j
          /\ Distinct(c) /\ client[c].pc # "stuck"
       \/ \E i \in all : found[i].id \in renamed

(* _apply_glossary ("never ... over a value that is already set"): a       *)
(* reading is only replaced by a worker that found none when it looked.    *)
ReadingKept ==
  [][\A w \in Writings : reading'[w] # reading[w] =>
       \E v \in Workers : /\ reading'[w] = v /\ w \in worker[v].blank
                          /\ worker'[v] = NotWorking]_vars

(* GenerationRequestService.create: every request is answered, although    *)
(* inserts of the same words wait for each other.                          *)
CreateEnds ==
  \A c \in Clients : (client[c].pc = "looking") ~>
                       (client[c].pc \in {"refused", "failed", "succeeded"} \/ Stored(c))
=============================================================================
