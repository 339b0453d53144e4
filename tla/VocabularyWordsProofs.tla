------------------------ MODULE VocabularyWordsProofs ------------------------
(***************************************************************************)
(* Every stored request has sound words, and readings are kept, for any    *)
(* number of requests, workers, words and edits.  WordsInv is the          *)
(* inductive invariant: what a request knows of its words while it is      *)
(* created, of which its snapshot is the last.                             *)
(***************************************************************************)
EXTENDS VocabularyWords, FiniteSetTheorems, SequenceTheorems, WellFoundedInduction, TLAPS

Creates == {"looking", "inserting", "chosen"}
Request == [pc : {"idle", "refused", "failed", "succeeded", "queued", "running", "stuck"} \cup Creates,
            useList : BOOLEAN, target : Nat, words : Seq(Writings), found : Seq(Entry)]
Job == [request : {Nobody} \cup Clients, blank : SUBSET Writings, plan : SUBSET Writings]

TypeOK ==
  /\ item \in [SkritterIds -> {0} \cup Writings]
  /\ linked \subseteq {k \in SkritterIds : item[k] # 0}
  /\ reading \in [Writings -> {Nobody} \cup Workers]
  /\ custom \in [Writings -> {"none", "stored"} \cup Clients]
  /\ client \in [Clients -> Request]
  /\ worker \in [Workers -> Job]
  /\ renamed \subseteq SkritterIds

Entries(c) == 1 .. Len(client[c].found)
Given(c)   == 1 .. Len(client[c].words)
Finds(c)   == client[c].pc \in Creates \/ Stored(c)

(* The words asked for are distinct and no more than the target, and no    *)
(* more are found while they are looked up.                                *)
Asked(c) ==
  /\ client[c].target > 0
  /\ Len(client[c].words) <= client[c].target
  /\ \A i, j \in Given(c) : client[c].words[i] = client[c].words[j] => i = j
  /\ client[c].pc = "looking" => Len(client[c].found) <= Len(client[c].words)
  /\ client[c].pc = "inserting" => Len(client[c].found) < Len(client[c].words)
  /\ ~Finds(c) => client[c].found = <<>>

(* An entry is a custom word, or a word of Skritter's as it was, unless    *)
(* that was renamed since.                                                 *)
EntriesTrue(c) == \A i \in Entries(c) :
  LET e == client[c].found[i] IN
  \/ e.id \in SkritterIds /\ (e.id \in renamed \/ item[e.id] = e.writing)
  \/ e.id = -e.writing

(* The custom words of a request are stored, or are its own inserts.       *)
CustomThere(c) == \A i \in Entries(c), w \in Writings :
  client[c].found[i].id = -w =>
    custom[w] = "stored" \/ (custom[w] = c /\ client[c].pc \in Creates)

(* The words found so far are those asked for, then others, none twice.    *)
Sound(c) ==
  /\ \A i \in Entries(c) \cap Given(c) : client[c].found[i].writing = client[c].words[i]
  /\ \A i \in Entries(c), j \in Entries(c) \cap Given(c) :
       client[c].found[i].writing = client[c].found[j].writing => i = j
  /\ Distinct(c)
  /\ client[c].pc # "stuck"

Renamed(c) == \E i \in Entries(c) : client[c].found[i].id \in renamed

Snapshot(c) ==
  /\ Sound(c) \/ Renamed(c)
  /\ client[c].pc = "chosen" \/ Stored(c) =>
       /\ Len(client[c].words) <= Len(client[c].found)
       /\ Len(client[c].found) \in 1 .. client[c].target

ClientInv(c) == Asked(c) /\ EntriesTrue(c) /\ CustomThere(c) /\ Snapshot(c)

InsertedByCreates ==
  \A w \in Writings : custom[w] \in Clients => client[custom[w]].pc \in Creates

(* A worker has a request that is running, which no other worker has.      *)
WorkersApart ==
  /\ \A v \in Workers : worker[v] # NotWorking =>
       /\ worker[v].request \in Clients /\ client[worker[v].request].pc = "running"
       /\ worker[v].plan \subseteq worker[v].blank
  /\ \A u, v \in Workers :
       worker[u] # NotWorking /\ worker[u].request = worker[v].request => u = v

WordsInv == /\ TypeOK /\ (\A c \in Clients : ClientInv(c))
            /\ InsertedByCreates /\ WorkersApart

-----------------------------------------------------------------------------
(* Operators.                                                              *)

LEMMA MinOfSet ==
  ASSUME NEW S, S \subseteq Nat, S # {}
  PROVE  Min(S) \in S /\ \A y \in S : Min(S) <= y
<1>1. PICK x \in S : \A y \in S : ~ (<<y, x>> \in OpToRel(<, Nat))
  BY NatLessThanWellFounded, WFMin, Zenon
<1>2. \A y \in S : ~ (y < x)
  BY <1>1 DEF OpToRel
<1>3. \A y \in S : x <= y
  BY <1>2
<1> QED
  BY <1>3 DEF Min

(* Skritter's words and custom words have different ids.                   *)
LEMMA IdsApart ==
  /\ \A w \in Writings : w \in Int /\ w > 0 /\ -w \in Int /\ -w \notin SkritterIds
  /\ \A w, x \in Writings : -w = -x => w = x
  /\ \A k \in SkritterIds : k \in Int /\ k > 0
  BY IdsAssumption

LEMMA MinOfPair ==
  ASSUME NEW a \in Int, NEW b \in Int
  PROVE  Min({a, b}) \in {a, b} /\ Min({a, b}) <= a /\ Min({a, b}) <= b
<1>1. \E x \in {a, b} : \A y \in {a, b} : x <= y
  OBVIOUS
<1> QED
  BY <1>1 DEF Min

(* _find_by_writing: a row with the writing, stored or one's own.          *)
LEMMA FindOK ==
  ASSUME TypeOK, NEW c \in Clients, NEW w \in Writings, NEW rows
  PROVE  LET id == Find(c, w, rows) IN
         \/ id = 0 /\ rows[w] \notin {"stored", c}
         \/ id \in SkritterIds /\ item[id] = w
         \/ id = -w /\ rows[w] \in {"stored", c}
<1> DEFINE skritter == {k \in SkritterIds : item[k] = w}
<1>1. CASE skritter # {}
  <2>1. Min(skritter) \in skritter
    BY <1>1, MinOfSet, IdsAssumption
  <2>2. Find(c, w, rows) = Min(skritter)
    BY <1>1 DEF Find
  <2> QED
    BY <2>1, <2>2
<1>2. CASE skritter = {}
  BY <1>2 DEF Find
<1> QED
  BY <1>1, <1>2

(* The row as the session holds it: an entry that is there, or a new one.  *)
LEMMA LoadedOK ==
  ASSUME TypeOK, NEW c \in Clients, NEW id \in Int, NEW w \in Writings
  PROVE  /\ Loaded(c, id, w) \in Entry /\ Loaded(c, id, w).id = id
         /\ \/ \E i \in Entries(c) : Loaded(c, id, w) = client[c].found[i]
            \/ /\ \A i \in Entries(c) : client[c].found[i].id # id
               /\ Loaded(c, id, w) = [id |-> id, writing |-> w]
<1> DEFINE same == {i \in Entries(c) : client[c].found[i].id = id}
<1>1. client[c].found \in Seq(Entry)
  BY DEF TypeOK, Request
<1>2. /\ Len(client[c].found) \in Nat
      /\ \A i \in Entries(c) : client[c].found[i] \in Entry
  BY <1>1, LenProperties, ElementOfSeq DEF Entries
<1>3. CASE same = {}
  BY <1>3 DEF Loaded, Entry, Entries
<1>4. CASE same # {}
  <2>0. same \subseteq Nat
    BY <1>2 DEF Entries
  <2>1. Min(same) \in same
    <3> HIDE DEF same
    <3> QED
      BY <1>4, <2>0, MinOfSet
  <2>2. Loaded(c, id, w) = client[c].found[Min(same)]
    BY <1>4 DEF Loaded, Entries
  <2> QED
    BY <1>2, <2>1, <2>2
<1> QED
  BY <1>3, <1>4

-----------------------------------------------------------------------------
(* The request of one client changes.                                      *)

(* The custom rows of a client's own transaction, and none of another's.   *)
OwnRows(c) == \A w \in Writings :
  \/ custom'[w] = custom[w]
  \/ custom[w] = "none" /\ custom'[w] = c
  \/ custom[w] = c /\ custom'[w] \in {"none", "stored"}

(* What is stored stays, and other requests keep what they insert.         *)
LEMMA OthersKept ==
  ASSUME WordsInv, NEW c \in Clients, NEW d \in Clients, d # c,
         client'[d] = client[d], UNCHANGED words, OwnRows(c)
  PROVE  ClientInv(d)'
<1>1. ClientInv(d)
  BY DEF WordsInv
<1>2. CustomThere(d)'
  <2> SUFFICES ASSUME NEW i \in Entries(d), NEW w \in Writings, client[d].found[i].id = -w
               PROVE  custom'[w] = "stored" \/ (custom'[w] = d /\ client[d].pc \in Creates)
    BY DEF CustomThere, Entries
  <2>1. custom[w] = "stored" \/ (custom[w] = d /\ client[d].pc \in Creates)
    BY <1>1 DEF ClientInv, CustomThere
  <2> QED
    BY <2>1, IdsAssumption DEF OwnRows
<1>3. Asked(d)' /\ EntriesTrue(d)' /\ Snapshot(d)'
  BY <1>1 DEF ClientInv, Asked, EntriesTrue, Snapshot, Sound, Renamed, Entries, Given,
              Finds, Stored, Distinct, words
<1> QED
  BY <1>2, <1>3 DEF ClientInv

(* A client's step keeps the invariant if it keeps that of its request.    *)
LEMMA ClientStep ==
  ASSUME WordsInv, NEW c \in Clients, NEW r \in Request,
         client' = [client EXCEPT ![c] = r], UNCHANGED <<words, reading>>,
         custom' \in [Writings -> {"none", "stored"} \cup Clients], OwnRows(c),
         \A w \in Writings : custom'[w] = c => r.pc \in Creates,
         ClientInv(c)', worker' \in [Workers -> Job]
  PROVE  TypeOK' /\ (\A d \in Clients : ClientInv(d)') /\ InsertedByCreates'
<1>0. TypeOK /\ InsertedByCreates
  BY DEF WordsInv
<1>1. TypeOK'
  BY <1>0 DEF TypeOK, words
<1>2. ASSUME NEW d \in Clients PROVE ClientInv(d)'
  <2>1. CASE d = c
    BY <2>1
  <2>2. CASE d # c
    <3>1. client'[d] = client[d]
      BY <1>0, <2>2 DEF TypeOK
    <3> QED
      BY <2>2, <3>1, OthersKept
  <2> QED
    BY <2>1, <2>2
<1>3. InsertedByCreates'
  <2> SUFFICES ASSUME NEW w \in Writings, custom'[w] \in Clients
               PROVE  client'[custom'[w]].pc \in Creates
    BY DEF InsertedByCreates
  <2>1. CASE custom'[w] = c
    BY <1>0, <2>1 DEF TypeOK
  <2>2. CASE custom'[w] # c
    <3>1. custom'[w] = custom[w]
      BY <2>2, IdsAssumption DEF OwnRows
    <3> QED
      BY <1>0, <2>2, <3>1 DEF TypeOK, InsertedByCreates
  <2> QED
    BY <2>1, <2>2
<1> QED
  BY <1>1, <1>2, <1>3

(* An answered request holds nothing.                                      *)
LEMMA OverInv ==
  ASSUME WordsInv, NEW c \in Clients,
         NEW pc \in {"refused", "failed", "succeeded"}, Over(c, pc)
  PROVE  /\ [Fresh EXCEPT !.pc = pc] \in Request
         /\ client' = [client EXCEPT ![c] = [Fresh EXCEPT !.pc = pc]]
         /\ ClientInv(c)'
<1> DEFINE r == [Fresh EXCEPT !.pc = pc]
<1>0. /\ r.pc = pc /\ r.useList = FALSE /\ r.target = 1 /\ r.words = <<>> /\ r.found = <<>>
      /\ r \in Request
  BY EmptySeq DEF Fresh, Request
<1>1. client' = [client EXCEPT ![c] = r] /\ client'[c] = r
  BY DEF Over, WordsInv, TypeOK
<1>2. Len(client'[c].found) = 0 /\ Len(client'[c].words) = 0
  BY <1>0, <1>1, EmptySeq
<1> HIDE DEF r
<1>3. ClientInv(c)'
  BY <1>0, <1>1, <1>2 DEF ClientInv, Asked, EntriesTrue, CustomThere, Snapshot, Sound, Renamed,
                          Entries, Given, Finds, Stored, Distinct, Creates
<1> QED
  BY <1>0, <1>1, <1>3 DEF r

(* The rows a transaction holds when it ends.                              *)
LEMMA SettledOK ==
  ASSUME WordsInv, NEW c \in Clients, NEW as \in {"none", "stored"},
         custom' = Settled(c, as)
  PROVE  /\ custom' \in [Writings -> {"none", "stored"} \cup Clients]
         /\ OwnRows(c) /\ \A w \in Writings : custom'[w] # c
  BY IdsAssumption DEF WordsInv, TypeOK, Settled, OwnRows

(* The workers have nothing to do with a request that is not running.      *)
LEMMA WorkersKept ==
  ASSUME WordsInv, NEW c \in Clients, NEW r, client' = [client EXCEPT ![c] = r],
         UNCHANGED worker, client[c].pc # "running"
  PROVE  WorkersApart'
  BY DEF WordsInv, WorkersApart, TypeOK

(* A request that is not being created has inserted nothing.             *)
LEMMA IdleHoldsNothing ==
  ASSUME WordsInv, NEW c \in Clients, client[c].pc \notin Creates
  PROVE  \A w \in Writings : custom[w] # c
  BY DEF WordsInv, InsertedByCreates

LEMMA OverStep ==
  ASSUME WordsInv, NEW c \in Clients, client[c].pc # "running",
         NEW pc \in {"refused", "failed", "succeeded"}, Over(c, pc),
         UNCHANGED <<words, reading, worker>>,
         RolledBack(c) \/ (UNCHANGED custom /\ client[c].pc \notin Creates)
  PROVE  WordsInv'
<1>1. /\ custom' \in [Writings -> {"none", "stored"} \cup Clients]
      /\ OwnRows(c) /\ \A w \in Writings : custom'[w] # c
  <2>1. CASE RolledBack(c)
    BY <2>1, SettledOK DEF RolledBack
  <2>2. CASE UNCHANGED custom /\ client[c].pc \notin Creates
    BY <2>2, IdleHoldsNothing DEF OwnRows, WordsInv, TypeOK
  <2> QED
    BY <2>1, <2>2
<1>2. worker' \in [Workers -> Job]
  BY DEF WordsInv, TypeOK
<1> DEFINE r == [Fresh EXCEPT !.pc = pc]
<1>3. r \in Request /\ client' = [client EXCEPT ![c] = r] /\ ClientInv(c)'
  BY OverInv
<1> HIDE DEF r
<1>4. TypeOK' /\ (\A d \in Clients : ClientInv(d)') /\ InsertedByCreates'
  BY <1>1, <1>2, <1>3, ClientStep
<1>5. WorkersApart'
  BY <1>3, WorkersKept
<1> QED
  BY <1>4, <1>5 DEF WordsInv

LEMMA BeginStep ==
  ASSUME WordsInv, NEW c \in Clients, Begin(c)
  PROVE  WordsInv'
<1>0. client[c].pc = "idle" /\ UNCHANGED <<words, custom, reading, worker>>
  BY DEF Begin
<1>1. CASE Over(c, "refused")
  BY <1>0, <1>1, OverStep DEF Creates
<1>2. CASE ~Over(c, "refused")
  <2>1. PICK q \in Requests :
          client' = [client EXCEPT ![c] = [pc |-> "looking", useList |-> q.useList,
                       target |-> q.target, words |-> q.words, found |-> <<>>]]
    BY <1>2 DEF Begin
  <2> DEFINE r == [pc |-> "looking", useList |-> q.useList, target |-> q.target,
                   words |-> q.words, found |-> <<>>]
  <2>2. /\ q.useList \in BOOLEAN /\ q.target \in Nat /\ q.target > 0
        /\ q.words \in Seq(Writings) /\ Len(q.words) <= q.target
        /\ \A i, j \in 1 .. Len(q.words) : q.words[i] = q.words[j] => i = j
    <3>1. q.target \in 1 .. MaxWords /\ IsInjective(q.words) /\ Len(q.words) <= q.target
      BY DEF Requests
    <3>2. PICK n \in 0 .. MaxWords : q.words \in [1 .. n -> Writings]
      BY DEF Requests
    <3>3. n \in Nat /\ Len(q.words) = n /\ DOMAIN q.words = 1 .. n /\ q.words \in Seq(Writings)
      BY <3>2, MaxWordsAssumption
    <3>4. \A i, j \in 1 .. n : q.words[i] = q.words[j] => i = j
      BY <3>1, <3>3 DEF IsInjective
    <3> QED
      BY <3>1, <3>3, <3>4, MaxWordsAssumption DEF Requests
  <2>3. r \in Request
    BY <2>2, EmptySeq DEF Request, Creates
  <2>4. /\ r.pc = "looking" /\ r.target = q.target /\ r.words = q.words
        /\ r.found = <<>> /\ Len(r.found) = 0
    BY EmptySeq
  <2>5. client' = [client EXCEPT ![c] = r] /\ client'[c] = r
    BY <2>1 DEF WordsInv, TypeOK
  <2> HIDE DEF r
  <2>6. ClientInv(c)'
    <3>1. Len(r.words) \in Nat
      BY <2>2, <2>4, LenProperties
    <3> QED
      BY <2>2, <2>4, <2>5, <3>1 DEF ClientInv, Asked, EntriesTrue, CustomThere, Snapshot, Sound,
           Renamed, Entries, Given, Finds, Stored, Distinct, Creates
  <2>7. /\ custom' \in [Writings -> {"none", "stored"} \cup Clients] /\ OwnRows(c)
        /\ \A w \in Writings : custom'[w] # c
    BY <1>0, IdleHoldsNothing DEF OwnRows, WordsInv, TypeOK, Creates
  <2>8. worker' \in [Workers -> Job]
    BY <1>0 DEF WordsInv, TypeOK
  <2>9. TypeOK' /\ (\A d \in Clients : ClientInv(d)') /\ InsertedByCreates'
    BY <1>0, <2>3, <2>5, <2>6, <2>7, <2>8, ClientStep
  <2> QED
    BY <1>0, <2>5, <2>9, WorkersKept DEF WordsInv
<1> QED
  BY <1>1, <1>2

(* The state of a request changes and its words do not.                    *)
LEMMA BecomeOK ==
  ASSUME WordsInv, NEW c \in Clients, Finds(c),
         NEW pc \in {"inserting", "queued", "running", "stuck"}, Become(c, pc)
  PROVE  /\ [client[c] EXCEPT !.pc = pc] \in Request
         /\ client' = [client EXCEPT ![c] = [client[c] EXCEPT !.pc = pc]]
         /\ client'[c] = [client[c] EXCEPT !.pc = pc]
         /\ client'[c].pc = pc /\ client'[c].useList = client[c].useList
         /\ client'[c].target = client[c].target
         /\ client'[c].words = client[c].words /\ client'[c].found = client[c].found
  BY DEF WordsInv, TypeOK, Request, Creates, Become

LEMMA LookMissesStep ==
  ASSUME WordsInv, NEW c \in Clients, Look(c), Become(c, "inserting")
  PROVE  WordsInv'
<1> DEFINE r == [client[c] EXCEPT !.pc = "inserting"]
<1>0. /\ client[c].pc = "looking" /\ ~Resolved(c)
      /\ UNCHANGED <<words, custom, reading, worker>> /\ Finds(c)
  BY DEF Look, Finds, Creates
<1>1. r \in Request /\ client' = [client EXCEPT ![c] = r] /\ r.pc = "inserting"
  BY <1>0, BecomeOK
<1>2. /\ client'[c].pc = "inserting" /\ client'[c].target = client[c].target
      /\ client'[c].words = client[c].words /\ client'[c].found = client[c].found
  BY <1>0, BecomeOK
<1> HIDE DEF r
<1>3. ClientInv(c)
  BY DEF WordsInv
<1>4. Len(client[c].found) \in Nat /\ Len(client[c].words) \in Nat
  BY LenProperties DEF WordsInv, TypeOK, Request
<1>5. ClientInv(c)'
  BY <1>0, <1>2, <1>3, <1>4 DEF ClientInv, Asked, EntriesTrue, CustomThere, Snapshot, Sound,
     Renamed, Entries, Given, Finds, Stored, Distinct, Creates, Resolved, words
<1>6. custom' \in [Writings -> {"none", "stored"} \cup Clients] /\ OwnRows(c)
  BY <1>0 DEF OwnRows, WordsInv, TypeOK
<1>7. worker' \in [Workers -> Job]
  BY <1>0 DEF WordsInv, TypeOK
<1>8. TypeOK' /\ (\A d \in Clients : ClientInv(d)') /\ InsertedByCreates'
  <2>1. r.pc \in Creates
    BY <1>1 DEF Creates
  <2> QED
    BY <1>0, <1>1, <1>5, <1>6, <1>7, <2>1, ClientStep
<1> QED
  BY <1>0, <1>1, <1>8, WorkersKept DEF WordsInv

LEMMA CommitStep ==
  ASSUME WordsInv, NEW c \in Clients, Commit(c)
  PROVE  WordsInv'
<1> DEFINE r == [client[c] EXCEPT !.pc = "queued"]
<1>0. /\ client[c].pc = "chosen" /\ custom' = Settled(c, "stored")
      /\ UNCHANGED <<words, reading, worker>> /\ Finds(c)
  BY DEF Commit, Finds, Creates
<1>1. r \in Request /\ client' = [client EXCEPT ![c] = r]
  BY <1>0, BecomeOK DEF Commit
<1>2. /\ client'[c].pc = "queued" /\ client'[c].target = client[c].target
      /\ client'[c].words = client[c].words /\ client'[c].found = client[c].found
  BY <1>0, BecomeOK DEF Commit
<1> HIDE DEF r
<1>3. ClientInv(c)
  BY DEF WordsInv
<1>4. CustomThere(c)'
  BY <1>0, <1>2, <1>3 DEF ClientInv, CustomThere, Entries, Settled
<1>5. ClientInv(c)'
  BY <1>0, <1>2, <1>3, <1>4 DEF ClientInv, Asked, EntriesTrue, Snapshot, Sound,
     Renamed, Entries, Given, Finds, Stored, Distinct, Creates, words
<1>6. /\ custom' \in [Writings -> {"none", "stored"} \cup Clients]
      /\ OwnRows(c) /\ \A w \in Writings : custom'[w] # c
  BY <1>0, SettledOK
<1>7. worker' \in [Workers -> Job]
  BY <1>0 DEF WordsInv, TypeOK
<1>8. TypeOK' /\ (\A d \in Clients : ClientInv(d)') /\ InsertedByCreates'
  BY <1>0, <1>1, <1>5, <1>6, <1>7, ClientStep
<1> QED
  BY <1>0, <1>1, <1>8, WorkersKept DEF WordsInv

LEMMA QueueFullStep ==
  ASSUME WordsInv, NEW c \in Clients, QueueFull(c)
  PROVE  WordsInv'
  BY OverStep DEF QueueFull

(* A request that waits for another is being created.                      *)
LEMMA DeadlockStep ==
  ASSUME WordsInv, NEW c \in Clients, Deadlock(c)
  PROVE  WordsInv'
  BY OverStep DEF Deadlock, WaitsFor

(* An id found for the next word, and the entry the session has for it.    *)
LEMMA TakeInv ==
  ASSUME WordsInv, NEW c \in Clients, NEW id \in Int,
         client[c].pc \in {"looking", "inserting"},
         Len(client[c].found) < Len(client[c].words),
         \/ id \in SkritterIds /\ item[id] = Word(c)
         \/ id = -Word(c) /\ custom'[Word(c)] \in {"stored", c},
         Take(c, id), UNCHANGED words, OwnRows(c), \A w \in Writings : custom[w] = c => custom'[w] = c,
         custom' \in [Writings -> {"none", "stored"} \cup Clients]
  PROVE  \E r \in Request : /\ client' = [client EXCEPT ![c] = r]
                            /\ r.pc = "looking" /\ ClientInv(c)'
<1> DEFINE n == Len(client[c].found)
           e == Loaded(c, id, Word(c))
           r == [client[c] EXCEPT !.pc = "looking", !.found = Append(client[c].found, e)]
<1>1. client[c] \in Request /\ client[c].found \in Seq(Entry) /\ client[c].words \in Seq(Writings)
      /\ TypeOK /\ ClientInv(c)
  BY DEF WordsInv, TypeOK, Request
<1>2. n \in Nat /\ Len(client[c].words) \in Nat
      /\ \A i \in 1 .. n : client[c].found[i] \in Entry
  BY <1>1, LenProperties, ElementOfSeq
<1>3. Word(c) = client[c].words[n + 1] /\ Word(c) \in Writings /\ n + 1 \in Given(c)
  <2>1. n + 1 \in Given(c)
    BY <1>2 DEF Given
  <2> QED
    BY <1>1, <2>1, ElementOfSeq DEF Word, Given
<1>4. /\ e \in Entry /\ e.id = id
      /\ \/ \E i \in Entries(c) : e = client[c].found[i]
         \/ /\ \A i \in Entries(c) : client[c].found[i].id # id
            /\ e = [id |-> id, writing |-> Word(c)]
  <2>1. PICK w \in Writings : w = Word(c)
    BY <1>3
  <2>2. e = Loaded(c, id, w)
    BY <2>1
  <2> HIDE DEF e
  <2>3. /\ Loaded(c, id, w) \in Entry /\ Loaded(c, id, w).id = id
        /\ \/ \E i \in Entries(c) : Loaded(c, id, w) = client[c].found[i]
           \/ /\ \A i \in Entries(c) : client[c].found[i].id # id
              /\ Loaded(c, id, w) = [id |-> id, writing |-> w]
    BY <1>1, LoadedOK
  <2> QED
    BY <2>1, <2>2, <2>3
<1> HIDE DEF e
<1>5. r \in Request /\ r.pc = "looking" /\ r.words = client[c].words
      /\ r.target = client[c].target /\ r.found = Append(client[c].found, e)
  <2>1. Append(client[c].found, e) \in Seq(Entry)
    BY <1>1, <1>4, AppendProperties
  <2> QED
    BY <1>1, <2>1 DEF Request, Creates
<1>6. client' = [client EXCEPT ![c] = r] /\ client'[c] = r
  BY <1>1 DEF Take, TypeOK, e
<1> HIDE DEF r
<1>7. /\ Len(client'[c].found) = n + 1
      /\ \A i \in 1 .. n : client'[c].found[i] = client[c].found[i]
      /\ client'[c].found[n + 1] = e
  <2>1. \A i \in 1 .. Len(client[c].found) + 1 :
          Append(client[c].found, e)[i] =
            IF i <= Len(client[c].found) THEN client[c].found[i] ELSE e
    BY <1>1, <1>4, AppendProperties
  <2>2. Len(Append(client[c].found, e)) = n + 1
    BY <1>1, <1>4, AppendProperties
  <2> QED
    BY <1>2, <1>5, <1>6, <2>1, <2>2
<1>8. Entries(c) = 1 .. n /\ Entries(c)' = 1 .. n + 1 /\ Given(c)' = Given(c)
      /\ Entries(c)' = Entries(c) \cup {n + 1} /\ Entries(c)' \subseteq Given(c)
      /\ client'[c].words = client[c].words /\ client'[c].pc = "looking"
      /\ client'[c].target = client[c].target
  BY <1>2, <1>5, <1>6, <1>7 DEF Entries, Given
<1>9. id \in SkritterIds \/ id = -Word(c)
  OBVIOUS
<1>10. EntriesTrue(c)'
  <2>1. ASSUME NEW i \in Entries(c)
        PROVE  \/ client[c].found[i].id \in SkritterIds
                  /\ (client[c].found[i].id \in renamed
                      \/ item[client[c].found[i].id] = client[c].found[i].writing)
               \/ client[c].found[i].id = -client[c].found[i].writing
    BY <1>1 DEF ClientInv, EntriesTrue
  <2>2. \/ e.id \in SkritterIds /\ (e.id \in renamed \/ item[e.id] = e.writing)
        \/ e.id = -e.writing
    BY <1>4, <2>1
  <2> QED
    BY <1>7, <1>8, <2>1, <2>2 DEF EntriesTrue, words
<1>11. CustomThere(c)'
  <2> SUFFICES ASSUME NEW i \in Entries(c)', NEW w \in Writings,
                      client'[c].found[i].id = -w
               PROVE  custom'[w] \in {"stored", c}
    BY <1>8 DEF CustomThere, Creates
  <2>1. CASE i \in Entries(c)
    <3>1. custom[w] \in {"stored", c}
      <4>1. CustomThere(c)
        BY <1>1 DEF ClientInv
      <4>2. client'[c].found[i] = client[c].found[i]
        BY <1>7, <1>8, <2>1
      <4>3. client[c].found[i].id = -w
        BY <4>2
      <4> QED
        BY <2>1, <4>1, <4>3 DEF CustomThere
    <3>2. CASE custom[w] = "stored"
      BY <3>2, IdsAssumption DEF OwnRows
    <3>3. CASE custom[w] = c
      BY <3>3
    <3> QED
      BY <3>1, <3>2, <3>3
  <2>2. CASE i = n + 1
    <3>1. id = -w
      BY <1>4, <1>7, <2>2
    <3>2. id \notin SkritterIds
      BY <3>1, IdsAssumption
    <3>3. w = Word(c)
      <4>1. Word(c) \in Int /\ w \in Int /\ -w = -Word(c)
        BY <1>3, <1>9, <3>1, <3>2, IdsAssumption
      <4> QED
        BY <4>1
    <3> QED
      BY <3>2, <3>3
  <2> QED
    BY <1>8, <2>1, <2>2
<1>12. Asked(c)'
  BY <1>1, <1>2, <1>7, <1>8 DEF ClientInv, Asked, Given, Finds, Creates
<1>13. CASE Renamed(c)
  <2>1. Renamed(c)'
    BY <1>7, <1>8, <1>13 DEF Renamed, words
  <2> QED
    BY <1>5, <1>6, <1>8, <1>10, <1>11, <1>12, <2>1 DEF ClientInv, Snapshot, Stored
<1>14. CASE ~Renamed(c)
  <2>1. Sound(c)
    BY <1>1, <1>14 DEF ClientInv, Snapshot
  <2>2. \A i \in Entries(c) : /\ client[c].found[i].writing = client[c].words[i]
                             /\ client[c].words[i] # Word(c)
    <3> SUFFICES ASSUME NEW i \in Entries(c)
                 PROVE  /\ client[c].found[i].writing = client[c].words[i]
                        /\ client[c].words[i] # Word(c)
      OBVIOUS
    <3>1. i \in Given(c) /\ i # n + 1
      BY <1>2, <1>8
    <3>2. client[c].words[i] # client[c].words[n + 1]
      BY <1>1, <1>3, <3>1 DEF ClientInv, Asked
    <3> QED
      BY <1>3, <2>1, <3>1, <3>2 DEF Sound
  <2>3. ASSUME NEW i \in Entries(c) PROVE client[c].found[i].id # id
    <3>1. SUFFICES ASSUME client[c].found[i].id = id PROVE FALSE
      OBVIOUS
    <3>2. \/ id \in SkritterIds /\ item[id] = client[c].found[i].writing
          \/ id = -client[c].found[i].writing
      BY <1>1, <1>14, <3>1 DEF ClientInv, EntriesTrue, Renamed
    <3>3. client[c].found[i].writing \in Writings
      BY <1>2, <1>8 DEF Entry
    <3>4. client[c].found[i].writing # Word(c)
      BY <2>2
    <3>5. CASE id \in SkritterIds
      <4>1. id # -client[c].found[i].writing /\ id # -Word(c)
        BY <1>3, <3>3, <3>5, IdsApart, Zenon
      <4> QED
        BY <3>2, <3>4, <4>1
    <3>6. CASE id \notin SkritterIds
      <4>1. id = -Word(c) /\ id = -client[c].found[i].writing
        BY <3>2, <3>6
      <4>2. Word(c) = client[c].found[i].writing
        BY <1>3, <3>3, <4>1, IdsApart, Zenon
      <4> QED
        BY <3>4, <4>2
    <3> QED
      BY <3>5, <3>6
  <2>4. e = [id |-> id, writing |-> Word(c)]
    BY <1>4, <2>3
  <2>5. \A i \in Entries(c)' : client'[c].found[i].writing = client'[c].words[i]
    <3>1. client'[c].found[n + 1].writing = client'[c].words[n + 1]
      BY <1>3, <1>7, <1>8, <2>4
    <3>2. \A i \in Entries(c) : client'[c].found[i] = client[c].found[i]
      BY <1>7, <1>8
    <3> QED
      BY <1>8, <2>2, <3>1, <3>2
  <2>6. \A i, j \in Entries(c)' : client'[c].words[i] = client'[c].words[j] => i = j
    BY <1>1, <1>8 DEF ClientInv, Asked
  <2>7. Distinct(c)'
    <3> SUFFICES ASSUME NEW i \in Entries(c)', NEW j \in Entries(c)',
                        client'[c].found[i].id = client'[c].found[j].id
                 PROVE  i = j
      BY DEF Distinct, Entries
    <3>1. \A k, m \in Entries(c) : client[c].found[k].id = client[c].found[m].id => k = m
      BY <2>1 DEF Sound, Distinct, Entries
    <3> QED
      BY <1>2, <1>4, <1>7, <1>8, <2>3, <3>1
  <2>8. Sound(c)'
    BY <1>8, <2>5, <2>6, <2>7 DEF Sound
  <2> QED
    BY <1>5, <1>6, <1>8, <1>10, <1>11, <1>12, <2>8 DEF ClientInv, Snapshot, Stored
<1> QED
  BY <1>13, <1>14

(* The next word of a request that has one left.                           *)
LEMMA WordOK ==
  ASSUME WordsInv, NEW c \in Clients,
         (client[c].pc = "looking" /\ ~Resolved(c)) \/ client[c].pc = "inserting"
  PROVE  Len(client[c].found) < Len(client[c].words) /\ Word(c) \in Writings
<1>1. /\ Len(client[c].found) \in Nat /\ Len(client[c].words) \in Nat
      /\ client[c].words \in Seq(Writings)
  BY LenProperties DEF WordsInv, TypeOK, Request
<1>2. Len(client[c].found) < Len(client[c].words)
  BY <1>1 DEF WordsInv, ClientInv, Asked, Resolved
<1>3. Len(client[c].found) + 1 \in 1 .. Len(client[c].words)
  BY <1>1, <1>2
<1> QED
  BY <1>1, <1>2, <1>3, ElementOfSeq DEF Word

(* A word is found, by looking or after the insert.                        *)
LEMMA TakeStep ==
  ASSUME WordsInv, NEW c \in Clients,
         (client[c].pc = "looking" /\ ~Resolved(c)) \/ client[c].pc = "inserting",
         NEW id, id # 0, id = Find(c, Word(c), custom'), Take(c, id),
         OwnRows(c), \A w \in Writings : custom[w] = c => custom'[w] = c,
         custom' \in [Writings -> {"none", "stored"} \cup Clients],
         UNCHANGED <<words, reading, worker>>
  PROVE  WordsInv'
<1>0. Word(c) \in Writings /\ TypeOK
  BY WordOK DEF WordsInv
<1>1. \/ id \in SkritterIds /\ item[id] = Word(c)
      \/ id = -Word(c) /\ custom'[Word(c)] \in {"stored", c}
  <2>1. PICK w \in Writings : w = Word(c)
    BY <1>0
  <2>2. LET x == Find(c, w, custom') IN
        \/ x = 0 /\ custom'[w] \notin {"stored", c}
        \/ x \in SkritterIds /\ item[x] = w
        \/ x = -w /\ custom'[w] \in {"stored", c}
    BY <1>0, FindOK
  <2>3. id = Find(c, w, custom')
    BY <2>1
  <2> QED
    BY <2>1, <2>2, <2>3
<1>2. id \in Int
  <2>1. -Word(c) \in Int
    BY <1>0, IdsApart, Zenon
  <2>2. id \in SkritterIds \/ id = -Word(c)
    BY <1>1
  <2> QED
    BY <2>1, <2>2, IdsApart, Zenon
<1>3. PICK r \in Request : client' = [client EXCEPT ![c] = r]
                           /\ r.pc = "looking" /\ ClientInv(c)'
  BY <1>1, <1>2, WordOK, TakeInv
<1>4. worker' \in [Workers -> Job] /\ r.pc \in Creates /\ client[c].pc # "running"
  BY <1>3 DEF WordsInv, TypeOK, Creates
<1>5. TypeOK' /\ (\A d \in Clients : ClientInv(d)') /\ InsertedByCreates'
  BY <1>3, <1>4, ClientStep
<1> QED
  BY <1>3, <1>4, <1>5, WorkersKept DEF WordsInv

LEMMA LookStep ==
  ASSUME WordsInv, NEW c \in Clients, Look(c)
  PROVE  WordsInv'
<1>1. /\ client[c].pc = "looking" /\ ~Resolved(c)
      /\ UNCHANGED <<words, custom, reading, worker>>
      /\ IF Find(c, Word(c), custom) = 0 THEN Become(c, "inserting")
         ELSE Take(c, Find(c, Word(c), custom))
  BY DEF Look
<1>2. CASE Become(c, "inserting")
  BY <1>2, LookMissesStep
<1>3. CASE Find(c, Word(c), custom) # 0 /\ Take(c, Find(c, Word(c), custom))
  <2>1. Find(c, Word(c), custom) = Find(c, Word(c), custom')
    BY <1>1
  <2>2. /\ OwnRows(c) /\ custom' \in [Writings -> {"none", "stored"} \cup Clients]
        /\ \A w \in Writings : custom[w] = c => custom'[w] = c
    BY <1>1 DEF OwnRows, WordsInv, TypeOK
  <2> QED
    BY <1>1, <1>3, <2>1, <2>2, TakeStep
<1> QED
  BY <1>1, <1>2, <1>3

(* The insert never leaves its word unresolved: it waits for an insert     *)
(* that is not its own.                                                    *)
LEMMA InsertStep ==
  ASSUME WordsInv, NEW c \in Clients, Insert(c)
  PROVE  WordsInv'
<1>1. /\ client[c].pc = "inserting" /\ WaitsFor(c) = {}
      /\ custom' = [custom EXCEPT ![Word(c)] = IF custom[Word(c)] = "none" THEN c
                                               ELSE custom[Word(c)]]
      /\ UNCHANGED <<words, reading, worker>>
      /\ IF Find(c, Word(c), custom') = 0 THEN Become(c, "unresolved")
         ELSE Take(c, Find(c, Word(c), custom'))
  BY DEF Insert, FindAgain
<1>2. Word(c) \in Writings /\ TypeOK
  BY <1>1, WordOK DEF WordsInv
<1>3. custom[Word(c)] \in {"none", "stored", c}
  BY <1>1, <1>2 DEF WaitsFor, TypeOK
<1>4. /\ OwnRows(c) /\ custom' \in [Writings -> {"none", "stored"} \cup Clients]
      /\ \A w \in Writings : custom[w] = c => custom'[w] = c
      /\ custom'[Word(c)] \in {"stored", c}
  BY <1>1, <1>2, <1>3, IdsAssumption DEF OwnRows, TypeOK
<1>5. Find(c, Word(c), custom') # 0
  <2>1. PICK w \in Writings : w = Word(c)
    BY <1>2
  <2>2. LET x == Find(c, w, custom') IN
        \/ x = 0 /\ custom'[w] \notin {"stored", c}
        \/ x \in SkritterIds /\ item[x] = w
        \/ x = -w /\ custom'[w] \in {"stored", c}
    BY <1>2, FindOK, Zenon
  <2>3. -w # 0 /\ 0 \notin SkritterIds
    BY IdsApart, IdsAssumption
  <2> QED
    BY <1>4, <2>1, <2>2, <2>3
<1> QED
  BY <1>1, <1>4, <1>5, TakeStep

Room(c) == IF client[c].useList THEN client[c].target - Len(client[c].found) ELSE 0
Size(c) == Min({Room(c), Cardinality(Candidates(c))})

(* The list gives no more words than there is room for.                    *)
LEMMA SizeOK ==
  ASSUME WordsInv, NEW c \in Clients, client[c].pc = "looking", Resolved(c)
  PROVE  Size(c) \in Nat /\ Len(client[c].found) + Size(c) <= client[c].target
<1>1. Candidates(c) \subseteq SkritterIds
  BY DEF Candidates, WordsInv, TypeOK
<1>2. Cardinality(Candidates(c)) \in Nat
  BY <1>1, FS_Subset, FS_CardinalityType, IdsAssumption
<1>3. Len(client[c].found) \in Nat /\ client[c].target \in Nat
  BY LenProperties DEF WordsInv, TypeOK, Request
<1>4. Len(client[c].found) <= client[c].target
  BY <1>3 DEF WordsInv, ClientInv, Asked, Resolved
<1>5. Room(c) \in Nat /\ Len(client[c].found) + Room(c) <= client[c].target
  BY <1>3, <1>4 DEF Room
<1> DEFINE card == Cardinality(Candidates(c))
<1>6. card \in Int /\ Room(c) \in Int /\ card \in Nat
  BY <1>2, <1>5
<1> HIDE DEF card
<1>7. Min({Room(c), card}) \in {Room(c), card} /\ Min({Room(c), card}) <= Room(c)
  BY <1>6, MinOfPair
<1>8. Size(c) = Min({Room(c), card})
  BY DEF Size, card
<1> QED
  BY <1>3, <1>5, <1>6, <1>7, <1>8

(* Words of the list behind the words asked for, each as the session has   *)
(* it: a request that knows no renamed word then knows none twice.         *)
AsLoaded(c, k, w, e) ==
  /\ e.id = k
  /\ \/ \E j \in Entries(c) : e = client[c].found[j]
     \/ /\ \A j \in Entries(c) : client[c].found[j].id # k
        /\ e = [id |-> k, writing |-> w]

Sampled(c, n, m, sample, new, all) ==
  /\ n \in Nat /\ m \in Nat /\ n + m <= client[c].target
  /\ Entries(c) = 1 .. n /\ Given(c) = 1 .. n
  /\ \A i \in 1 .. m :
       /\ sample[i] \in SkritterIds /\ item[sample[i]] \in Writings
       /\ \A j \in 1 .. n : client[c].found[j].writing # item[sample[i]]
       /\ AsLoaded(c, sample[i], item[sample[i]], new[i])
  /\ \A i, j \in 1 .. m : sample[i] = sample[j] => i = j
  /\ Len(all) = n + m /\ all # <<>> /\ all \in Seq(Entry)
  /\ \A i \in 1 .. n : all[i] = client[c].found[i]
  /\ \A i \in n + 1 .. n + m : all[i] = new[i - n]
  /\ client'[c].found = all /\ client'[c].words = client[c].words
  /\ client'[c].target = client[c].target /\ client'[c].pc = "chosen"

LEMMA SampleInv ==
  ASSUME WordsInv, NEW c \in Clients, NEW n, NEW m, NEW sample, NEW new, NEW all,
         Sampled(c, n, m, sample, new, all), UNCHANGED <<words, custom>>
  PROVE  ClientInv(c)'
<1> n \in Nat /\ m \in Nat /\ n + m <= client[c].target
  BY DEF Sampled
<1> /\ Entries(c) = 1 .. n /\ Given(c) = 1 .. n
    /\ Len(all) = n + m /\ all # <<>> /\ all \in Seq(Entry)
  BY DEF Sampled
<1> /\ \A i \in 1 .. n : all[i] = client[c].found[i]
    /\ \A i \in n + 1 .. n + m : all[i] = new[i - n]
    /\ \A i, j \in 1 .. m : sample[i] = sample[j] => i = j
  BY DEF Sampled
<1> /\ client'[c].found = all /\ client'[c].words = client[c].words
    /\ client'[c].target = client[c].target /\ client'[c].pc = "chosen"
  BY DEF Sampled
<1>1. /\ client[c] \in Request /\ TypeOK /\ ClientInv(c)
      /\ \A i \in 1 .. n : client[c].found[i] \in Entry
  BY ElementOfSeq DEF WordsInv, TypeOK, Request, Entries
<1>2. Entries(c)' = 1 .. n + m /\ Given(c)' = 1 .. n
  BY DEF Entries, Given
<1>3. \A i \in 1 .. m : /\ sample[i] \in SkritterIds /\ item[sample[i]] \in Writings
                        /\ \A j \in 1 .. n : client[c].found[j].writing # item[sample[i]]
  BY DEF Sampled
<1>4. \A i \in 1 .. m :
        /\ new[i].id = sample[i]
        /\ \/ \E j \in 1 .. n : new[i] = client[c].found[j]
           \/ /\ \A j \in 1 .. n : client[c].found[j].id # sample[i]
              /\ new[i] = [id |-> sample[i], writing |-> item[sample[i]]]
  BY DEF Sampled, AsLoaded
<1>11. \A i \in 1 .. n + m : i \in 1 .. n \/ (i \in n + 1 .. n + m /\ i - n \in 1 .. m)
  BY <1>1
<1>12. \A i \in 1 .. n : i \in 1 .. n + m
  BY <1>1
<1>13. EntriesTrue(c)'
  <2>0. \A i \in 1 .. n :
          \/ client[c].found[i].id \in SkritterIds
             /\ (client[c].found[i].id \in renamed
                 \/ item[client[c].found[i].id] = client[c].found[i].writing)
          \/ client[c].found[i].id = -client[c].found[i].writing
    BY <1>1, <1>2 DEF ClientInv, EntriesTrue
  <2> SUFFICES ASSUME NEW i \in 1 .. n + m
               PROVE  \/ all[i].id \in SkritterIds
                         /\ (all[i].id \in renamed \/ item[all[i].id] = all[i].writing)
                      \/ all[i].id = -all[i].writing
    BY <1>2 DEF EntriesTrue, words
  <2>1. CASE i \in 1 .. n
    BY <2>0, <2>1
  <2>2. CASE i \in n + 1 .. n + m /\ i - n \in 1 .. m
    <3>1. PICK j \in 1 .. m : all[i] = new[j]
      BY <2>2
    <3>2. CASE \E k \in Entries(c) : new[j] = client[c].found[k]
      BY <1>2, <2>0, <3>1, <3>2
    <3>3. CASE new[j] = [id |-> sample[j], writing |-> item[sample[j]]]
      <4>1. all[i].id = sample[j] /\ all[i].writing = item[sample[j]]
        BY <3>1, <3>3
      <4>2. sample[j] \in SkritterIds
        BY <1>3
      <4> QED
        BY <4>1, <4>2
    <3> QED
      BY <1>4, <3>2, <3>3
  <2> QED
    BY <1>11, <2>1, <2>2
<1>14. CustomThere(c)'
  <2> SUFFICES ASSUME NEW i \in 1 .. n + m, NEW w \in Writings, all[i].id = -w
               PROVE  custom[w] \in {"stored", c}
    BY <1>2 DEF CustomThere, Creates
  <2>1. CASE i \in 1 .. n
    <3>1. client[c].found[i].id = -w /\ i \in Entries(c)
      BY <2>1
    <3>2. custom[w] = "stored" \/ custom[w] = c
      BY <1>1, <3>1 DEF ClientInv, CustomThere
    <3> QED
      BY <3>2
  <2>2. CASE i \in n + 1 .. n + m /\ i - n \in 1 .. m
    <3>1. PICK j \in 1 .. m : all[i] = new[j]
      BY <2>2
    <3>2. all[i].id \in SkritterIds
      <4>1. new[j].id = sample[j]
        BY <1>4
      <4>2. sample[j] \in SkritterIds
        BY <1>3
      <4> QED
        BY <3>1, <4>1, <4>2
    <3> QED
      BY <3>2, IdsApart
  <2> QED
    BY <1>11, <2>1, <2>2
<1>15. Asked(c)' /\ Len(all) \in 1 .. client[c].target /\ Len(client[c].words) <= Len(all)
  <2>1. Len(all) # 0
    BY EmptySeq
  <2>2. client[c].target \in Nat
    BY <1>1 DEF Request
  <2> QED
    BY <1>1, <1>2, <2>1, <2>2 DEF ClientInv, Asked, Given, Finds, Creates
<1>16. ASSUME Sound(c) \/ Renamed(c), Renamed(c) => Renamed(c)', ~Renamed(c) => Sound(c)'
       PROVE  ClientInv(c)'
  BY <1>2, <1>13, <1>14, <1>15, <1>16 DEF ClientInv, Snapshot, Stored
<1>17. Renamed(c) => Renamed(c)'
  BY <1>2, <1>12 DEF Renamed, words
<1>18. ASSUME ~Renamed(c) PROVE Sound(c)'
  <2>1. Sound(c)
    BY <1>1, <1>18 DEF ClientInv, Snapshot
  <2>2. ASSUME NEW j \in 1 .. m
        PROVE  /\ new[j] = [id |-> sample[j], writing |-> item[sample[j]]]
               /\ \A k \in 1 .. n : client[c].found[k].id # sample[j]
    <3>1. SUFFICES ASSUME NEW k \in 1 .. n, client[c].found[k].id = sample[j] PROVE FALSE
      BY <1>4
    <3>2. \/ item[sample[j]] = client[c].found[k].writing
          \/ sample[j] = -client[c].found[k].writing
      BY <1>1, <1>2, <1>18, <3>1 DEF ClientInv, EntriesTrue, Renamed
    <3>3. client[c].found[k].writing \in Writings
      BY <1>1 DEF Entry
    <3>4. sample[j] # -client[c].found[k].writing
      BY <1>3, <3>3, IdsApart, Zenon
    <3> QED
      BY <1>3, <3>2, <3>4, Zenon
  <2>3. ASSUME NEW i \in 1 .. n + m, NEW j \in 1 .. n, all[i].writing = all[j].writing
        PROVE  i = j
    <3>1. CASE i \in 1 .. n
      BY <1>2, <2>1, <2>3, <3>1 DEF Sound
    <3>2. CASE i \in n + 1 .. n + m /\ i - n \in 1 .. m
      <4>1. PICK k \in 1 .. m : all[i] = new[k]
        BY <3>2
      <4>2. all[i].writing = item[sample[k]]
        <5>1. new[k] = [id |-> sample[k], writing |-> item[sample[k]]]
          BY <2>2
        <5> QED
          BY <4>1, <5>1
      <4>3. all[j] = client[c].found[j]
        OBVIOUS
      <4> QED
        <5>1. client[c].found[j].writing # item[sample[k]]
          BY <1>3
        <5> QED
          BY <2>3, <4>2, <4>3, <5>1
    <3> QED
      BY <1>11, <3>1, <3>2
  <2>4. ASSUME NEW i \in 1 .. n + m, NEW j \in 1 .. n + m, all[i].id = all[j].id
        PROVE  i = j
    <3>0. \A k, l \in 1 .. n : client[c].found[k].id = client[c].found[l].id => k = l
      BY <2>1 DEF Sound, Distinct, Entries
    <3>1. CASE i \in 1 .. n /\ j \in 1 .. n
      BY <2>4, <3>0, <3>1
    <3>2. ASSUME NEW k \in n + 1 .. n + m
          PROVE  k - n \in 1 .. m /\ all[k].id = sample[k - n]
      <4>1. k - n \in 1 .. m /\ all[k] = new[k - n]
        OBVIOUS
      <4> QED
        BY <1>4, <4>1
    <3>3. CASE i \in 1 .. n /\ j \in n + 1 .. n + m
      <4>1. all[j].id = sample[j - n] /\ j - n \in 1 .. m /\ all[i] = client[c].found[i]
        BY <3>2, <3>3
      <4> QED
        <5>1. client[c].found[i].id # sample[j - n]
          BY <2>2, <3>3, <4>1
        <5> QED
          BY <2>4, <4>1, <5>1
    <3>4. CASE i \in n + 1 .. n + m /\ j \in 1 .. n
      <4>1. all[i].id = sample[i - n] /\ i - n \in 1 .. m /\ all[j] = client[c].found[j]
        BY <3>2, <3>4
      <4> QED
        <5>1. client[c].found[j].id # sample[i - n]
          BY <2>2, <3>4, <4>1
        <5> QED
          BY <2>4, <4>1, <5>1
    <3>5. CASE i \in n + 1 .. n + m /\ j \in n + 1 .. n + m
      <4>1. sample[i - n] = sample[j - n] /\ i - n \in 1 .. m /\ j - n \in 1 .. m
        BY <2>4, <3>2, <3>5
      <4>2. i - n = j - n
        BY <4>1
      <4> QED
        BY <3>5, <4>2
    <3> QED
      BY <1>11, <3>1, <3>3, <3>4, <3>5
  <2>5. \A i \in 1 .. n : all[i].writing = client[c].words[i]
    BY <1>2, <2>1 DEF Sound
  <2>6. Distinct(c)'
    BY <1>2, <2>4 DEF Distinct
  <2> QED
    BY <1>2, <1>12, <2>3, <2>5, <2>6 DEF Sound
<1> QED
  BY <1>1, <1>16, <1>17, <1>18 DEF ClientInv, Snapshot

(* The sample's words are added behind the words asked for.                *)
LEMMA ChosenInv ==
  ASSUME WordsInv, NEW c \in Clients, client[c].pc = "looking", Resolved(c),
         NEW sample \in [1 .. Size(c) -> Candidates(c)],
         \A i, j \in 1 .. Size(c) : i < j => sample[i] < sample[j],
         NEW all, all # <<>>,
         all = client[c].found \o [i \in 1 .. Size(c) |-> Loaded(c, sample[i], item[sample[i]])],
         client' = [client EXCEPT ![c].found = all, ![c].pc = "chosen"],
         UNCHANGED <<words, custom>>
  PROVE  \E r \in Request : /\ client' = [client EXCEPT ![c] = r]
                            /\ r.pc = "chosen" /\ ClientInv(c)'
<1> DEFINE n == Len(client[c].found)
           m == Size(c)
           r == [client[c] EXCEPT !.found = all, !.pc = "chosen"]
           new == [i \in 1 .. m |-> Loaded(c, sample[i], item[sample[i]])]
<1>1. client[c] \in Request /\ client[c].found \in Seq(Entry) /\ client[c].words \in Seq(Writings)
      /\ TypeOK /\ ClientInv(c)
  BY DEF WordsInv, TypeOK, Request
<1>2. n \in Nat /\ Len(client[c].words) = n /\ m \in Nat /\ n + m <= client[c].target
      /\ \A i \in 1 .. n : client[c].found[i] \in Entry
  BY <1>1, LenProperties, ElementOfSeq, SizeOK DEF Resolved
<1>3. ASSUME NEW i \in 1 .. m
      PROVE  /\ sample[i] \in linked /\ sample[i] \in SkritterIds
             /\ sample[i] \in Int /\ item[sample[i]] \in Writings
             /\ \A j \in 1 .. n : client[c].found[j].writing # item[sample[i]]
  <2>1. sample[i] \in Candidates(c)
    OBVIOUS
  <2> QED
    BY <1>1, <2>1, IdsApart DEF Candidates, TypeOK
<1>4. ASSUME NEW i \in 1 .. m
      PROVE  /\ new[i] \in Entry /\ new[i].id = sample[i]
             /\ \/ \E j \in Entries(c) : new[i] = client[c].found[j]
                \/ /\ \A j \in Entries(c) : client[c].found[j].id # sample[i]
                   /\ new[i] = [id |-> sample[i], writing |-> item[sample[i]]]
  <2>1. PICK k \in Int, w \in Writings : k = sample[i] /\ w = item[sample[i]]
    BY <1>3
  <2>2. new[i] = Loaded(c, k, w)
    BY <2>1
  <2>3. /\ Loaded(c, k, w) \in Entry /\ Loaded(c, k, w).id = k
        /\ \/ \E j \in Entries(c) : Loaded(c, k, w) = client[c].found[j]
           \/ /\ \A j \in Entries(c) : client[c].found[j].id # k
              /\ Loaded(c, k, w) = [id |-> k, writing |-> w]
    BY <1>1, LoadedOK
  <2> HIDE DEF new
  <2> QED
    BY <2>1, <2>2, <2>3
<1>5. new \in Seq(Entry) /\ Len(new) = m
  <2>1. new \in [1 .. m -> Entry] /\ m \in Nat
    BY <1>2, <1>4
  <2> HIDE DEF m, new
  <2> QED
    BY <2>1
<1> HIDE DEF m, new
<1>6. all = client[c].found \o new
  BY DEF new, m
<1>7. /\ all \in Seq(Entry) /\ Len(all) = n + m
      /\ \A i \in 1 .. n : all[i] = client[c].found[i]
      /\ \A i \in n + 1 .. n + m : all[i] = new[i - n] /\ i - n \in 1 .. m
  <2>1. all \in Seq(Entry)
    BY <1>1, <1>5, <1>6, ConcatProperties
  <2>2. Len(all) = n + m
    BY <1>1, <1>5, <1>6, ConcatProperties
  <2>3. \A i \in 1 .. n + m : all[i] = IF i <= n THEN client[c].found[i] ELSE new[i - n]
    <3>1. \A i \in 1 .. n + Len(new) : (client[c].found \o new)[i] =
             IF i <= n THEN client[c].found[i] ELSE new[i - n]
      BY <1>1, <1>5, ConcatProperties, Zenon
    <3> QED
      BY <1>5, <1>6, <3>1, Zenon
  <2> HIDE DEF n
  <2>4. \A i \in 1 .. n : i \in 1 .. n + m /\ i <= n
    BY <1>2
  <2>5. \A i \in n + 1 .. n + m : i \in 1 .. n + m /\ ~(i <= n) /\ i - n \in 1 .. m
    BY <1>2
  <2> QED
    BY <2>1, <2>2, <2>3, <2>4, <2>5
<1>8. r \in Request /\ r.pc = "chosen" /\ r.words = client[c].words
      /\ r.target = client[c].target /\ r.found = all
  BY <1>1, <1>7 DEF Request, Creates
<1>9. client' = [client EXCEPT ![c] = r] /\ client'[c] = r
  BY <1>1 DEF TypeOK
<1> HIDE DEF r
<1>10. /\ Entries(c) = 1 .. n /\ Entries(c)' = 1 .. n + m
       /\ Given(c)' = 1 .. n /\ Given(c) = 1 .. n
       /\ client'[c].words = client[c].words /\ client'[c].pc = "chosen"
       /\ client'[c].target = client[c].target /\ client'[c].found = all
  BY <1>2, <1>7, <1>8, <1>9 DEF Entries, Given
<1> HIDE DEF n
<1>11. \A i \in 1 .. m :
         /\ sample[i] \in SkritterIds /\ item[sample[i]] \in Writings
         /\ \A j \in 1 .. n : client[c].found[j].writing # item[sample[i]]
         /\ AsLoaded(c, sample[i], item[sample[i]], new[i])
  BY <1>3, <1>4 DEF AsLoaded
<1>12. \A i, j \in 1 .. m : sample[i] = sample[j] => i = j
  <2> SUFFICES ASSUME NEW i \in 1 .. m, NEW j \in 1 .. m, sample[i] = sample[j], i # j
               PROVE  FALSE
    OBVIOUS
  <2>1. sample[i] \in Int /\ sample[j] \in Int
    BY <1>3
  <2>2. i < j => sample[i] < sample[j]
    BY DEF m
  <2>3. j < i => sample[j] < sample[i]
    BY DEF m
  <2> QED
    BY <1>2, <2>1, <2>2, <2>3
<1>13. \A i \in n + 1 .. n + m : all[i] = new[i - n]
  BY <1>7
<1>14. ClientInv(c)'
  <2>1. Sampled(c, n, m, sample, new, all)
    BY <1>2, <1>7, <1>10, <1>11, <1>12, <1>13 DEF Sampled
  <2> QED
    BY <2>1, SampleInv
<1> QED
  BY <1>8, <1>9, <1>14

LEMMA SelectStep ==
  ASSUME WordsInv, NEW c \in Clients, Select(c)
  PROVE  WordsInv'
<1>1. /\ client[c].pc = "looking" /\ Resolved(c)
      /\ UNCHANGED <<words, reading, worker>>
  BY DEF Select
<1>2. PICK sample \in [1 .. Size(c) -> Candidates(c)] :
        /\ \A i, j \in 1 .. Size(c) : i < j => sample[i] < sample[j]
        /\ LET all == client[c].found \o
                        [i \in 1 .. Size(c) |-> Loaded(c, sample[i], item[sample[i]])] IN
           \/ all = <<>> /\ Over(c, "refused") /\ RolledBack(c)
           \/ /\ all # <<>> /\ UNCHANGED custom
              /\ client' = [client EXCEPT ![c].found = all, ![c].pc = "chosen"]
  BY DEF Select, Size, Room
<1>3. CASE Over(c, "refused") /\ RolledBack(c)
  BY <1>1, <1>3, OverStep
<1>4. CASE ~(Over(c, "refused") /\ RolledBack(c))
  <2> DEFINE all == client[c].found \o
                      [i \in 1 .. Size(c) |-> Loaded(c, sample[i], item[sample[i]])]
  <2>1. /\ all # <<>> /\ UNCHANGED custom
        /\ client' = [client EXCEPT ![c].found = all, ![c].pc = "chosen"]
    BY <1>2, <1>4
  <2>2. PICK r \in Request : client' = [client EXCEPT ![c] = r]
                             /\ r.pc = "chosen" /\ ClientInv(c)'
    BY <1>1, <1>2, <2>1, ChosenInv
  <2>3. /\ worker' \in [Workers -> Job] /\ r.pc \in Creates /\ OwnRows(c)
        /\ custom' \in [Writings -> {"none", "stored"} \cup Clients]
    BY <1>1, <2>1, <2>2 DEF WordsInv, TypeOK, Creates, OwnRows
  <2>4. TypeOK' /\ (\A d \in Clients : ClientInv(d)') /\ InsertedByCreates'
    BY <1>1, <2>2, <2>3, ClientStep
  <2> QED
    BY <1>1, <2>2, <2>4, WorkersKept DEF WordsInv
<1> QED
  BY <1>3, <1>4

-----------------------------------------------------------------------------
(* The workers, and the sync.                                              *)

LEMMA ReadWordsStep ==
  ASSUME WordsInv, NEW v \in Workers, NEW c \in Clients, ReadWords(v, c)
  PROVE  WordsInv'
<1>1. /\ client[c].pc = "queued" /\ worker[v] = NotWorking /\ Finds(c)
      /\ UNCHANGED <<words, custom, reading>>
  BY DEF ReadWords, Finds, Stored
<1> DEFINE r == [client[c] EXCEPT !.pc = "running"]
<1>2. /\ r \in Request /\ client' = [client EXCEPT ![c] = r] /\ client'[c].pc = "running"
      /\ client'[c].target = client[c].target
      /\ client'[c].words = client[c].words /\ client'[c].found = client[c].found
  BY <1>1, BecomeOK DEF ReadWords
<1> HIDE DEF r
<1>3. PICK plan \in SUBSET Blank(c) :
        worker' = [worker EXCEPT ![v] = [request |-> c, blank |-> Blank(c), plan |-> plan]]
  BY DEF ReadWords, Fillable
<1>4. Blank(c) \subseteq Writings
  BY DEF Blank, CustomWords
<1>5. /\ worker' \in [Workers -> Job] /\ worker'[v].request = c
      /\ worker'[v].plan \subseteq worker'[v].blank
      /\ \A u \in Workers : u # v => worker'[u] = worker[u]
  BY <1>3, <1>4 DEF WordsInv, TypeOK, Job
<1>6. ClientInv(c)'
  <2>1. CustomThere(c)'
    BY <1>1, <1>2 DEF WordsInv, ClientInv, CustomThere, Entries, Creates
  <2>2. ClientInv(c)
    BY DEF WordsInv
  <2>3. Asked(c)' /\ EntriesTrue(c)'
    BY <1>1, <1>2, <2>2 DEF ClientInv, Asked, EntriesTrue, Entries, Given, Finds, Stored, words
  <2>4. (Sound(c) => Sound(c)') /\ (Renamed(c) => Renamed(c)')
    BY <1>1, <1>2 DEF Sound, Renamed, Entries, Given, Distinct, words
  <2> QED
    BY <1>1, <1>2, <2>1, <2>2, <2>3, <2>4 DEF ClientInv, Snapshot, Stored
<1>7. /\ OwnRows(c) /\ custom' \in [Writings -> {"none", "stored"} \cup Clients]
      /\ \A w \in Writings : custom'[w] # c
  BY <1>1, IdleHoldsNothing DEF OwnRows, WordsInv, TypeOK, Creates
<1>8. TypeOK' /\ (\A d \in Clients : ClientInv(d)') /\ InsertedByCreates'
  BY <1>1, <1>2, <1>5, <1>6, <1>7, ClientStep
<1>9. WorkersApart'
  <2>1. \A u \in Workers : worker[u] # NotWorking =>
          /\ worker[u].request \in Clients /\ client[worker[u].request].pc = "running"
          /\ worker[u].plan \subseteq worker[u].blank
    BY DEF WordsInv, WorkersApart
  <2>2. \A d \in Clients : d # c => client'[d] = client[d]
    BY <1>2 DEF WordsInv, TypeOK
  <2>3. ASSUME NEW u \in Workers, worker'[u] # NotWorking
        PROVE  /\ worker'[u].request \in Clients /\ client'[worker'[u].request].pc = "running"
               /\ worker'[u].plan \subseteq worker'[u].blank
    BY <1>1, <1>2, <1>5, <2>1, <2>2, <2>3
  <2>4. ASSUME NEW t \in Workers, NEW u \in Workers, worker'[t] # NotWorking,
               worker'[t].request = worker'[u].request
        PROVE  t = u
    <3>1. ASSUME NEW x \in Workers, x # v PROVE worker'[x].request # c
      <4>1. worker[x] = NotWorking => worker[x].request # c
        BY IdsAssumption DEF NotWorking
      <4>2. worker[x] # NotWorking => worker[x].request # c
        BY <1>1, <2>1
      <4> QED
        BY <1>5, <3>1, <4>1, <4>2
    <3>2. CASE t = v \/ u = v
      BY <1>5, <2>4, <3>1, <3>2
    <3>3. CASE t # v /\ u # v
      BY <1>5, <2>4, <3>3 DEF WordsInv, WorkersApart
    <3> QED
      BY <3>2, <3>3
  <2> QED
    BY <2>3, <2>4 DEF WorkersApart
<1> QED
  BY <1>8, <1>9 DEF WordsInv

LEMMA SaveStoryStep ==
  ASSUME WordsInv, NEW v \in Workers, SaveStory(v)
  PROVE  WordsInv'
<1>0. worker[v] # NotWorking
  BY DEF SaveStory
<1>c. PICK c \in Clients : c = worker[v].request
  BY <1>0 DEF WordsInv, WorkersApart
<1>1. /\ worker[v] # NotWorking /\ UNCHANGED <<words, custom>>
      /\ worker' = [worker EXCEPT ![v] = NotWorking]
      /\ reading' = [w \in Writings |->
                       IF Distinct(c) /\ w \in worker[v].plan THEN v ELSE reading[w]]
      /\ IF Distinct(c) THEN Over(c, "succeeded") ELSE Become(c, "stuck")
  BY <1>c DEF SaveStory
<1>2. client[c].pc = "running" /\ Finds(c)
  BY <1>1, <1>c DEF WordsInv, WorkersApart, Finds, Stored
<1>3. /\ worker' \in [Workers -> Job] /\ worker'[v] = NotWorking
      /\ \A u \in Workers : u # v => worker'[u] = worker[u]
  BY <1>1 DEF WordsInv, TypeOK, Job, NotWorking
<1>4. reading' \in [Writings -> {Nobody} \cup Workers]
  BY <1>1 DEF WordsInv, TypeOK
<1>5. /\ OwnRows(c) /\ custom' \in [Writings -> {"none", "stored"} \cup Clients]
      /\ \A w \in Writings : custom'[w] # c
  BY <1>1, <1>2, IdleHoldsNothing DEF OwnRows, WordsInv, TypeOK, Creates
<1>6. \E r \in Request : client' = [client EXCEPT ![c] = r] /\ ClientInv(c)'
  <2>1. CASE Distinct(c)
    <3> DEFINE r == [Fresh EXCEPT !.pc = "succeeded"]
    <3>1. r \in Request /\ client' = [client EXCEPT ![c] = r] /\ ClientInv(c)'
      BY <1>1, <2>1, OverInv
    <3> QED
      BY <3>1
  <2>2. CASE ~Distinct(c)
    <3>1. /\ [client[c] EXCEPT !.pc = "stuck"] \in Request
          /\ client' = [client EXCEPT ![c] = [client[c] EXCEPT !.pc = "stuck"]]
          /\ client'[c].pc = "stuck" /\ client'[c].target = client[c].target
          /\ client'[c].words = client[c].words /\ client'[c].found = client[c].found
      BY <1>1, <1>2, <2>2, BecomeOK
    <3>2. CustomThere(c)'
      BY <1>1, <1>2, <3>1 DEF WordsInv, ClientInv, CustomThere, Entries, Creates
    <3>3. Renamed(c)
      BY <2>2 DEF WordsInv, ClientInv, Snapshot, Sound
    <3>4. ClientInv(c)'
      BY <1>1, <1>2, <3>1, <3>2, <3>3 DEF WordsInv, ClientInv, Asked, EntriesTrue,
         Snapshot, Renamed, Entries, Given, Finds, Stored, Creates, words
    <3> QED
      BY <3>1, <3>4
  <2> QED
    BY <2>1, <2>2
<1>7. PICK r \in Request : client' = [client EXCEPT ![c] = r] /\ ClientInv(c)'
  BY <1>6
<1>8. TypeOK' /\ (\A d \in Clients : ClientInv(d)') /\ InsertedByCreates'
  <2>1. ASSUME NEW d \in Clients PROVE ClientInv(d)'
    <3>1. CASE d = c
      BY <1>7, <3>1
    <3>2. CASE d # c
      <4>1. client'[d] = client[d]
        BY <1>2, <1>7, <3>2 DEF WordsInv, TypeOK
      <4> QED
        BY <1>1, <1>2, <1>5, <3>2, <4>1, OthersKept
    <3> QED
      BY <3>1, <3>2
  <2>2. TypeOK'
    BY <1>1, <1>3, <1>4, <1>5, <1>7 DEF WordsInv, TypeOK, words
  <2>3. InsertedByCreates'
    BY <1>1, <1>5, <1>7 DEF WordsInv, TypeOK, InsertedByCreates
  <2> QED
    BY <2>1, <2>2, <2>3
<1>9. WorkersApart'
  <2>1. \A u \in Workers : worker[u] # NotWorking =>
          /\ worker[u].request \in Clients /\ client[worker[u].request].pc = "running"
          /\ worker[u].plan \subseteq worker[u].blank
    BY DEF WordsInv, WorkersApart
  <2>2. \A t, u \in Workers :
          worker[t] # NotWorking /\ worker[t].request = worker[u].request => t = u
    BY DEF WordsInv, WorkersApart
  <2>3. \A d \in Clients : d # c => client'[d] = client[d]
    BY <1>7 DEF WordsInv, TypeOK
  <2>4. \A u \in Workers : u # v => worker[u].request # c
    BY <1>1, <1>c, <2>2
  <2>5. ASSUME NEW u \in Workers, worker'[u] # NotWorking
        PROVE  /\ worker'[u].request \in Clients /\ client'[worker'[u].request].pc = "running"
               /\ worker'[u].plan \subseteq worker'[u].blank
    BY <1>3, <2>1, <2>3, <2>4, <2>5
  <2>6. ASSUME NEW t \in Workers, NEW u \in Workers, worker'[t] # NotWorking,
               worker'[t].request = worker'[u].request
        PROVE  t = u
    <3>1. worker'[t].request # Nobody
      BY <2>5, <2>6, IdsAssumption
    <3>2. t # v /\ u # v
      BY <1>3, <2>6, <3>1 DEF NotWorking
    <3> QED
      BY <1>3, <2>2, <2>6, <3>2
  <2> QED
    BY <2>5, <2>6 DEF WorkersApart
<1> QED
  BY <1>8, <1>9 DEF WordsInv

(* The sync changes the writing of a row, which is then renamed.           *)
LEMMA SyncWordStep ==
  ASSUME WordsInv, NEW k \in SkritterIds, NEW w \in Writings, SyncWord(k, w)
  PROVE  WordsInv'
<1>1. /\ item' = [item EXCEPT ![k] = w] /\ linked' = linked \cup {k}
      /\ renamed' = IF item[k] \in {0, w} THEN renamed ELSE renamed \cup {k}
      /\ UNCHANGED <<custom, reading, client, worker>>
  BY DEF SyncWord, Edit
<1>2. TypeOK'
  BY <1>1, IdsApart DEF WordsInv, TypeOK
<1>3. ASSUME NEW c \in Clients PROVE ClientInv(c)'
  <2>1. ClientInv(c) /\ TypeOK
    BY DEF WordsInv
  <2>2. client[c].found \in Seq(Entry)
    BY <2>1 DEF TypeOK, Request
  <2>3. EntriesTrue(c)'
    <3> SUFFICES ASSUME NEW i \in Entries(c)
                 PROVE  LET e == client[c].found[i] IN
                        \/ e.id \in SkritterIds /\ (e.id \in renamed' \/ item'[e.id] = e.writing)
                        \/ e.id = -e.writing
      BY <1>1 DEF EntriesTrue, Entries
    <3> DEFINE e == client[c].found[i]
    <3>1. e.writing \in Writings
      <4>1. client[c].found[i] \in Entry
        BY <2>2, ElementOfSeq DEF Entries
      <4> QED
        BY <4>1 DEF Entry
    <3>2. \/ e.id \in SkritterIds /\ (e.id \in renamed \/ item[e.id] = e.writing)
          \/ e.id = -e.writing
      BY <2>1 DEF ClientInv, EntriesTrue
    <3>3. e.writing # 0
      BY <3>1, IdsApart
    <3> HIDE DEF e
    <3>4. e.id \in SkritterIds /\ item[e.id] = e.writing => e.id \in renamed' \/ item'[e.id] = e.writing
      BY <1>1, <2>1, <3>3 DEF TypeOK
    <3>5. renamed \subseteq renamed'
      BY <1>1
    <3> QED
      BY <3>2, <3>4, <3>5 DEF e
  <2>4. renamed \subseteq renamed'
    BY <1>1
  <2>5. (Sound(c) => Sound(c)') /\ (Renamed(c) => Renamed(c)')
    BY <1>1, <2>4 DEF Sound, Renamed, Entries, Given, Distinct
  <2>6. Asked(c)' /\ CustomThere(c)'
    BY <1>1, <2>1 DEF ClientInv, Asked, CustomThere, Entries, Given, Finds, Stored
  <2> QED
    BY <1>1, <2>1, <2>3, <2>5, <2>6 DEF ClientInv, Snapshot, Stored
<1> QED
  BY <1>1, <1>2, <1>3 DEF WordsInv, InsertedByCreates, WorkersApart

(* Its other changes, those of manage-lists and stuttering.                *)
LEMMA OtherEditStep ==
  ASSUME WordsInv, linked' \subseteq linked,
         UNCHANGED <<item, custom, reading, client, worker, renamed>>
  PROVE  WordsInv'
<1>1. ASSUME NEW c \in Clients PROVE ClientInv(c)'
  <2>1. ClientInv(c)
    BY DEF WordsInv
  <2>2. Asked(c)' /\ CustomThere(c)' /\ EntriesTrue(c)'
    BY <2>1 DEF ClientInv, Asked, CustomThere, EntriesTrue, Entries, Given, Finds, Stored
  <2>3. (Sound(c) => Sound(c)') /\ (Renamed(c) => Renamed(c)')
    BY DEF Sound, Renamed, Entries, Given, Distinct
  <2> QED
    BY <2>1, <2>2, <2>3 DEF ClientInv, Snapshot, Stored
<1>2. TypeOK'
  BY DEF WordsInv, TypeOK
<1> QED
  BY <1>1, <1>2 DEF WordsInv, InsertedByCreates, WorkersApart

-----------------------------------------------------------------------------
(* The theorems.                                                           *)

LEMMA InitInv == Init => WordsInv
<1> SUFFICES ASSUME Init PROVE WordsInv
  OBVIOUS
<1>0. /\ Fresh \in Request /\ Fresh.pc = "idle" /\ Fresh.target = 1
      /\ Fresh.words = <<>> /\ Fresh.found = <<>> /\ Len(<<>>) = 0
      /\ NotWorking \in Job
  BY EmptySeq DEF Fresh, Request, NotWorking, Job
<1>1. TypeOK
  BY <1>0, FirstItemsAssumption DEF Init, TypeOK
<1>2. ASSUME NEW c \in Clients PROVE ClientInv(c)
  <2>1. client[c] = Fresh
    BY DEF Init
  <2> QED
    BY <1>0, <2>1 DEF ClientInv, Asked, EntriesTrue, CustomThere, Snapshot, Sound, Renamed,
                      Entries, Given, Finds, Stored, Distinct, Creates
<1>3. InsertedByCreates
  BY IdsAssumption DEF Init, InsertedByCreates
<1>4. WorkersApart
  BY DEF Init, WorkersApart
<1> QED
  BY <1>1, <1>2, <1>3, <1>4 DEF WordsInv

(* Every step of the system keeps what is known of the words.              *)
LEMMA NextInv == WordsInv /\ [Next]_vars => WordsInv'
<1> SUFFICES ASSUME WordsInv, [Next]_vars PROVE WordsInv'
  OBVIOUS
<1>1. ASSUME NEW c \in Clients, Begin(c) \/ Creating(c) PROVE WordsInv'
  BY <1>1, BeginStep, LookStep, InsertStep, SelectStep, CommitStep, QueueFullStep,
     DeadlockStep DEF Creating
<1>2. ASSUME NEW v \in Workers, Working(v) PROVE WordsInv'
  BY <1>2, ReadWordsStep, SaveStoryStep DEF Working
<1>3. CASE Editing
  <2>1. ASSUME NEW k \in SkritterIds, NEW w \in Writings, SyncWord(k, w) PROVE WordsInv'
    BY <2>1, SyncWordStep
  <2>2. ASSUME NEW k \in SkritterIds, UnlinkWord(k) PROVE WordsInv'
    BY <2>2, OtherEditStep DEF UnlinkWord, Edit
  <2>3. ASSUME NEW flag \in BOOLEAN, SyncList(flag) \/ SetHidden(flag) PROVE WordsInv'
    BY <2>3, OtherEditStep DEF SyncList, SetHidden, Edit
  <2> QED
    BY <1>3, <2>1, <2>2, <2>3 DEF Editing
<1>4. CASE UNCHANGED vars
  BY <1>4, OtherEditStep DEF vars
<1> QED
  BY <1>1, <1>2, <1>3, <1>4 DEF Next

(* What a request knows of its words, from its creation to its story.      *)
THEOREM WordsInvariant == Spec => []WordsInv
<1>1. Init => WordsInv
  BY InitInv
<1>2. WordsInv /\ [Next]_vars => WordsInv'
  BY NextInv
<1> QED
  BY <1>1, <1>2, PTL DEF Spec

(* get_or_create_custom_items: every word is resolved, and the rows that   *)
(* are not committed belong to requests being created.                     *)
THEOREM EveryWordResolves == Spec => []WordsResolve
<1>1. WordsInv => WordsResolve
  <2> SUFFICES ASSUME WordsInv PROVE WordsResolve
    OBVIOUS
  <2>1. ASSUME NEW c \in Clients
        PROVE  /\ client[c].pc # "unresolved" /\ client[c].found \in Seq(Entry)
               /\ Stored(c) => \A w \in CustomWords(c) : custom[w] = "stored"
    <3>1. client[c].pc # "unresolved" /\ client[c].found \in Seq(Entry)
      BY DEF WordsInv, TypeOK, Request, Creates
    <3>2. Stored(c) => \A w \in CustomWords(c) : custom[w] = "stored"
      BY DEF WordsInv, ClientInv, CustomThere, CustomWords, Stored, Creates, Entries
    <3> QED
      BY <3>1, <3>2
  <2> QED
    BY <2>1 DEF WordsInv, TypeOK, InsertedByCreates, Creates, WordsResolve
<1> QED
  BY <1>1, WordsInvariant, PTL

(* select_vocabulary: a stored request has its custom words in order, then *)
(* words of the list, none twice, unless the sync renamed one of them.     *)
THEOREM SnapshotsAreSound == Spec => []SnapshotsSound
<1>1. WordsInv => SnapshotsSound
  <2> SUFFICES ASSUME WordsInv, NEW c \in Clients, Stored(c)
               PROVE  LET found == client[c].found
                          given == Len(client[c].words)
                          all == 1 .. Len(found) IN
                      /\ Len(found) \in 1 .. client[c].target
                      /\ \/ /\ \A i \in 1 .. given : found[i].writing = client[c].words[i]
                            /\ \A i \in all, j \in 1 .. given :
                                 found[i].writing = found[j].writing => i = j
                            /\ Distinct(c) /\ client[c].pc # "stuck"
                         \/ \E i \in all : found[i].id \in renamed
    BY DEF SnapshotsSound
  <2>1. Snapshot(c)
    BY DEF WordsInv, ClientInv
  <2>2. Len(client[c].found) \in Nat /\ Len(client[c].words) \in Nat
    BY LenProperties DEF WordsInv, TypeOK, Request
  <2>3. /\ Len(client[c].words) <= Len(client[c].found)
        /\ Len(client[c].found) \in 1 .. client[c].target
    BY <2>1 DEF Snapshot
  <2>4. Entries(c) \cap Given(c) = Given(c)
    BY <2>2, <2>3 DEF Entries, Given
  <2>5. CASE Sound(c)
    BY <2>3, <2>4, <2>5 DEF Sound, Entries, Given
  <2>6. CASE Renamed(c)
    BY <2>3, <2>6 DEF Renamed, Entries
  <2> QED
    BY <2>1, <2>5, <2>6 DEF Snapshot
<1> QED
  BY <1>1, WordsInvariant, PTL

(* _apply_glossary: a reading is only replaced by a worker that found none *)
(* when it looked.                                                         *)
THEOREM ReadingsAreKept == Spec => ReadingKept
<1> DEFINE Kept == \A w \in Writings : reading'[w] # reading[w] =>
                     \E v \in Workers : /\ reading'[w] = v /\ w \in worker[v].blank
                                        /\ worker'[v] = NotWorking
<1>1. WordsInv /\ [Next]_vars => Kept
  <2> SUFFICES ASSUME WordsInv, [Next]_vars, NEW w \in Writings, reading'[w] # reading[w]
               PROVE  \E v \in Workers : /\ reading'[w] = v /\ w \in worker[v].blank
                                         /\ worker'[v] = NotWorking
    OBVIOUS
  <2>1. PICK v \in Workers : SaveStory(v)
    BY DEF Next, vars, Editing, SyncWord, UnlinkWord, SyncList, SetHidden, Edit, Begin, Creating,
           Look, Insert, Select, Commit, QueueFull, Deadlock, Working, ReadWords
  <2>2. reading'[w] = v /\ w \in worker[v].plan
    BY <2>1 DEF SaveStory
  <2>3. worker'[v] = NotWorking
    BY <2>1 DEF SaveStory, WordsInv, TypeOK
  <2>4. worker[v].plan \subseteq worker[v].blank
    BY <2>1 DEF SaveStory, WordsInv, WorkersApart
  <2> QED
    BY <2>2, <2>3, <2>4
<1>2. Kept => [Kept]_vars
  OBVIOUS
<1> QED
  BY <1>1, <1>2, WordsInvariant, PTL DEF Spec, ReadingKept
=============================================================================
