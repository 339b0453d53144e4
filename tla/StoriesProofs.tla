--------------------------- MODULE StoriesProofs ---------------------------
(***************************************************************************)
(* Three results.  The prompt asks for no more and no less than validation *)
(* and the parser want, whatever the length of the story.  A question that *)
(* was parsed and shuffled is still marked by the option the model marked, *)
(* whatever the model wrote.  And what the reader's pages, the list of     *)
(* stories and the review of questions say of the stories stored is so,    *)
(* for any workers, stories, calls and page size.                          *)
(***************************************************************************)
EXTENDS Stories, FiniteSetTheorems, SequenceTheorems, TLAPS

-----------------------------------------------------------------------------
(* What the prompt asks for *)

(* The range of lengths asked for holds the target, and its least length   *)
(* is above the four fifths that validation wants.                         *)
LEMMA LengthBand ==
  ASSUME NEW t \in Nat \ {0}
  PROVE  /\ LeastLength(t) \in Nat /\ MostLength(t) \in Nat
         /\ LeastLength(t) <= t /\ t <= MostLength(t)
         /\ 10 * LeastLength(t) >= 9 * t
BY DEF LeastLength, MostLength

(* The parser keeps a question that is written as the prompt asks. *)
LEMMA ProperKept ==
  ASSUME NEW r, NEW q \in Question, Proper(r, q)
  PROVE  Keeps(q)
<1> DEFINE options == [i \in DOMAIN q.options |-> Stripped(q.options[i])]
<1>1. q.options \in Seq(Int) /\ q.options = [i \in 1 .. Len(q.options) |-> q.options[i]]
  BY DEF Question
<1>2. \A i \in DOMAIN q.options : q.options[i] \in Int /\ q.options[i] > 0
  <2>1. \A i \in DOMAIN q.options : q.options[i] > 0
    BY Zenon DEF Proper
  <2> QED
    BY <1>1, <2>1
<1>3. \A i \in DOMAIN q.options : Stripped(q.options[i]) = q.options[i]
  BY <1>2 DEF Stripped
<1>4. options = q.options
  BY <1>1, <1>3
<1>5. q.evidence \in {"left_out", "quoted"}
  BY DEF Proper
<1>6. \A i \in DOMAIN q.options : q.options[i] # 0
  BY <1>2
<1> QED
  BY <1>4, <1>5, <1>6 DEF Proper, Keeps

(* A model that follows its prompt to the letter is never failed for its   *)
(* words, and keeps every question; its story is as long as validation     *)
(* wants, and its translation lines up.                                    *)
THEOREM FollowedPromptIsKept ==
  ASSUME NEW r \in [version : KnownVersions, target : Nat \ {0}, words : Nat],
         NEW a \in [form : STRING, length : Int, translation : Nat, questions : Seq(Question), used : Nat],
         Follows(r, a)
  PROVE  /\ Covered(r, a)
         /\ AsksLength(r) => Report(r, a).long
         /\ Report(r, a).aligned
         /\ \A i \in DOMAIN a.questions : Keeps(a.questions[i])
<1>1. Covered(r, a)
  BY DEF Follows, Covered
<1>2. AsksLength(r) => Report(r, a).long
  <2>1. SUFFICES ASSUME AsksLength(r) PROVE 10 * a.length >= 8 * r.target
    BY DEF Report
  <2>2. a.length >= LeastLength(r.target)
    BY <2>1, LengthBand DEF Follows
  <2>3. 10 * LeastLength(r.target) >= 9 * r.target /\ LeastLength(r.target) \in Nat
    BY LengthBand
  <2> QED
    BY <2>2, <2>3
<1>3. Report(r, a).aligned
  BY DEF Follows, Report
<1>4. ASSUME NEW i \in DOMAIN a.questions PROVE Keeps(a.questions[i])
  <2>1. Proper(r, a.questions[i])
    BY DEF Follows
  <2>2. a.questions[i] \in Question
    OBVIOUS
  <2> QED
    BY <2>1, <2>2, ProperKept
<1> QED
  BY <1>1, <1>2, <1>3, <1>4

-----------------------------------------------------------------------------
(* The inductive invariant *)

QuizQuestion == [options : Seq(Int), answer : Int, key : Int]

(* A quiz as it is stored: every question's answer is the option that the  *)
(* model marked.                                                           *)
Marked(z) == /\ z \in Seq(QuizQuestion)
             /\ \A i \in DOMAIN z : Right(z[i], z[i].answer)

CallRecord == [kind : {"none", "submit", "flag", "delete"}, story : Nat, answers : Seq(Int), question : Int,
               pc : {"unsent", "sent", "read", "stored", "refused", "spent"},
               waiting : {"no", "yes", "answered", "lost"}]

TypeOK ==
  /\ nextId \in Nat \ {0}
  /\ saved \subseteq Ids
  /\ quiz \in [Ids -> Seq(QuizQuestion)]
  /\ attempts \subseteq [id : Calls, story : Ids, answers : Seq(Int)]
  /\ flags \subseteq [id : Calls, story : Ids, question : Int]
  /\ worker \in [Workers -> [pc : {"idle", "saving"}, id : Nat, quiz : Seq(QuizQuestion)]]
  /\ call \in [Calls -> CallRecord]
  /\ page \in [story : Nat, selected : Seq(Int), marked : Nat, flagged : SUBSET Int]
  /\ listing \in [pc : {"off", "loading", "counting", "shown"}, items : Seq(Ids), rows : Seq(Ids),
                   began : SUBSET Ids, joined : SUBSET Ids, deletes : BOOLEAN]
  /\ review \in [pc : {"off", "reading", "broken"}, lines : SUBSET (Ids \X Int),
                  unread : SUBSET Ids, gone : SUBSET Ids]

(* A story that was committed, whether it was deleted since or not; nothing *)
(* but a commit makes one so, and a commit does it once.                   *)
Public(s) == /\ s \in Ids /\ s < nextId
             /\ \A w \in Workers : worker[w].pc = "saving" => worker[w].id # s

(* A worker saves under an id of its own, which is not Public.             *)
WorkersOK ==
  \A w \in Workers : worker[w].pc = "saving" =>
    /\ worker[w].id \in Ids /\ worker[w].id < nextId /\ Marked(worker[w].quiz)
    /\ \A v \in Workers : worker[v].pc = "saving" /\ worker[v].id = worker[w].id => v = w

QuizzesOK == /\ \A s \in saved : Public(s)
             /\ \A s \in Ids : Marked(quiz[s])

(* What is stored fits the questions of a story that is there.             *)
RowsOK == /\ \A a \in attempts : a.story \in saved /\ Len(a.answers) = Len(quiz[a.story])
          /\ \A f \in flags : f.story \in saved /\ f.question < Len(quiz[f.story])

(* A call that passed its checks fits its story, which is Public, and one  *)
(* that was carried out left its row, unless the story has gone since.     *)
CallOK(n, c) ==
  /\ c.pc = "unsent" => c = Unsent
  /\ c.kind = "submit" => c.question = 0
  /\ c.pc \in {"read", "stored"} => Public(c.story)
  /\ c.pc = "read" =>
       /\ c.kind = "submit" => Len(c.answers) = Len(quiz[c.story])
       /\ c.kind = "flag" => c.question < Len(quiz[c.story])
  /\ (c.pc = "stored" /\ c.story \in saved) =>
       /\ c.kind = "submit" => [id |-> n, story |-> c.story, answers |-> c.answers] \in attempts
       /\ c.kind = "flag" => [id |-> n, story |-> c.story, question |-> c.question] \in flags
       /\ c.kind # "delete"

CallsOK == \A n \in Calls : CallOK(n, call[n])

(* What the story page knows of its calls: those it waited for are of its  *)
(* story, one at most still sends the choices it shows, and a mark or a    *)
(* report it shows is a call that was carried out.                         *)
OfPage(c) == c.waiting # "no" /\ c.kind \in {"submit", "flag"}
Sends(c) == c.waiting = "yes" /\ c.kind = "submit"
Marks(c) == /\ c.waiting = "answered" /\ c.kind = "submit" /\ c.pc = "stored"
            /\ c.story = page.story /\ c.answers = page.selected
Reports(c, q) == /\ c.waiting = "answered" /\ c.kind = "flag" /\ c.pc = "stored"
                 /\ c.story = page.story /\ c.question = q

PageOK ==
  /\ page.story = NoStory => page = Closed
  /\ page.story # NoStory => /\ listing.pc = "off"
                             /\ Public(page.story)
                             /\ DOMAIN page.selected = DOMAIN quiz[page.story]
  /\ \A n \in Calls : OfPage(call[n]) => page.story # NoStory /\ call[n].story = page.story
  /\ \A n \in Calls : Sends(call[n]) =>
       /\ page.marked = 0 /\ call[n].answers = page.selected
       /\ \A m \in Calls : Sends(call[m]) => m = n
  /\ page.marked # 0 => page.marked \in Calls /\ Marks(call[page.marked])
  /\ \A q \in page.flagged : \E n \in Calls : Reports(call[n], q)

(* The place of a story in the order the list is read in.                  *)
UpTo(S, x) == {t \in S : t <= x}
Place(x) == Cardinality(UpTo(saved, x))

(* While nothing is deleted, a story that the listing began with is listed *)
(* or is still ahead of it.                                                *)
NothingMissed ==
  ~listing.deletes =>
    /\ Loading => listing.began \subseteq saved
    /\ listing.pc = "loading" =>
         \A x \in listing.began : x \in ToSet(listing.items) \/ Place(x) > Len(listing.items)
    /\ listing.pc = "counting" =>
         \A x \in listing.began : \/ x \in ToSet(listing.items) \/ x \in ToSet(listing.rows)
                                 \/ /\ Len(listing.rows) >= PageSize
                                    /\ Place(x) > Len(listing.items) + Len(listing.rows)
    /\ listing.pc = "shown" => listing.began \cap saved \subseteq ToSet(listing.items)

(* A story that was listed is ahead of nothing, and so is listed once,     *)
(* unless a story with a smaller id was committed.                         *)
Pushed(x) == \E s \in listing.joined : s < x
All == listing.items \o listing.rows
NothingTwice ==
  /\ \A n \in DOMAIN All : Public(All[n])
  /\ Loading => \A n \in DOMAIN All : Place(All[n]) <= n \/ Pushed(All[n])
  /\ \A m, n \in DOMAIN All : m < n /\ All[m] = All[n] => Pushed(All[n])

(* The listing waits only for deletes that its reader asked it for.        *)
AwaitsDelete(c) == c.kind = "delete" /\ c.waiting # "no"
DeletesOK == \A n \in Calls : AwaitsDelete(call[n]) => listing.pc = "shown"

ListedOK ==
  /\ listing.pc = "off" => listing = NotListing
  /\ listing.pc # "counting" => listing.rows = <<>>
  /\ \A x \in listing.began : Public(x)
  /\ NothingMissed /\ NothingTwice

ListingOK == DeletesOK /\ ListedOK

(* The review's lines are flags that fitted; the stories it found gone     *)
(* will not come back.                                                     *)
ReviewOK ==
  /\ \A l \in review.lines : Public(l[1]) /\ l[2] < Len(quiz[l[1]])
  /\ \A s \in review.unread \cup review.gone : \E l \in review.lines : l[1] = s
  /\ review.gone \cap saved = {}
  /\ review.pc = "broken" => review.gone # {}

StoriesInv == /\ TypeOK /\ WorkersOK /\ QuizzesOK /\ RowsOK /\ CallsOK
              /\ PageOK /\ ListingOK /\ ReviewOK

-----------------------------------------------------------------------------
(* Sets of numbers in increasing order *)

(* An increasing list of all members: each is at its place, the number of  *)
(* members up to it.                                                       *)
LEMMA Ordered ==
  ASSUME NEW S \in SUBSET Int, IsFiniteSet(S), NEW f \in InOrder(S)
  PROVE  /\ Cardinality(S) \in Nat
         /\ f \in [1 .. Cardinality(S) -> S]
         /\ \A i \in 1 .. Cardinality(S) : f[i] \in S /\ f[i] \in Int
         /\ \A i, j \in 1 .. Cardinality(S) : i < j => f[i] < f[j]
         /\ \A x \in S : \E p \in 1 .. Cardinality(S) : f[p] = x
<1>1. Cardinality(S) \in Nat
  BY FS_CardinalityType
<1>2. f \in [1 .. Cardinality(S) -> S] /\ \A i, j \in 1 .. Cardinality(S) : i < j => f[i] < f[j]
  BY DEF InOrder
<1>0. \A i \in 1 .. Cardinality(S) : f[i] \in S /\ f[i] \in Int
  <2>1. SUFFICES ASSUME NEW i \in 1 .. Cardinality(S) PROVE f[i] \in S /\ f[i] \in Int
    OBVIOUS
  <2>2. f[i] \in S
    BY <1>2
  <2>3. \A x \in S : x \in Int
    OBVIOUS
  <2> QED
    BY <2>2, <2>3
<1>3. f \in Injection(1 .. Cardinality(S), S)
  <2>1. SUFFICES ASSUME NEW i \in 1 .. Cardinality(S), NEW j \in 1 .. Cardinality(S), f[i] = f[j]
                 PROVE  i = j
    BY <1>2 DEF Injection, IsInjective
  <2>2. f[i] \in Int /\ f[j] \in Int /\ i \in Int /\ j \in Int
    BY <1>0, <1>1
  <2>3. ~(i < j)
    BY <1>2, <2>1, <2>2
  <2>4. ~(j < i)
    BY <1>2, <2>1, <2>2
  <2> QED
    BY <2>2, <2>3, <2>4
<1>4. Cardinality(1 .. Cardinality(S)) = Cardinality(S)
  BY <1>1, FS_Interval
<1>5. f \in Surjection(1 .. Cardinality(S), S)
  BY <1>3, <1>4, FS_Injection
<1>6. \A x \in S : \E p \in 1 .. Cardinality(S) : f[p] = x
  BY <1>5 DEF Surjection
<1> QED
  BY <1>0, <1>1, <1>2, <1>6

LEMMA PlaceInOrder ==
  ASSUME NEW S \in SUBSET Int, IsFiniteSet(S), NEW f \in InOrder(S), NEW p \in 1 .. Cardinality(S)
  PROVE  Cardinality(UpTo(S, f[p])) = p
<1>1. /\ Cardinality(S) \in Nat
      /\ f \in [1 .. Cardinality(S) -> S]
      /\ \A i \in 1 .. Cardinality(S) : f[i] \in S /\ f[i] \in Int
      /\ \A i, j \in 1 .. Cardinality(S) : i < j => f[i] < f[j]
      /\ \A x \in S : \E i \in 1 .. Cardinality(S) : f[i] = x
  BY Ordered
<1> DEFINE T == {t \in S : t <= f[p]}
           g == [i \in 1 .. p |-> f[i]]
<1>2. p \in Nat /\ 1 .. p \subseteq 1 .. Cardinality(S)
  BY <1>1
<1>3. g \in [1 .. p -> T]
  <2>1. \A i \in 1 .. p : f[i] \in S /\ f[i] <= f[p]
    <3>1. SUFFICES ASSUME NEW i \in 1 .. p PROVE f[i] \in S /\ f[i] <= f[p]
      OBVIOUS
    <3>2. i \in 1 .. Cardinality(S) /\ (i < p \/ i = p)
      BY <1>2
    <3>3. f[i] \in Int /\ f[p] \in Int /\ f[i] \in S
      BY <1>1, <3>2
    <3> QED
      BY <1>1, <3>2, <3>3
  <2> QED
    BY <2>1
<1>4. \A i, j \in 1 .. p : g[i] = g[j] => i = j
  <2>1. SUFFICES ASSUME NEW i \in 1 .. p, NEW j \in 1 .. p, f[i] = f[j] PROVE i = j
    OBVIOUS
  <2>2. /\ i \in 1 .. Cardinality(S) /\ j \in 1 .. Cardinality(S)
        /\ f[i] \in Int /\ f[j] \in Int /\ i \in Int /\ j \in Int
    BY <1>1, <1>2
  <2>3. ~(i < j)
    BY <1>1, <2>1, <2>2
  <2>4. ~(j < i)
    BY <1>1, <2>1, <2>2
  <2> QED
    BY <2>2, <2>3, <2>4
<1>5. \A t \in T : \E i \in 1 .. p : g[i] = t
  <2>1. SUFFICES ASSUME NEW t \in T PROVE \E i \in 1 .. p : f[i] = t
    OBVIOUS
  <2>2. PICK i \in 1 .. Cardinality(S) : f[i] = t
    BY <1>1
  <2>3. ~(p < i)
    <3>1. f[i] \in Int /\ f[p] \in Int /\ t <= f[p]
      BY <1>1, <2>1
    <3>2. p < i => f[p] < f[i]
      BY <1>1
    <3> QED
      BY <2>2, <3>1, <3>2
  <2> QED
    BY <1>1, <2>2, <2>3
<1>6. g \in Bijection(1 .. p, T)
  <2> HIDE DEF g, T
  <2> QED
    BY <1>3, <1>4, <1>5 DEF Bijection, Injection, Surjection, IsInjective
<1>7. ExistsBijection(1 .. p, T)
  BY <1>6 DEF ExistsBijection
<1>8. IsFiniteSet(1 .. p) /\ Cardinality(1 .. p) = p
  BY <1>2, FS_Interval
<1> QED
  BY <1>7, <1>8, FS_Bijection DEF UpTo

(* What Entries keeps, and that it keeps the order.                        *)
LEMMA Kept ==
  ASSUME NEW T, NEW list \in Seq(T), NEW S \in SUBSET DOMAIN list, NEW e \in Entries(list, S)
  PROVE  /\ e \in Seq(T)
         /\ \A n \in DOMAIN e : \E i \in S : e[n] = list[i]
         /\ \A i \in S : \E n \in DOMAIN e : e[n] = list[i]
         /\ \A m, n \in DOMAIN e : m < n => \E i, j \in S : i < j /\ e[m] = list[i] /\ e[n] = list[j]
<1>1. S \in SUBSET Int /\ IsFiniteSet(S) /\ \A i \in S : list[i] \in T
  <2>1. IsFiniteSet(1 .. Len(list))
    BY FS_Interval
  <2> QED
    BY <2>1, FS_Subset
<1>2. PICK f \in InOrder(S) : e = [n \in DOMAIN f |-> list[f[n]]]
  BY DEF Entries
<1>3. /\ Cardinality(S) \in Nat
      /\ f \in [1 .. Cardinality(S) -> S]
      /\ \A i \in 1 .. Cardinality(S) : f[i] \in S /\ f[i] \in Int
      /\ \A i, j \in 1 .. Cardinality(S) : i < j => f[i] < f[j]
      /\ \A x \in S : \E p \in 1 .. Cardinality(S) : f[p] = x
  BY <1>1, Ordered
<1>4. e = [n \in 1 .. Cardinality(S) |-> list[f[n]]] /\ DOMAIN e = 1 .. Cardinality(S)
  BY <1>2, <1>3
<1>5. e \in [1 .. Cardinality(S) -> T]
  BY <1>1, <1>3, <1>4
<1>6. e \in Seq(T)
  BY <1>3, <1>5, SeqDef
<1>7. \A n \in DOMAIN e : f[n] \in S /\ e[n] = list[f[n]]
  BY <1>3, <1>4
<1>8. \A i \in S : \E n \in DOMAIN e : e[n] = list[i]
  BY <1>3, <1>4, <1>7
<1>9. \A m, n \in DOMAIN e : m < n => \E i, j \in S : i < j /\ e[m] = list[i] /\ e[n] = list[j]
  BY <1>3, <1>4, <1>7
<1> QED
  BY <1>6, <1>7, <1>8, <1>9

-----------------------------------------------------------------------------
(* From the model's questions to the quiz that is stored *)

Askable(q) == q \in QuizQuestion /\ q.answer \in 0 .. Len(q.options) - 1 /\ Right(q, q.answer)

(* What the parser keeps of a question, stripped, has the option that the  *)
(* model marked where the model says it is.                                *)
LEMMA CleanedAskable ==
  ASSUME NEW q \in Question, Keeps(q)
  PROVE  Askable(Cleaned(q))
<1> DEFINE options == [i \in DOMAIN q.options |-> Stripped(q.options[i])]
<1>1. q.options \in Seq(Int) /\ q.answer \in Int
  BY DEF Question
<1>2. options \in Seq(Int) /\ Len(options) = Len(q.options) /\ DOMAIN options = 1 .. Len(options)
  <2>1. \A i \in 1 .. Len(q.options) : Stripped(q.options[i]) \in Int
    BY <1>1 DEF Stripped
  <2>2. options \in [1 .. Len(q.options) -> Int]
    BY <1>1, <2>1
  <2>3. options \in Seq(Int)
    BY <1>1, <2>2, SeqDef
  <2> QED
    BY <1>1, <2>2, <2>3
<1>3. q.answer \in 0 .. Len(options) - 1
  BY DEF Keeps
<1>4. Cleaned(q) = [options |-> options, answer |-> q.answer, key |-> options[q.answer + 1]]
  BY DEF Cleaned
<1> HIDE DEF options
<1>5. q.answer + 1 \in 1 .. Len(options) /\ options[q.answer + 1] \in Int
  BY <1>1, <1>2, <1>3
<1> QED
  BY <1>1, <1>2, <1>3, <1>4, <1>5 DEF Askable, QuizQuestion, Right

(* A shuffle of its options moves the answer with the option it is.        *)
LEMMA MovedMarked ==
  ASSUME NEW q, Askable(q), NEW o \in Orders(q)
  PROVE  Moved(q, o) \in QuizQuestion /\ Right(Moved(q, o), Moved(q, o).answer)
<1>1. /\ q \in QuizQuestion /\ q.options \in Seq(Int) /\ q.answer \in 0 .. Len(q.options) - 1
      /\ q.key \in Int /\ q.options[q.answer + 1] = q.key
  BY DEF Askable, QuizQuestion, Right
<1> DEFINE D == DOMAIN q.options
           moved == [i \in DOMAIN o |-> q.options[o[i]]]
           at == CHOOSE i \in DOMAIN o : o[i] = q.answer + 1
<1>2. /\ o \in [D -> D] /\ o \in Injection(D, D)
      /\ IsFiniteSet(D) /\ D = 1 .. Len(q.options) /\ Len(q.options) \in Nat
  <2>1. D = 1 .. Len(q.options) /\ Len(q.options) \in Nat
    BY <1>1
  <2>2. IsFiniteSet(D)
    BY <2>1, FS_Interval
  <2>3. o \in [D -> D] /\ IsInjective(o)
    BY DEF Orders
  <2> QED
    BY <2>1, <2>2, <2>3 DEF Injection
<1>3. o \in Surjection(D, D)
  BY <1>2, FS_Injection
<1>4. at \in D /\ o[at] = q.answer + 1
  <2>1. q.answer + 1 \in D
    BY <1>1, <1>2
  <2>2. \E i \in DOMAIN o : o[i] = q.answer + 1
    BY <1>2, <1>3, <2>1 DEF Surjection
  <2> QED
    BY <1>2, <2>2
<1>5. moved \in Seq(Int)
  <2>1. moved \in [1 .. Len(q.options) -> Int]
    BY <1>1, <1>2
  <2> QED
    BY <1>2, <2>1, SeqDef
<1>6. moved[at] = q.key
  BY <1>1, <1>2, <1>4
<1>7. Moved(q, o) = [options |-> moved, answer |-> at - 1, key |-> q.key]
  <2>1. q = [options |-> q.options, answer |-> q.answer, key |-> q.key]
    BY <1>1 DEF QuizQuestion
  <2>2. Moved(q, o) = [q EXCEPT !.options = moved, !.answer = at - 1]
    BY Zenon DEF Moved
  <2> HIDE DEF moved, at
  <2> QED
    BY <2>1, <2>2
<1>8. at \in Int
  BY <1>2, <1>4
<1> HIDE DEF moved, at
<1> QED
  BY <1>1, <1>5, <1>6, <1>7, <1>8 DEF QuizQuestion, Right

LEMMA ParsedAskable ==
  ASSUME NEW questions \in Seq(Question), NEW qs \in Parsed(questions)
  PROVE  qs \in Seq(QuizQuestion) /\ \A n \in DOMAIN qs : Askable(qs[n])
<1> DEFINE S == {i \in DOMAIN questions : Keeps(questions[i])}
<1>1. PICK kept \in Entries(questions, S) : qs = [n \in DOMAIN kept |-> Cleaned(kept[n])]
  BY DEF Parsed
<1>2. kept \in Seq(Question) /\ \A n \in DOMAIN kept : \E i \in S : kept[n] = questions[i]
  BY Kept
<1>3. \A n \in DOMAIN kept : kept[n] \in Question /\ Keeps(kept[n])
  BY <1>2
<1>4. \A n \in DOMAIN kept : Askable(Cleaned(kept[n]))
  BY <1>3, CleanedAskable
<1>5. \A n \in DOMAIN kept : Cleaned(kept[n]) \in QuizQuestion
  BY <1>4 DEF Askable
<1>6. qs \in [1 .. Len(kept) -> QuizQuestion]
  BY <1>1, <1>2, <1>5
<1>7. qs \in Seq(QuizQuestion)
  BY <1>2, <1>6, SeqDef
<1> QED
  BY <1>1, <1>4, <1>7

LEMMA ShuffledMarked ==
  ASSUME NEW qs \in Seq(QuizQuestion), \A n \in DOMAIN qs : Askable(qs[n]), NEW z \in Shuffles(qs)
  PROVE  Marked(z)
<1>1. DOMAIN qs = 1 .. Len(qs) /\ Len(qs) \in Nat
  OBVIOUS
<1>2. \A n \in DOMAIN qs : \E o \in Orders(qs[n]) : z[n] = Moved(qs[n], o)
  BY DEF Shuffles
<1>3. \A n \in DOMAIN qs : z[n] \in QuizQuestion /\ Right(z[n], z[n].answer)
  BY <1>2, MovedMarked
<1>4. z = [n \in DOMAIN qs |-> z[n]]
  BY DEF Shuffles
<1>5. z \in [1 .. Len(qs) -> QuizQuestion]
  BY <1>1, <1>3, <1>4
<1>6. z \in Seq(QuizQuestion)
  BY <1>1, <1>5, SeqDef
<1> QED
  BY <1>3, <1>4, <1>6 DEF Marked

(* Whatever the model wrote, the quiz a worker saves is marked by the      *)
(* options the model marked.                                               *)
LEMMA AnswersWritten ==
  ASSUME NEW r, NEW a \in Answers(r)
  PROVE  a.questions \in Seq(Question)
<1> DEFINE Bad == {Answer(f, r.target, 0, <<>>, r.words) :
                     f \in {"not_JSON", "not_an_object", "incomplete", "not_Chinese"}}
           Plain == {Answer("story", n, t, <<>>, u) : n \in {LeastLength(r.target), MostLength(r.target)},
                                                  t \in {0, BodyParagraphs}, u \in r.words - 2 .. r.words}
           Full == {Answer("story", r.target, BodyParagraphs, s, r.words) : s \in Lists}
<1>1. <<>> \in Seq(Question) /\ \A q \in Lists : q \in Seq(Question)
  BY ListsAssumption
<1>2. Answers(r) = Bad \cup Plain \cup Full
  BY SMT DEF Answers
<1>3. ASSUME a \in Bad PROVE a.questions = <<>>
  BY <1>3 DEF Answer
<1>4. ASSUME a \in Plain PROVE a.questions = <<>>
  <2>1. \E n, t, u : a = Answer("story", n, t, <<>>, u)
    BY SMT, <1>4
  <2> QED
    BY <2>1 DEF Answer
<1>5. ASSUME a \in Full PROVE a.questions \in Lists
  BY <1>5 DEF Answer
<1> HIDE DEF Bad, Plain, Full
<1> QED
  BY <1>1, <1>2, <1>3, <1>4, <1>5

LEMMA QuestionsWritten ==
  ASSUME NEW r, NEW x \in Exchanges(r)
  PROVE  x.answer.questions \in Seq(Question)
<1> DEFINE Unanswered == {Exchange(e, 0, "none", NoAnswer) : e \in {"silent", "overdue", "broken"}}
           Refused == {Exchange("answered", s, b, NoAnswer) :
                         s \in Statuses, b \in {"not_JSON", "list", "error_text", "error_object"}}
           Partial == {Exchange("answered", 200, "no_usage", a) : a \in {NoAnswer}}
           Complete == {Exchange("answered", 200, "complete", a) : a \in Answers(r)}
           Unstorable == {Exchange("answered", 200, "unstorable", Answer("story", r.target, 0, <<>>, r.words))}
<1>1. Exchanges(r) = Unanswered \cup Refused \cup Partial \cup Complete \cup Unstorable
  BY SMT DEF Exchanges
<1>2. ASSUME x \in Unanswered PROVE x.answer = NoAnswer
  BY <1>2 DEF Exchange
<1>3. ASSUME x \in Refused PROVE x.answer = NoAnswer
  <2>1. \E s, b : x = Exchange("answered", s, b, NoAnswer)
    BY SMT, <1>3
  <2> QED
    BY <2>1 DEF Exchange
<1>4. ASSUME x \in Partial PROVE x.answer = NoAnswer
  <2>1. x = Exchange("answered", 200, "no_usage", NoAnswer)
    BY <1>4
  <2> QED
    BY <2>1 DEF Exchange
<1>5. ASSUME x \in Complete PROVE x.answer \in Answers(r)
  BY <1>5 DEF Exchange
<1>6. ASSUME x \in Unstorable PROVE x.answer.questions = <<>>
  BY <1>6 DEF Exchange, Answer
<1>7. NoAnswer.questions = <<>>
  BY DEF NoAnswer, Answer
<1>8. <<>> \in Seq(Question)
  OBVIOUS
<1> HIDE DEF Unanswered, Refused, Partial, Complete, Unstorable
<1> QED
  BY <1>1, <1>2, <1>3, <1>4, <1>5, <1>6, <1>7, <1>8, AnswersWritten

LEMMA OutcomeMarked ==
  ASSUME NEW o \in Outcomes, o.pc = "saving"
  PROVE  Marked(o.quiz)
<1>1. PICK r \in Requests :
        o \in {[pc |-> "failed", quiz |-> <<>>] : x \in {y \in Exchanges(r) : Failed(r, y)}}
              \cup {[pc |-> "dead", quiz |-> <<>>] : x \in {y \in Exchanges(r) : Escapes(r, y)}}
              \cup {[pc |-> "saving", quiz |-> s] : s \in Quizzes(r)}
  BY DEF Outcomes
<1>2. PICK s \in Quizzes(r) : o = [pc |-> "saving", quiz |-> s]
  BY <1>1
<1>3. PICK x \in Exchanges(r) : s \in UNION {Shuffles(qs) : qs \in Parsed(x.answer.questions)}
  BY DEF Quizzes
<1>4. PICK qs \in Parsed(x.answer.questions) : s \in Shuffles(qs)
  BY <1>3
<1>5. Marked(s)
  BY <1>4, QuestionsWritten, ParsedAskable, ShuffledMarked
<1> QED
  BY <1>2, <1>5

-----------------------------------------------------------------------------
(* Calls *)

LEMMA BoundsFacts == /\ Ids \subseteq Nat \ {0} /\ Calls \subseteq Nat \ {0} /\ NoStory = 0
                     /\ IsFiniteSet(Ids) /\ PageSize \in Nat \ {0}
<1>1. MaxStories \in Nat /\ MaxSends \in Nat /\ PageSize \in Nat \ {0}
  BY BoundsAssumption
<1>2. IsFiniteSet(Ids)
  BY <1>1, FS_Interval DEF Ids
<1> QED
  BY <1>1, <1>2 DEF Ids, Calls, NoStory

LEMMA NewCall ==
  ASSUME TypeOK, NEW kind \in {"submit", "flag", "delete"}, NEW s \in Nat, NEW a \in Seq(Int), NEW q \in Int,
         NEW waiting \in {"no", "yes"}, Send(kind, s, a, q, waiting)
  PROVE  \E n \in Calls : \E c \in CallRecord :
            /\ call[n].pc = "unsent" /\ call' = [call EXCEPT ![n] = c]
            /\ c = [kind |-> kind, story |-> s, answers |-> a, question |-> q, pc |-> "sent", waiting |-> waiting]
<1> DEFINE c == [kind |-> kind, story |-> s, answers |-> a, question |-> q, pc |-> "sent", waiting |-> waiting]
<1>1. PICK n \in Calls : call[n].pc = "unsent" /\ call' = [call EXCEPT ![n] = c]
  BY DEF Send
<1>2. c \in CallRecord
  BY DEF CallRecord
<1> QED
  BY <1>1, <1>2

(* A call that has settled is as it was or spent.                          *)
LEMMA SettledFacts ==
  ASSUME NEW c \in CallRecord
  PROVE  /\ Settled(c) \in CallRecord /\ Spent \in CallRecord
         /\ Spent.pc = "spent" /\ Spent.kind = "none" /\ Spent.waiting = "no"
         /\ Settled(c) \in {c, Spent}
         /\ c.waiting # "no" /\ c.kind \in {"submit", "flag"} => Settled(c) = c
<1>1. Spent = [kind |-> "none", story |-> NoStory, answers |-> <<>>, question |-> 0,
               pc |-> "spent", waiting |-> "no"]
  BY DEF Spent, Unsent
<1>2. Spent \in CallRecord
  BY <1>1, BoundsFacts DEF CallRecord
<1> QED
  BY <1>1, <1>2 DEF Settled

LEMMA CallFields ==
  ASSUME NEW c \in CallRecord
  PROVE  /\ c.kind \in {"none", "submit", "flag", "delete"} /\ c.story \in Nat /\ c.answers \in Seq(Int)
         /\ c.question \in Int /\ c.pc \in {"unsent", "sent", "read", "stored", "refused", "spent"}
         /\ c.waiting \in {"no", "yes", "answered", "lost"}
BY DEF CallRecord

(* Advancing a call, or what its page knows of it, changes one field.      *)
LEMMA CallWith ==
  ASSUME NEW c \in CallRecord,
         NEW p \in {"unsent", "sent", "read", "stored", "refused", "spent"},
         NEW x \in {"no", "yes", "answered", "lost"}
  PROVE  /\ [c EXCEPT !.pc = p] \in CallRecord
         /\ [c EXCEPT !.waiting = x] \in CallRecord
         /\ [c EXCEPT !.pc = p] = [kind |-> c.kind, story |-> c.story, answers |-> c.answers,
                                   question |-> c.question, pc |-> p, waiting |-> c.waiting]
         /\ [c EXCEPT !.waiting = x] = [kind |-> c.kind, story |-> c.story, answers |-> c.answers,
                                        question |-> c.question, pc |-> c.pc, waiting |-> x]
BY DEF CallRecord

LEMMA Advanced ==
  ASSUME NEW c \in CallRecord, NEW p \in {"read", "stored", "refused"}
  PROVE  \E d \in CallRecord :
           /\ d = [c EXCEPT !.pc = p]
           /\ d.kind = c.kind /\ d.story = c.story /\ d.answers = c.answers /\ d.question = c.question
           /\ d.pc = p /\ d.waiting = c.waiting
<1>1. "no" \in {"no", "yes", "answered", "lost"} /\ p \in {"unsent", "sent", "read", "stored", "refused", "spent"}
  OBVIOUS
<1>2. /\ [c EXCEPT !.pc = p] \in CallRecord
      /\ [c EXCEPT !.pc = p] = [kind |-> c.kind, story |-> c.story, answers |-> c.answers,
                                question |-> c.question, pc |-> p, waiting |-> c.waiting]
  BY <1>1, CallWith
<1> QED
  BY <1>2

-----------------------------------------------------------------------------
(* Init *)

THEOREM StoriesInit == Init => StoriesInv
<1> SUFFICES ASSUME Init PROVE StoriesInv
  OBVIOUS
<1>1. /\ nextId = 1 /\ saved = {} /\ attempts = {} /\ flags = {} /\ quiz = [s \in Ids |-> <<>>]
      /\ worker = [w \in Workers |-> Idle] /\ call = [n \in Calls |-> Unsent] /\ page = Closed
      /\ listing = NotListing /\ review = NotReviewing
  BY DEF Init
<1>2. <<>> \in Seq(QuizQuestion) /\ <<>> \in Seq(Int) /\ <<>> \in Seq(Ids)
  OBVIOUS
<1>3. TypeOK
  <2>1. quiz \in [Ids -> Seq(QuizQuestion)]
    BY <1>1, <1>2
  <2>2. worker \in [Workers -> [pc : {"idle", "saving"}, id : Nat, quiz : Seq(QuizQuestion)]]
    BY <1>1, <1>2 DEF Idle
  <2>3. call \in [Calls -> CallRecord]
    BY <1>1, <1>2, BoundsFacts DEF Unsent, CallRecord
  <2>4. page \in [story : Nat, selected : Seq(Int), marked : Nat, flagged : SUBSET Int]
    BY <1>1, <1>2, BoundsFacts DEF Closed
  <2>5. listing \in [pc : {"off", "loading", "counting", "shown"}, items : Seq(Ids), rows : Seq(Ids),
                     began : SUBSET Ids, joined : SUBSET Ids, deletes : BOOLEAN]
    BY <1>1, <1>2 DEF NotListing
  <2>6. review \in [pc : {"off", "reading", "broken"}, lines : SUBSET (Ids \X Int),
                    unread : SUBSET Ids, gone : SUBSET Ids]
    BY <1>1 DEF NotReviewing
  <2> QED
    BY <1>1, <2>1, <2>2, <2>3, <2>4, <2>5, <2>6 DEF TypeOK
<1>4. WorkersOK
  BY <1>1 DEF WorkersOK, Idle
<1>5. QuizzesOK
  BY <1>1, <1>2 DEF QuizzesOK, Marked
<1>6. RowsOK
  BY <1>1 DEF RowsOK
<1>7. CallsOK
  BY <1>1 DEF CallsOK, CallOK, Unsent
<1>8. PageOK
  BY <1>1, BoundsFacts DEF PageOK, Closed, Unsent, OfPage, Sends
<1>9. ListingOK
  <2>1. All = <<>>
    BY <1>1 DEF All, NotListing
  <2> QED
    BY <1>1, <2>1 DEF ListingOK, ListedOK, DeletesOK, AwaitsDelete, Unsent, NotListing, NothingMissed, NothingTwice, Loading
<1>10. ReviewOK
  BY <1>1 DEF ReviewOK, NotReviewing
<1> QED
  BY <1>3, <1>4, <1>5, <1>6, <1>7, <1>8, <1>9, <1>10 DEF StoriesInv

-----------------------------------------------------------------------------
(* Workers, ids and quizzes *)

LEMMA WorkerFields ==
  ASSUME TypeOK, NEW w \in Workers
  PROVE  /\ worker[w].pc \in {"idle", "saving"} /\ worker[w].id \in Nat
         /\ worker[w].quiz \in Seq(QuizQuestion)
BY DEF TypeOK

(* What a worker's request may come to.                                    *)
LEMMA Generated ==
  ASSUME TypeOK, NEW w \in Workers, Generate(w)
  PROVE  \/ /\ nextId <= MaxStories /\ nextId' = nextId + 1
            /\ \E q \in Seq(QuizQuestion) :
                 Marked(q) /\ worker' = [worker EXCEPT ![w] = [pc |-> "saving", id |-> nextId, quiz |-> q]]
         \/ nextId' = nextId /\ worker' = [worker EXCEPT ![w] = Idle]
<1>1. PICK o \in Outcomes :
        \/ /\ o.pc = "saving" /\ nextId <= MaxStories /\ nextId' = nextId + 1
           /\ worker' = [worker EXCEPT ![w] = [pc |-> "saving", id |-> nextId, quiz |-> o.quiz]]
        \/ nextId' = nextId /\ worker' = [worker EXCEPT ![w] = Idle]
  BY DEF Generate
<1>2. CASE nextId' = nextId /\ worker' = [worker EXCEPT ![w] = Idle]
  BY <1>2
<1>3. CASE /\ o.pc = "saving" /\ nextId <= MaxStories /\ nextId' = nextId + 1
           /\ worker' = [worker EXCEPT ![w] = [pc |-> "saving", id |-> nextId, quiz |-> o.quiz]]
  <2>1. Marked(o.quiz)
    BY <1>3, OutcomeMarked
  <2>2. o.quiz \in Seq(QuizQuestion)
    BY <2>1 DEF Marked
  <2> QED
    BY <1>3, <2>1, <2>2
<1> QED
  BY <1>1, <1>2, <1>3

(* Every other step leaves the workers and the quizzes alone, and stores   *)
(* no story.                                                               *)
Quiet == UNCHANGED <<nextId, quiz, worker>> /\ saved' \subseteq saved

LEMMA QuietSteps ==
  ASSUME [Next]_vars
  PROVE  (\E w \in Workers : Working(w)) \/ Quiet
<1>1. CASE UNCHANGED vars
  BY <1>1 DEF vars, Quiet
<1>2. ASSUME NEW n \in Calls, Read(n) \/ Answered(n) \/ Lost(n) PROVE Quiet
  BY <1>2 DEF Read, Answered, Lost, stored, Quiet
<1>3. ASSUME NEW n \in Calls, Write(n) PROVE Quiet
  BY <1>3 DEF Write, Delete, Insert, Quiet
<1>4. CASE ApiClient
  BY <1>4 DEF ApiClient, stored, Quiet
<1>5. CASE Reading
  BY <1>5 DEF Reading, Open, Leave, Submit, TryAgain, Choose, ReportQuestion, stored, Quiet
<1>6. CASE Listing
  BY <1>6 DEF Listing, StartListing, LeaveListing, FetchRows, FetchCount, ListingFails, ConfirmDelete, stored, Quiet
<1>7. CASE Summarise \/ (\E s \in Ids : LoadStory(s)) \/ Finish
  BY <1>7 DEF Summarise, LoadStory, Finish, stored, Quiet
<1> QED
  BY <1>1, <1>2, <1>3, <1>4, <1>5, <1>6, <1>7 DEF Next

(* Committed stories stay Public with their questions, and one that went   *)
(* does not come back.                                                     *)
Grows == \A s \in Ids : Public(s) => Public(s)' /\ quiz'[s] = quiz[s] /\ (s \in saved' => s \in saved)

LEMMA GrowsStep ==
  ASSUME TypeOK, WorkersOK, [Next]_vars
  PROVE  Grows
<1>1. ASSUME NEW w \in Workers, Generate(w) PROVE Grows
  <2>1. saved' = saved /\ quiz' = quiz
    BY <1>1 DEF Generate
  <2>2. SUFFICES ASSUME NEW s \in Ids, Public(s) PROVE Public(s)'
    BY <2>1 DEF Grows
  <2>3. /\ nextId \in Nat /\ s \in Nat /\ s < nextId
        /\ \A v \in Workers : worker[v].pc = "saving" => worker[v].id # s
    BY <2>2, BoundsFacts DEF Public, TypeOK
  <2>4. CASE nextId' = nextId /\ worker' = [worker EXCEPT ![w] = Idle]
    BY <2>3, <2>4 DEF Public, Idle, TypeOK
  <2>5. CASE /\ nextId' = nextId + 1
             /\ \E q : worker' = [worker EXCEPT ![w] = [pc |-> "saving", id |-> nextId, quiz |-> q]]
    BY <2>3, <2>5 DEF Public, TypeOK
  <2> QED
    BY <1>1, <2>4, <2>5, Generated
<1>2. ASSUME NEW w \in Workers, Commit(w) PROVE Grows
  <2>1. SUFFICES ASSUME NEW s \in Ids, Public(s) PROVE Public(s)' /\ quiz'[s] = quiz[s] /\ (s \in saved' => s \in saved)
    BY DEF Grows
  <2>2. worker[w].id # s /\ \A v \in Workers : worker[v].pc = "saving" => worker[v].id # s
    BY <1>2, <2>1 DEF Public, Commit
  <2> QED
    BY <1>2, <2>1, <2>2 DEF Public, Commit, TypeOK, Idle
<1>3. CASE Quiet
  BY <1>3 DEF Grows, Quiet, Public
<1> QED
  BY <1>1, <1>2, <1>3, QuietSteps DEF Working

LEMMA WorkersStep ==
  ASSUME TypeOK, WorkersOK, QuizzesOK, [Next]_vars
  PROVE  WorkersOK' /\ QuizzesOK'
<1>1. Grows
  BY GrowsStep
<1>2. ASSUME NEW w \in Workers, Generate(w) PROVE WorkersOK' /\ QuizzesOK'
  <2>1. saved' = saved /\ quiz' = quiz
    BY <1>2 DEF Generate
  <2>2. QuizzesOK'
    BY <1>1, <2>1 DEF QuizzesOK, Grows, TypeOK
  <2>3. /\ nextId \in Nat
        /\ \A v \in Workers : worker[v].pc = "saving" =>
             worker[v].id \in Ids /\ worker[v].id \in Nat /\ worker[v].id < nextId
    BY BoundsFacts DEF WorkersOK, TypeOK
  <2>4. CASE nextId' = nextId /\ worker' = [worker EXCEPT ![w] = Idle]
    <3>1. worker'[w] = Idle /\ \A v \in Workers : v # w => worker'[v] = worker[v]
      BY <2>4 DEF TypeOK
    <3>2. Idle.pc = "idle"
      BY DEF Idle
    <3>3. \A v \in Workers : worker'[v].pc = "saving" => v # w
      BY <3>1, <3>2
    <3>4. WorkersOK'
      BY <2>4, <3>1, <3>3 DEF WorkersOK
    <3> QED
      BY <2>2, <3>4
  <2>5. CASE /\ nextId <= MaxStories /\ nextId' = nextId + 1
             /\ \E q \in Seq(QuizQuestion) :
                  Marked(q) /\ worker' = [worker EXCEPT ![w] = [pc |-> "saving", id |-> nextId, quiz |-> q]]
    <3>1. PICK q \in Seq(QuizQuestion) :
            Marked(q) /\ worker' = [worker EXCEPT ![w] = [pc |-> "saving", id |-> nextId, quiz |-> q]]
      BY <2>5
    <3>2. nextId \in Ids
      BY <2>5, BoundsAssumption DEF TypeOK, Ids
    <3>3. worker'[w] = [pc |-> "saving", id |-> nextId, quiz |-> q] /\ \A v \in Workers : v # w => worker'[v] = worker[v]
      BY <3>1 DEF TypeOK
    <3>4. WorkersOK'
      <4>1. SUFFICES ASSUME NEW u \in Workers, worker'[u].pc = "saving"
                     PROVE  /\ worker'[u].id \in Ids /\ worker'[u].id < nextId' /\ Marked(worker'[u].quiz)
                            /\ \A v \in Workers : worker'[v].pc = "saving" /\ worker'[v].id = worker'[u].id => v = u
        BY DEF WorkersOK
      <4>2. CASE u = w
        BY <2>3, <2>5, <3>1, <3>2, <3>3, <4>2
      <4>3. CASE u # w
        BY <2>3, <2>5, <3>3, <4>1, <4>3 DEF WorkersOK
      <4> QED
        BY <4>2, <4>3
    <3> QED
      BY <2>2, <3>4
  <2> QED
    BY <1>2, <2>2, <2>4, <2>5, Generated
<1>3. ASSUME NEW w \in Workers, Commit(w) PROVE WorkersOK' /\ QuizzesOK'
  <2>1. /\ worker[w].pc = "saving" /\ worker[w].id \in Ids /\ worker[w].id < nextId /\ Marked(worker[w].quiz)
        /\ \A v \in Workers : worker[v].pc = "saving" /\ worker[v].id = worker[w].id => v = w
    BY <1>3 DEF Commit, WorkersOK
  <2>2. worker'[w] = Idle /\ \A v \in Workers : v # w => worker'[v] = worker[v]
    BY <1>3 DEF Commit, TypeOK
  <2>3. WorkersOK'
    BY <1>3, <2>2 DEF WorkersOK, Commit, Idle
  <2>7. PICK i \in Ids : i = worker[w].id
    BY <2>1
  <2>4. Public(i)'
    <3>1. nextId' = nextId /\ i < nextId
      BY <1>3, <2>1, <2>7 DEF Commit
    <3>2. \A v \in Workers : worker'[v].pc = "saving" => worker'[v].id # i
      BY <2>1, <2>2, <2>7 DEF Idle
    <3> QED
      BY <3>1, <3>2 DEF Public
  <2>5. \A s \in saved' : Public(s)'
    <3>1. \A s \in saved : Public(s)'
      BY <1>1 DEF QuizzesOK, Grows, TypeOK
    <3>2. saved' = saved \cup {i}
      BY <1>3, <2>7 DEF Commit
    <3> QED
      BY <2>4, <3>1, <3>2
  <2>6. \A s \in Ids : Marked(quiz'[s])
    BY <1>3, <2>1 DEF QuizzesOK, Commit, TypeOK
  <2> QED
    BY <2>3, <2>5, <2>6 DEF QuizzesOK
<1>4. CASE Quiet
  <2>1. WorkersOK'
    BY <1>4 DEF Quiet, WorkersOK
  <2>2. QuizzesOK'
    BY <1>4 DEF Quiet, QuizzesOK, Public
  <2> QED
    BY <2>1, <2>2
<1> QED
  BY <1>2, <1>3, <1>4, QuietSteps DEF Working

-----------------------------------------------------------------------------
(* Types *)

TypeStored == /\ nextId \in Nat \ {0} /\ saved \subseteq Ids /\ quiz \in [Ids -> Seq(QuizQuestion)]
              /\ attempts \subseteq [id : Calls, story : Ids, answers : Seq(Int)]
              /\ flags \subseteq [id : Calls, story : Ids, question : Int]
TypeWorker == worker \in [Workers -> [pc : {"idle", "saving"}, id : Nat, quiz : Seq(QuizQuestion)]]
TypeCall == call \in [Calls -> CallRecord]
TypePage == page \in [story : Nat, selected : Seq(Int), marked : Nat, flagged : SUBSET Int]
TypeListing == listing \in [pc : {"off", "loading", "counting", "shown"}, items : Seq(Ids), rows : Seq(Ids),
                            began : SUBSET Ids, joined : SUBSET Ids, deletes : BOOLEAN]
TypeReview == review \in [pc : {"off", "reading", "broken"}, lines : SUBSET (Ids \X Int),
                          unread : SUBSET Ids, gone : SUBSET Ids]

LEMMA TypeParts == TypeOK <=> /\ TypeStored /\ TypeWorker /\ TypeCall /\ TypePage /\ TypeListing /\ TypeReview
BY DEF TypeOK, TypeStored, TypeWorker, TypeCall, TypePage, TypeListing, TypeReview

LEMMA PageFields ==
  ASSUME TypeOK
  PROVE  page.story \in Nat /\ page.selected \in Seq(Int) /\ page.marked \in Nat /\ page.flagged \subseteq Int
BY DEF TypeOK

LEMMA ListingFields ==
  ASSUME TypeOK
  PROVE  /\ listing.pc \in {"off", "loading", "counting", "shown"} /\ listing.items \in Seq(Ids)
         /\ listing.rows \in Seq(Ids) /\ listing.began \subseteq Ids /\ listing.joined \subseteq Ids
         /\ listing.deletes \in BOOLEAN
BY DEF TypeOK

LEMMA WorkingTypes ==
  ASSUME TypeOK, WorkersOK, NEW w \in Workers, Working(w)
  PROVE  TypeOK'
<1>1. CASE Generate(w)
  <2>1. UNCHANGED <<saved, quiz, attempts, flags, call, page, listing, review>>
    BY <1>1 DEF Generate
  <2>2. TypeWorker' /\ nextId' \in Nat \ {0}
    <3>1. Idle \in [pc : {"idle", "saving"}, id : Nat, quiz : Seq(QuizQuestion)]
      BY DEF Idle
    <3>2. nextId \in Nat \ {0}
      BY DEF TypeOK
    <3>3. CASE nextId' = nextId /\ worker' = [worker EXCEPT ![w] = Idle]
      BY <3>1, <3>2, <3>3 DEF TypeOK, TypeWorker
    <3>4. CASE /\ nextId' = nextId + 1
               /\ \E q \in Seq(QuizQuestion) :
                    Marked(q) /\ worker' = [worker EXCEPT ![w] = [pc |-> "saving", id |-> nextId, quiz |-> q]]
      BY <3>2, <3>4 DEF TypeOK, TypeWorker
    <3> QED
      BY <1>1, <3>3, <3>4, Generated
  <2> QED
    BY <2>1, <2>2 DEF TypeOK, TypeWorker
<1>2. CASE Commit(w)
  <2>1. UNCHANGED <<nextId, attempts, flags, call, page, review>>
    BY <1>2 DEF Commit
  <2>2. worker[w].id \in Ids /\ worker[w].quiz \in Seq(QuizQuestion)
    BY <1>2 DEF Commit, WorkersOK, Marked
  <2>3. TypeStored'
    BY <1>2, <2>1, <2>2 DEF Commit, TypeOK, TypeStored
  <2>4. TypeWorker'
    BY <1>2 DEF Commit, TypeOK, TypeWorker, Idle
  <2>5. TypeListing'
    <3>1. CASE listing' = listing
      BY <3>1 DEF TypeOK, TypeListing
    <3>2. CASE listing' = [listing EXCEPT !.joined = @ \cup {worker[w].id}]
      BY <2>2, <3>2 DEF TypeOK, TypeListing
    <3> QED
      BY <1>2, <3>1, <3>2 DEF Commit
  <2> QED
    BY <2>1, <2>3, <2>4, <2>5 DEF TypeOK, TypeStored, TypeWorker, TypeCall, TypePage, TypeListing, TypeReview
<1> QED
  BY <1>1, <1>2 DEF Working

LEMMA CallTypes ==
  ASSUME TypeOK, CallsOK, NEW n \in Calls, Read(n) \/ Write(n) \/ Answered(n) \/ Lost(n)
  PROVE  TypeOK'
<1> DEFINE c == call[n]
<1>1. c \in CallRecord
  BY DEF TypeOK
<1>2. TypeCall' /\ UNCHANGED <<nextId, quiz, worker, review>>
  <2>1. CASE Read(n)
    <3>1. PICK p \in {"read", "refused"} : call' = [call EXCEPT ![n] = Settled([c EXCEPT !.pc = p])]
      BY <2>1 DEF Read
    <3>2. UNCHANGED <<nextId, quiz, worker, review>>
      BY <2>1 DEF Read, stored
    <3>3. TypeCall'
      <4>1. PICK d \in CallRecord : call' = [call EXCEPT ![n] = d]
        BY <1>1, <3>1, CallWith, SettledFacts
      <4> QED
        BY <4>1 DEF TypeOK, TypeCall
    <3> QED
      BY <3>2, <3>3
  <2>2. CASE Write(n)
    <3>1. PICK p \in {"stored", "refused"} : call' = [call EXCEPT ![n] = Settled([c EXCEPT !.pc = p])]
      <4>1. CASE Delete(n)
        BY <4>1 DEF Delete, TypeOK
      <4>2. CASE Insert(n)
        BY <4>2 DEF Insert
      <4> QED
        BY <2>2, <4>1, <4>2 DEF Write
    <3> QED
      BY <1>1, <2>2, <3>1, CallWith, SettledFacts DEF Write, TypeOK, TypeCall
  <2>3. CASE Answered(n)
    <3>1. call' = [call EXCEPT ![n] = Settled([c EXCEPT !.waiting = "answered"])]
      BY <2>3 DEF Answered
    <3>2. UNCHANGED <<nextId, quiz, worker, review>>
      BY <2>3 DEF Answered, stored
    <3>3. TypeCall'
      <4>1. PICK d \in CallRecord : call' = [call EXCEPT ![n] = d]
        BY <1>1, <3>1, CallWith, SettledFacts
      <4> QED
        BY <4>1 DEF TypeOK, TypeCall
    <3> QED
      BY <3>2, <3>3
  <2>4. CASE Lost(n)
    <3>1. call' = [call EXCEPT ![n] = Settled([c EXCEPT !.waiting = "lost"])]
      BY <2>4 DEF Lost
    <3>2. UNCHANGED <<nextId, quiz, worker, review>>
      BY <2>4 DEF Lost, stored
    <3>3. TypeCall'
      <4>1. PICK d \in CallRecord : call' = [call EXCEPT ![n] = d]
        BY <1>1, <3>1, CallWith, SettledFacts
      <4> QED
        BY <4>1 DEF TypeOK, TypeCall
    <3> QED
      BY <3>2, <3>3
  <2> QED
    BY <2>1, <2>2, <2>3, <2>4
<1>3. TypeStored'
  <2>1. CASE UNCHANGED stored
    BY <2>1 DEF stored, TypeOK, TypeStored
  <2>2. CASE Write(n)
    <3>1. CASE Delete(n)
      BY <1>2, <3>1 DEF Delete, TypeOK, TypeStored
    <3>2. CASE Insert(n)
      <4>1. saved' = saved
        BY <3>2 DEF Insert
      <4>2. attempts' \subseteq [id : Calls, story : Ids, answers : Seq(Int)]
        <5>1. CASE attempts' = attempts
          BY <5>1 DEF TypeOK
        <5>2. CASE c.story \in saved /\ attempts' = attempts \cup {[id |-> n, story |-> c.story, answers |-> c.answers]}
          <6>1. c.story \in Ids /\ c.answers \in Seq(Int)
            BY <1>1, <5>2, CallFields DEF TypeOK
          <6> HIDE DEF c
          <6> QED
            BY <5>2, <6>1 DEF TypeOK
        <5> QED
          BY <3>2, <5>1, <5>2 DEF Insert
      <4>3. flags' \subseteq [id : Calls, story : Ids, question : Int]
        <5>1. CASE flags' = flags
          BY <5>1 DEF TypeOK
        <5>2. CASE c.story \in saved /\ flags' = flags \cup {[id |-> n, story |-> c.story, question |-> c.question]}
          <6>1. c.story \in Ids /\ c.question \in Int
            BY <1>1, <5>2, CallFields DEF TypeOK
          <6> HIDE DEF c
          <6> QED
            BY <5>2, <6>1 DEF TypeOK
        <5> QED
          BY <3>2, <5>1, <5>2 DEF Insert
      <4> QED
        BY <1>2, <4>1, <4>2, <4>3 DEF TypeOK, TypeStored
    <3> QED
      BY <2>2, <3>1, <3>2 DEF Write
  <2> QED
    BY <2>1, <2>2 DEF Read, Answered, Lost
<1>4. TypePage'
  <2>1. CASE UNCHANGED page
    BY <2>1 DEF TypeOK, TypePage
  <2>2. CASE Answered(n)
    <3>1. CASE \E m \in {0, n} : page' = [page EXCEPT !.marked = m]
      <4>1. PICK m \in {0, n} : page' = [page EXCEPT !.marked = m]
        BY <3>1
      <4>2. m \in Nat
        BY BoundsFacts
      <4> QED
        BY <4>1, <4>2 DEF TypeOK, TypePage
    <3>2. CASE page' = [page EXCEPT !.flagged = @ \cup {c.question}]
      <4>1. c.question \in Int
        BY <1>1, CallFields
      <4> HIDE DEF c
      <4> QED
        BY <3>2, <4>1 DEF TypeOK, TypePage
    <3> QED
      BY <2>1, <2>2, <3>1, <3>2 DEF Answered
  <2> QED
    BY <2>1, <2>2 DEF Read, Write, Lost
<1>5. TypeListing'
  <2>1. CASE UNCHANGED listing
    BY <2>1 DEF TypeOK, TypeListing
  <2>2. CASE Delete(n)
    <3>1. PICK b \in BOOLEAN : listing' = [listing EXCEPT !.deletes = b]
      BY <2>2, ListingFields DEF Delete
    <3> QED
      BY <3>1 DEF TypeOK, TypeListing
  <2>3. CASE Answered(n)
    <3>1. CASE \E items \in ListedAfter(listing.items, c) : listing' = [listing EXCEPT !.items = items]
      <4>1. PICK items \in ListedAfter(listing.items, c) : listing' = [listing EXCEPT !.items = items]
        BY <3>1
      <4>2. items \in Seq(Ids)
        <5>1. CASE items = listing.items
          BY <5>1, ListingFields
        <5>2. CASE items \in Entries(listing.items, {i \in DOMAIN listing.items : listing.items[i] # c.story})
          BY <5>2, ListingFields, Kept
        <5> QED
          BY <4>1, <5>1, <5>2 DEF ListedAfter
      <4> QED
        BY <4>1, <4>2 DEF TypeOK, TypeListing
    <3> QED
      BY <2>1, <2>3, <3>1 DEF Answered
  <2> QED
    BY <2>1, <2>2, <2>3 DEF Read, Write, Insert, Lost
<1> QED
  BY <1>2, <1>3, <1>4, <1>5 DEF TypeOK, TypeStored, TypeWorker, TypeCall, TypePage, TypeListing, TypeReview

LEMMA SentType ==
  ASSUME TypeOK, NEW kind \in {"submit", "flag", "delete"}, NEW s \in Nat, NEW a \in Seq(Int), NEW q \in Int,
         NEW waiting \in {"no", "yes"}, Send(kind, s, a, q, waiting)
  PROVE  TypeCall'
<1>1. PICK n \in Calls, c \in CallRecord : call' = [call EXCEPT ![n] = c]
  BY NewCall
<1> QED
  BY <1>1 DEF TypeOK, TypeCall

(* A page that is left waits for nothing any more.                         *)
LEMMA LeftType ==
  ASSUME TypeOK, call' = [n \in Calls |-> Settled([call[n] EXCEPT !.waiting = "no"])]
  PROVE  TypeCall'
<1>1. \A n \in Calls : Settled([call[n] EXCEPT !.waiting = "no"]) \in CallRecord
  <2>1. SUFFICES ASSUME NEW n \in Calls PROVE Settled([call[n] EXCEPT !.waiting = "no"]) \in CallRecord
    OBVIOUS
  <2>2. call[n] \in CallRecord
    BY DEF TypeOK
  <2> QED
    BY <2>2, CallWith, SettledFacts
<1> QED
  BY <1>1 DEF TypeCall

LEMMA FetchedRows ==
  ASSUME TypeOK, FetchRows
  PROVE  /\ \E f \in InOrder(saved) :
              \E rows \in Seq(saved) :
                /\ listing' = [listing EXCEPT !.pc = "counting", !.rows = rows]
                /\ Len(rows) <= PageSize
                /\ Len(listing.items) + Len(rows) <= Cardinality(saved) \/ rows = <<>>
                /\ Len(rows) < PageSize => Len(listing.items) + Len(rows) >= Cardinality(saved)
                /\ \A k \in 1 .. Len(rows) : /\ Len(listing.items) + k \in 1 .. Cardinality(saved)
                                            /\ rows[k] = f[Len(listing.items) + k]
         /\ listing.pc = "loading" /\ UNCHANGED <<stored, worker, call, page, review>>
<1>1. PICK f \in InOrder(saved) :
        listing' = [listing EXCEPT !.pc = "counting",
                     !.rows = SubSeq(f, Len(listing.items) + 1, Smaller(Len(f), Len(listing.items) + PageSize))]
  BY DEF FetchRows
<1>2. IsFiniteSet(saved) /\ saved \subseteq Int /\ PageSize \in Nat \ {0}
  <2>1. saved \in SUBSET Ids
    BY DEF TypeOK
  <2>2. IsFiniteSet(saved)
    BY <2>1, BoundsFacts, FS_Subset
  <2> QED
    BY <2>1, <2>2, BoundsFacts
<1>3. /\ Cardinality(saved) \in Nat /\ f \in [1 .. Cardinality(saved) -> saved]
      /\ \A i \in 1 .. Cardinality(saved) : f[i] \in saved
  BY <1>2, Ordered
<1>4. Len(f) = Cardinality(saved)
  <2>1. f \in Seq(saved)
    BY <1>3, SeqDef
  <2> QED
    BY <1>3, <2>1
<1>5. PICK k0 \in Nat : k0 = Len(listing.items)
  BY ListingFields
<1>6. PICK last \in Int : last = Smaller(Len(f), k0 + PageSize)
  BY <1>2, <1>3, <1>4, <1>5 DEF Smaller
<1>7. /\ last <= Cardinality(saved) /\ last <= k0 + PageSize
      /\ last = Cardinality(saved) \/ last = k0 + PageSize
  BY <1>2, <1>3, <1>4, <1>5, <1>6 DEF Smaller
<1>8. \A i \in k0 + 1 .. last : f[i] \in saved
  BY <1>3, <1>5, <1>7
<1>9. PICK rows \in Seq(saved) :
        /\ rows = SubSeq(f, k0 + 1, last)
        /\ Len(rows) = IF k0 + 1 <= last THEN last - (k0 + 1) + 1 ELSE 0
        /\ \A i \in 1 .. last - (k0 + 1) + 1 : rows[i] = f[k0 + 1 + i - 1]
  <2>1. k0 + 1 \in Int /\ last \in Int
    BY <1>5, <1>6
  <2>2. /\ SubSeq(f, k0 + 1, last) \in Seq(saved)
        /\ Len(SubSeq(f, k0 + 1, last)) = IF k0 + 1 <= last THEN last - (k0 + 1) + 1 ELSE 0
        /\ \A i \in 1 .. last - (k0 + 1) + 1 : SubSeq(f, k0 + 1, last)[i] = f[k0 + 1 + i - 1]
    BY <1>8, <2>1, SubSeqProperties
  <2> QED
    BY <2>2
<1>10. listing' = [listing EXCEPT !.pc = "counting", !.rows = rows]
  BY <1>1, <1>5, <1>6, <1>9
<1>11. /\ Len(rows) <= PageSize
       /\ k0 + Len(rows) <= Cardinality(saved) \/ rows = <<>>
       /\ Len(rows) < PageSize => k0 + Len(rows) >= Cardinality(saved)
  BY <1>2, <1>3, <1>7, <1>9
<1>12. \A k \in 1 .. Len(rows) : k0 + k \in 1 .. Cardinality(saved) /\ rows[k] = f[k0 + k]
  BY <1>3, <1>7, <1>9
<1>13. listing.pc = "loading" /\ UNCHANGED <<stored, worker, call, page, review>>
  BY DEF FetchRows
<1> QED
  BY <1>5, <1>10, <1>11, <1>12, <1>13

LEMMA ReaderTypes ==
  ASSUME TypeOK, ApiClient \/ Reading
  PROVE  TypeOK'
<1>1. UNCHANGED <<stored, worker, listing, review>>
  BY DEF ApiClient, Reading, Open, Leave, Submit, TryAgain, Choose, ReportQuestion
<1>2. /\ page.story \in Nat /\ page.selected \in Seq(Int) /\ page.marked \in Nat /\ page.flagged \subseteq Int
      /\ <<>> \in Seq(Int) /\ 0 \in Nat /\ 0 \in Int
  BY PageFields
<1>3. CASE ApiClient
  <2>1. PICK s \in 1 .. nextId - 1 :
          \/ Send("delete", s, <<>>, 0, "no")
          \/ \E a \in ClientAnswers : Send("submit", s, a, 0, "no")
          \/ \E q \in 0 .. Len(quiz[s]) : Send("flag", s, <<>>, q, "no")
    BY <1>3 DEF ApiClient
  <2>2. s \in Nat
    BY <2>1 DEF TypeOK
  <2>3. TypeCall'
    <3>1. CASE Send("delete", s, <<>>, 0, "no")
      BY <1>2, <2>2, <3>1, SentType
    <3>2. CASE \E a \in ClientAnswers : Send("submit", s, a, 0, "no")
      <4>1. PICK a \in ClientAnswers : Send("submit", s, a, 0, "no")
        BY <3>2
      <4>2. a \in Seq(Int)
        BY ClientAnswersAssumption
      <4> QED
        BY <1>2, <2>2, <4>1, <4>2, SentType
    <3>3. CASE \E q \in 0 .. Len(quiz[s]) : Send("flag", s, <<>>, q, "no")
      <4>1. PICK q \in 0 .. Len(quiz[s]) : Send("flag", s, <<>>, q, "no")
        BY <3>3
      <4>2. q \in Int
        BY <4>1
      <4> QED
        BY <1>2, <2>2, <4>1, <4>2, SentType
    <3> QED
      BY <2>1, <3>1, <3>2, <3>3
  <2>4. page' = page
    BY <1>3 DEF ApiClient
  <2> QED
    BY <1>1, <2>3, <2>4 DEF stored, TypeOK, TypeCall
<1>4. ASSUME NEW s \in Ids, Open(s) PROVE TypeOK'
  <2>1. [i \in DOMAIN quiz[s] |-> Unset] \in Seq(Int)
    <3>1. quiz[s] \in Seq(QuizQuestion)
      BY DEF TypeOK
    <3>2. [i \in DOMAIN quiz[s] |-> Unset] \in [1 .. Len(quiz[s]) -> Int] /\ Len(quiz[s]) \in Nat
      BY <3>1 DEF Unset
    <3> QED
      BY <3>2, SeqDef
  <2>2. TypePage'
    <3>1. s \in Nat
      BY BoundsFacts
    <3>2. PICK z \in Seq(Int) : page' = [Closed EXCEPT !.story = s, !.selected = z]
      BY <1>4, <2>1 DEF Open
    <3>3. page' = [story |-> s, selected |-> z, marked |-> 0, flagged |-> {}]
      BY <3>2 DEF Closed
    <3> QED
      BY <3>1, <3>3 DEF TypePage
  <2> QED
    BY <1>1, <1>4, <2>2 DEF Open, stored, TypeOK, TypePage
<1>5. CASE Leave
  <2>1. TypeCall'
    BY <1>5, LeftType DEF Leave
  <2>2. TypePage'
    BY <1>2, <1>5, BoundsFacts DEF Leave, TypePage, Closed
  <2> QED
    BY <1>1, <2>1, <2>2 DEF stored, TypeOK, TypeCall, TypePage
<1>6. CASE Submit
  <2>1. TypeCall'
    BY <1>2, <1>6, SentType DEF Submit
  <2> QED
    BY <1>1, <1>6, <2>1 DEF Submit, stored, TypeOK, TypeCall
<1>7. CASE TryAgain
  <2>1. [i \in DOMAIN page.selected |-> Unset] \in Seq(Int)
    <3>1. [i \in DOMAIN page.selected |-> Unset] \in [1 .. Len(page.selected) -> Int] /\ Len(page.selected) \in Nat
      BY <1>2 DEF Unset
    <3> QED
      BY <3>1, SeqDef
  <2>2. TypePage'
    <3>1. PICK z \in Seq(Int) : page' = [page EXCEPT !.marked = 0, !.selected = z]
      BY <1>7, <2>1 DEF TryAgain
    <3> QED
      BY <3>1 DEF TypeOK, TypePage
  <2> QED
    BY <1>1, <1>7, <2>2 DEF TryAgain, stored, TypeOK, TypePage
<1>8. ASSUME NEW i \in DOMAIN page.selected, NEW o \in 0 .. Len(quiz[page.story][i].options) - 1, Choose(i, o)
      PROVE  TypeOK'
  <2>1. o \in Int
    OBVIOUS
  <2>2. [page.selected EXCEPT ![i] = o] \in Seq(Int)
    BY <1>2, <2>1
  <2>3. PICK z \in Seq(Int) : page' = [page EXCEPT !.selected = z]
    BY <1>8, <2>2 DEF Choose
  <2>4. TypePage'
    BY <2>3 DEF TypeOK, TypePage
  <2> QED
    BY <1>1, <1>8, <2>4 DEF Choose, stored, TypeOK, TypePage
<1>9. ASSUME NEW i \in DOMAIN page.selected, ReportQuestion(i - 1) PROVE TypeOK'
  <2>1. i - 1 \in Int
    BY <1>2
  <2>2. TypeCall'
    BY <1>2, <1>9, <2>1, SentType DEF ReportQuestion
  <2> QED
    BY <1>1, <1>9, <2>2 DEF ReportQuestion, stored, TypeOK, TypeCall
<1> QED
  BY <1>3, <1>4, <1>5, <1>6, <1>7, <1>8, <1>9 DEF Reading

LEMMA ListingTypes ==
  ASSUME TypeOK, Listing
  PROVE  TypeOK'
<1>1. UNCHANGED <<stored, worker, page, review>>
  BY DEF Listing, StartListing, LeaveListing, FetchRows, FetchCount, ListingFails, ConfirmDelete
<1>2. /\ listing.items \in Seq(Ids) /\ listing.rows \in Seq(Ids) /\ saved \subseteq Ids
      /\ <<>> \in Seq(Ids) /\ <<>> \in Seq(Int)
  BY ListingFields DEF TypeOK
<1>3. ASSUME TypeListing', TypeCall' PROVE TypeOK'
  BY <1>1, <1>3 DEF stored, TypeOK, TypeListing, TypeCall
<1>4. ASSUME call' = call PROVE TypeCall'
  BY <1>4 DEF TypeOK, TypeCall
<1>5. CASE StartListing
  <2>1. TypeListing'
    BY <1>2, <1>5 DEF StartListing, TypeOK, TypeListing
  <2> QED
    BY <1>3, <1>4, <1>5, <2>1 DEF StartListing
<1>6. NotListing \in [pc : {"off", "loading", "counting", "shown"}, items : Seq(Ids), rows : Seq(Ids),
                      began : SUBSET Ids, joined : SUBSET Ids, deletes : BOOLEAN]
  BY <1>2 DEF NotListing
<1>7. CASE LeaveListing
  <2>1. TypeListing'
    BY <1>6, <1>7 DEF LeaveListing, TypeListing
  <2>2. TypeCall'
    BY <1>7, LeftType DEF LeaveListing
  <2> QED
    BY <1>3, <2>1, <2>2
<1>8. CASE ListingFails
  <2>1. TypeListing'
    BY <1>6, <1>8 DEF ListingFails, TypeListing
  <2> QED
    BY <1>3, <1>4, <1>8, <2>1 DEF ListingFails
<1>9. CASE FetchRows
  <2>1. PICK rows \in Seq(saved) : listing' = [listing EXCEPT !.pc = "counting", !.rows = rows]
    BY <1>9, FetchedRows
  <2>2. rows \in Seq(Ids)
    BY <1>2, <2>1, SeqMonotonic
  <2>3. TypeListing'
    BY <2>1, <2>2 DEF TypeOK, TypeListing
  <2> QED
    BY <1>3, <1>4, <1>9, <2>3 DEF FetchRows
<1>10. CASE FetchCount
  <2>1. PICK p \in {"shown", "loading"}, items \in Seq(Ids) :
          listing' = [listing EXCEPT !.items = items, !.rows = <<>>, !.pc = p]
    <3>1. listing.items \o listing.rows \in Seq(Ids)
      BY <1>2, ConcatProperties
    <3> QED
      BY <1>10, <3>1 DEF FetchCount
  <2>2. TypeListing'
    BY <1>2, <2>1 DEF TypeOK, TypeListing
  <2> QED
    BY <1>3, <1>4, <1>10, <2>2 DEF FetchCount
<1>11. ASSUME NEW s \in Ids, ConfirmDelete(s) PROVE TypeOK'
  <2>1. s \in Nat /\ 0 \in Int
    BY BoundsFacts
  <2>2. TypeCall'
    BY <1>2, <1>11, <2>1, SentType DEF ConfirmDelete
  <2>3. TypeListing'
    BY <1>11 DEF ConfirmDelete, TypeOK, TypeListing
  <2> QED
    BY <1>3, <2>2, <2>3
<1> QED
  BY <1>5, <1>7, <1>8, <1>9, <1>10, <1>11 DEF Listing

LEMMA ReviewFields ==
  ASSUME TypeOK
  PROVE  /\ review.pc \in {"off", "reading", "broken"} /\ review.lines \subseteq Ids \X Int
         /\ review.unread \subseteq Ids /\ review.gone \subseteq Ids
BY DEF TypeOK

LEMMA ReviewTypes ==
  ASSUME TypeOK, Summarise \/ (\E s \in Ids : LoadStory(s)) \/ Finish
  PROVE  TypeOK'
<1>1. UNCHANGED <<stored, worker, call, page, listing>>
  BY DEF Summarise, LoadStory, Finish
<1>2. ASSUME TypeReview' PROVE TypeOK'
  BY <1>1, <1>2 DEF stored, TypeOK, TypeReview
<1>3. CASE Summarise
  <2>1. \A f \in flags : f.story \in Ids /\ f.question \in Int
    BY DEF TypeOK
  <2>2. TypeReview'
    BY <1>3, <2>1 DEF Summarise, TypeReview
  <2> QED
    BY <1>2, <2>2
<1>4. ASSUME NEW s \in Ids, LoadStory(s) PROVE TypeOK'
  <2>1. PICK u \in SUBSET Ids, g \in SUBSET Ids : review' = [review EXCEPT !.unread = u, !.gone = g]
    BY <1>4, ReviewFields DEF LoadStory
  <2>2. TypeReview'
    BY <2>1 DEF TypeOK, TypeReview
  <2> QED
    BY <1>2, <2>2
<1>5. CASE Finish
  <2>1. review' = [review EXCEPT !.pc = "broken"] \/ review' = NotReviewing
    BY <1>5 DEF Finish
  <2>2. TypeReview'
    <3>1. CASE review' = [review EXCEPT !.pc = "broken"]
      BY <3>1 DEF TypeOK, TypeReview
    <3>2. CASE review' = NotReviewing
      BY <3>2 DEF NotReviewing, TypeReview
    <3> QED
      BY <2>1, <3>1, <3>2
  <2> QED
    BY <1>2, <2>2
<1> QED
  BY <1>3, <1>4, <1>5

LEMMA TypeStep ==
  ASSUME TypeOK, WorkersOK, CallsOK, [Next]_vars
  PROVE  TypeOK'
<1>1. CASE UNCHANGED vars
  BY <1>1 DEF vars, TypeOK
<1> QED
  BY <1>1, WorkingTypes, CallTypes, ReaderTypes, ListingTypes, ReviewTypes DEF Next

-----------------------------------------------------------------------------
(* Rows and calls *)

(* A row goes only with its story.                                         *)
RowsKept == /\ \A a \in attempts : a.story \in saved' => a \in attempts'
            /\ \A f \in flags : f.story \in saved' => f \in flags'

(* Where nothing is written, the rows are as they were.                    *)
LEMMA RowsQuiet ==
  ASSUME [Next]_vars
  PROVE  (\E n \in Calls : Write(n)) \/ UNCHANGED <<attempts, flags>>
<1>1. CASE UNCHANGED vars
  BY <1>1 DEF vars
<1>2. ASSUME NEW n \in Calls, Read(n) \/ Answered(n) \/ Lost(n) PROVE UNCHANGED <<attempts, flags>>
  BY <1>2 DEF Read, Answered, Lost, stored
<1>3. ASSUME NEW w \in Workers, Working(w) PROVE UNCHANGED <<attempts, flags>>
  BY <1>3 DEF Working, Generate, Commit
<1>4. CASE ApiClient
  BY <1>4 DEF ApiClient, stored
<1>5. CASE Reading
  BY <1>5 DEF Reading, Open, Leave, Submit, TryAgain, Choose, ReportQuestion, stored
<1>6. CASE Listing
  BY <1>6 DEF Listing, StartListing, LeaveListing, FetchRows, FetchCount, ListingFails, ConfirmDelete, stored
<1>7. CASE Summarise \/ (\E s \in Ids : LoadStory(s)) \/ Finish
  BY <1>7 DEF Summarise, LoadStory, Finish, stored
<1> QED
  BY <1>1, <1>2, <1>3, <1>4, <1>5, <1>6, <1>7 DEF Next

LEMMA RowsStep ==
  ASSUME TypeOK, WorkersOK, QuizzesOK, RowsOK, CallsOK, [Next]_vars
  PROVE  RowsOK' /\ RowsKept
<1>1. Grows
  BY GrowsStep
<1>2. \A s \in saved : s \in Ids /\ quiz'[s] = quiz[s]
  BY <1>1 DEF QuizzesOK, Grows, TypeOK
<1>3. CASE UNCHANGED <<attempts, flags>>
  <2>1. RowsKept
    BY <1>3 DEF RowsKept
  <2>2. (\E w \in Workers : Working(w)) \/ Quiet
    BY QuietSteps
  <2>3. saved \subseteq saved' \/ \E n \in Calls : Delete(n)
    <3>1. CASE \E w \in Workers : Working(w)
      BY <3>1 DEF Working, Generate, Commit
    <3>2. ASSUME NEW n \in Calls, Write(n) PROVE saved' = saved \/ Delete(n)
      BY <3>2 DEF Write, Insert
    <3>3. CASE UNCHANGED vars
      BY <3>3 DEF vars
    <3>4. ASSUME NEW n \in Calls, Read(n) \/ Answered(n) \/ Lost(n) PROVE saved' = saved
      BY <3>4 DEF Read, Answered, Lost, stored
    <3>5. CASE ApiClient
      BY <3>5 DEF ApiClient, stored
    <3>6. CASE Reading
      BY <3>6 DEF Reading, Open, Leave, Submit, TryAgain, Choose, ReportQuestion, stored
    <3>7. CASE Listing
      BY <3>7 DEF Listing, StartListing, LeaveListing, FetchRows, FetchCount, ListingFails, ConfirmDelete, stored
    <3>8. CASE Summarise \/ (\E s \in Ids : LoadStory(s)) \/ Finish
      BY <3>8 DEF Summarise, LoadStory, Finish, stored
    <3> QED
      BY <3>1, <3>2, <3>3, <3>4, <3>5, <3>6, <3>7, <3>8 DEF Next
  <2>4. CASE saved \subseteq saved'
    <3>1. attempts' = attempts /\ flags' = flags
      BY <1>3
    <3>2. ASSUME NEW a \in attempts PROVE a.story \in saved' /\ Len(a.answers) = Len(quiz'[a.story])
      <4>1. a.story \in saved /\ Len(a.answers) = Len(quiz[a.story])
        BY DEF RowsOK
      <4> QED
        BY <1>2, <2>4, <4>1
    <3>3. ASSUME NEW f \in flags PROVE f.story \in saved' /\ f.question < Len(quiz'[f.story])
      <4>1. f.story \in saved /\ f.question < Len(quiz[f.story])
        BY DEF RowsOK
      <4> QED
        BY <1>2, <2>4, <4>1
    <3>4. RowsOK'
      BY <3>1, <3>2, <3>3 DEF RowsOK
    <3> QED
      BY <2>1, <3>4
  <2>5. ASSUME NEW n \in Calls, Delete(n) PROVE RowsOK'
    BY <1>2, <1>3, <2>5 DEF RowsOK, Delete
  <2> QED
    BY <2>1, <2>3, <2>4, <2>5 DEF RowsKept
<1>4. ASSUME NEW n \in Calls, Write(n) PROVE RowsOK' /\ RowsKept
  <2>1. quiz' = quiz
    BY <1>4 DEF Write
  <2>2. CASE Delete(n)
    <3>1. RowsKept
      BY <2>2 DEF Delete, RowsKept
    <3>2. RowsOK'
      BY <2>1, <2>2 DEF Delete, RowsOK
    <3> QED
      BY <3>1, <3>2
  <2>3. CASE Insert(n)
    <3> DEFINE c == call[n]
    <3>1. c.pc = "read" /\ saved' = saved
      BY <1>4, <2>3 DEF Write, Insert
    <3>2. CASE UNCHANGED <<attempts, flags>>
      BY <1>3, <3>2
    <3>3. CASE /\ c.kind = "submit" /\ UNCHANGED flags /\ c.story \in saved
               /\ attempts' = attempts \cup {[id |-> n, story |-> c.story, answers |-> c.answers]}
      <4>1. Len(c.answers) = Len(quiz[c.story])
        BY <3>1, <3>3 DEF CallsOK, CallOK
      <4> HIDE DEF c
      <4> QED
        BY <2>1, <3>1, <3>3, <4>1 DEF RowsOK, RowsKept
    <3>4. CASE /\ c.kind = "flag" /\ UNCHANGED attempts /\ c.story \in saved
               /\ flags' = flags \cup {[id |-> n, story |-> c.story, question |-> c.question]}
      <4>1. c.question < Len(quiz[c.story])
        BY <3>1, <3>4 DEF CallsOK, CallOK
      <4> HIDE DEF c
      <4> QED
        BY <2>1, <3>1, <3>4, <4>1 DEF RowsOK, RowsKept
    <3> QED
      BY <2>3, <3>2, <3>3, <3>4 DEF Insert
  <2> QED
    BY <1>4, <2>2, <2>3 DEF Write
<1> QED
  BY <1>3, <1>4, RowsQuiet

(* What holds of a call that no step touches still holds.                  *)
LEMMA CallStays ==
  ASSUME TypeOK, Grows, RowsKept, NEW n \in Calls, NEW c \in CallRecord, CallOK(n, c)
  PROVE  CallOK(n, c)'
<1>1. c.pc \in {"read", "stored"} => /\ Public(c.story)' /\ c.story \in Ids /\ quiz'[c.story] = quiz[c.story]
                                     /\ c.story \in saved' => c.story \in saved
  BY DEF CallOK, Grows, Public
<1>2. [id |-> n, story |-> c.story, answers |-> c.answers] \in attempts /\ c.story \in saved' =>
        [id |-> n, story |-> c.story, answers |-> c.answers] \in attempts'
  BY DEF RowsKept
<1>3. [id |-> n, story |-> c.story, question |-> c.question] \in flags /\ c.story \in saved' =>
        [id |-> n, story |-> c.story, question |-> c.question] \in flags'
  BY DEF RowsKept
<1> QED
  BY <1>1, <1>2, <1>3 DEF CallOK

LEMMA SettledOK ==
  ASSUME NEW n, NEW c \in CallRecord, CallOK(n, c)
  PROVE  CallOK(n, Settled(c)) /\ CallOK(n, Spent)
<1>1. Spent.pc = "spent" /\ Spent.kind = "none" /\ Settled(c) \in {c, Spent}
  BY SettledFacts
<1>2. CallOK(n, Spent)
  BY <1>1 DEF CallOK
<1> QED
  BY <1>1, <1>2

(* What a page knows of its call changes nothing of what was carried out.  *)
LEMMA WaitingOK ==
  ASSUME NEW n, NEW c \in CallRecord, CallOK(n, c), NEW x \in {"no", "yes", "answered", "lost"},
         c.pc # "unsent" \/ x = "no"
  PROVE  CallOK(n, [c EXCEPT !.waiting = x])
<1>1. PICK d \in CallRecord :
        /\ d = [c EXCEPT !.waiting = x]
        /\ d = [kind |-> c.kind, story |-> c.story, answers |-> c.answers,
                question |-> c.question, pc |-> c.pc, waiting |-> x]
  <2>1. "sent" \in {"unsent", "sent", "read", "stored", "refused", "spent"}
    OBVIOUS
  <2>2. /\ [c EXCEPT !.waiting = x] \in CallRecord
        /\ [c EXCEPT !.waiting = x] = [kind |-> c.kind, story |-> c.story, answers |-> c.answers,
                                       question |-> c.question, pc |-> c.pc, waiting |-> x]
    BY <2>1, CallWith
  <2> QED
    BY <2>2
<1>2. d.kind = c.kind /\ d.story = c.story /\ d.answers = c.answers /\ d.question = c.question /\ d.pc = c.pc
  BY <1>1
<1>3. c.pc = "unsent" => d = Unsent
  <2>1. SUFFICES ASSUME c.pc = "unsent" PROVE d = Unsent
    OBVIOUS
  <2>2. x = "no" /\ c = Unsent
    BY <2>1 DEF CallOK
  <2> QED
    BY <1>1, <2>2 DEF Unsent
<1>4. CallOK(n, d)
  BY <1>2, <1>3 DEF CallOK
<1> QED
  BY <1>1, <1>4

LEMMA CallsStep ==
  ASSUME TypeOK, WorkersOK, QuizzesOK, RowsOK, CallsOK, [Next]_vars
  PROVE  CallsOK'
<1>1. Grows /\ RowsKept
  BY GrowsStep, RowsStep
<1>2. \A n \in Calls : call[n] \in CallRecord /\ CallOK(n, call[n])
  BY DEF TypeOK, CallsOK
<1>3. ASSUME NEW n \in Calls, NEW c \in CallRecord, CallOK(n, c) PROVE CallOK(n, c)'
  BY <1>1, <1>3, CallStays
<1>4. ASSUME NEW n \in Calls, NEW d \in CallRecord, CallOK(n, d)', call' = [call EXCEPT ![n] = d]
      PROVE  CallsOK'
  <2>1. call'[n] = d /\ \A m \in Calls : m # n => call'[m] = call[m]
    BY <1>4 DEF TypeOK
  <2>2. ASSUME NEW m \in Calls PROVE CallOK(m, call[m])'
    <3>1. PICK c \in CallRecord : c = call[m] /\ c = call[m]
      BY <1>2
    <3>2. CASE m = n
      <4>1. CallOK(m, d)' /\ call'[m] = d
        BY <1>4, <2>1, <3>2
      <4> QED
        BY <4>1 DEF CallOK
    <3>3. CASE m # n
      <4>1. CallOK(m, c)'
        BY <1>2, <1>3, <3>1
      <4>2. call'[m] = c
        BY <2>1, <3>1, <3>3
      <4> QED
        BY <4>1, <4>2 DEF CallOK
    <3> QED
      BY <3>2, <3>3
  <2> QED
    BY <2>2 DEF CallsOK
<1>5. ASSUME call' = call PROVE CallsOK'
  <2>1. ASSUME NEW m \in Calls PROVE CallOK(m, call[m])'
    <3>1. PICK c \in CallRecord : c = call[m]
      BY <1>2
    <3>2. CallOK(m, c)'
      BY <1>2, <1>3, <3>1
    <3>3. call'[m] = c
      BY <1>5, <3>1
    <3> QED
      BY <3>2, <3>3 DEF CallOK
  <2> QED
    BY <2>1 DEF CallsOK
<1>6. ASSUME call' = [n \in Calls |-> Settled([call[n] EXCEPT !.waiting = "no"])] PROVE CallsOK'
  <2>1. ASSUME NEW m \in Calls PROVE CallOK(m, call[m])'
    <3>1. PICK c \in CallRecord : c = call[m]
      BY <1>2
    <3>2. PICK d \in CallRecord : d = Settled([c EXCEPT !.waiting = "no"]) /\ CallOK(m, d)
      <4>1. [c EXCEPT !.waiting = "no"] \in CallRecord /\ CallOK(m, [c EXCEPT !.waiting = "no"])
        BY <1>2, <3>1, CallWith, WaitingOK
      <4> QED
        BY <4>1, SettledFacts, SettledOK
    <3>3. CallOK(m, d)' /\ call'[m] = d
      BY <1>3, <1>6, <3>1, <3>2
    <3> QED
      BY <3>3 DEF CallOK
  <2> QED
    BY <2>1 DEF CallsOK
<1>7. ASSUME NEW kind \in {"submit", "flag", "delete"}, NEW s \in Nat, NEW a \in Seq(Int), NEW q \in Int,
             NEW waiting \in {"no", "yes"}, Send(kind, s, a, q, waiting), kind = "submit" => q = 0
      PROVE  CallsOK'
  <2>1. PICK n \in Calls, d \in CallRecord :
          /\ call' = [call EXCEPT ![n] = d]
          /\ d = [kind |-> kind, story |-> s, answers |-> a, question |-> q, pc |-> "sent", waiting |-> waiting]
    BY <1>7, NewCall
  <2>2. d.pc = "sent" /\ d.kind = kind /\ d.question = q
    BY <2>1
  <2>3. CallOK(n, d)'
    BY <1>7, <2>2 DEF CallOK
  <2> QED
    BY <1>4, <2>1, <2>3
<1>8. ASSUME NEW w \in Workers, Working(w) PROVE CallsOK'
  BY <1>5, <1>8 DEF Working, Generate, Commit
<1>9. ASSUME NEW n \in Calls, Read(n) PROVE CallsOK'
  <2>1. PICK c \in CallRecord : c = call[n] /\ CallOK(n, c)
    BY <1>2
  <2>2. PICK p \in {"read", "refused"} :
          /\ call' = [call EXCEPT ![n] = Settled([c EXCEPT !.pc = p])]
          /\ p = "read" => c.story \in saved /\ Fits(c)
    BY <1>9, <2>1 DEF Read
  <2>3. UNCHANGED stored /\ UNCHANGED worker
    BY <1>9 DEF Read
  <2>8. p \in {"read", "stored", "refused"}
    OBVIOUS
  <2>4. PICK d \in CallRecord :
          /\ d = [c EXCEPT !.pc = p]
          /\ d.kind = c.kind /\ d.story = c.story /\ d.answers = c.answers /\ d.question = c.question
          /\ d.pc = p /\ d.waiting = c.waiting
    BY Zenon, <2>8, Advanced
  <2>5. CallOK(n, d)
    <3>1. c.kind = "submit" => c.question = 0
      BY <2>1 DEF CallOK
    <3>2. p = "read" => Public(c.story)
      BY <2>2 DEF QuizzesOK
    <3>3. p = "read" => /\ c.kind = "submit" => Len(c.answers) = Len(quiz[c.story])
                        /\ c.kind = "flag" => c.question < Len(quiz[c.story])
      BY <2>2 DEF Fits
    <3> QED
      BY <2>4, <3>1, <3>2, <3>3 DEF CallOK
  <2>6. PICK e \in CallRecord : e = Settled(d) /\ CallOK(n, e)
    BY <2>5, SettledFacts, SettledOK
  <2>7. call' = [call EXCEPT ![n] = e]
    BY <2>2, <2>4, <2>6
  <2> QED
    BY <1>3, <1>4, <2>6, <2>7
<1>10. ASSUME NEW n \in Calls, Write(n) PROVE CallsOK'
  <2>1. PICK c \in CallRecord : c = call[n] /\ CallOK(n, c) /\ CallOK(n, c)'
    BY <1>2, <1>3
  <2>2. c.pc = "read" /\ Public(c.story)' /\ (c.kind = "submit" => c.question = 0)
    BY <1>10, <2>1 DEF Write, CallOK
  <2>3. PICK p \in {"stored", "refused"} :
          /\ call' = [call EXCEPT ![n] = Settled([c EXCEPT !.pc = p])]
          /\ (p = "stored" /\ c.story \in saved') =>
               /\ c.kind = "submit" => [id |-> n, story |-> c.story, answers |-> c.answers] \in attempts'
               /\ c.kind = "flag" => [id |-> n, story |-> c.story, question |-> c.question] \in flags'
               /\ c.kind # "delete"
    <3>1. CASE c.kind = "delete"
      <4>1. Delete(n)
        BY <1>10, <2>1, <3>1 DEF Write
      <4>2. call' = [call EXCEPT ![n] = Settled([c EXCEPT !.pc = "stored"])]
        BY <2>1, <4>1 DEF Delete, TypeOK
      <4>3. c.story \notin saved'
        BY <2>1, <4>1 DEF Delete
      <4> QED
        BY <4>2, <4>3
    <3>2. CASE c.kind # "delete"
      <4>1. Insert(n)
        BY <1>10, <2>1, <3>2 DEF Write
      <4> QED
        BY <2>1, <3>2, <4>1 DEF Insert
    <3> QED
      BY <3>1, <3>2
  <2>8. p \in {"read", "stored", "refused"}
    OBVIOUS
  <2>4. PICK d \in CallRecord :
          /\ d = [c EXCEPT !.pc = p]
          /\ d.kind = c.kind /\ d.story = c.story /\ d.answers = c.answers /\ d.question = c.question
          /\ d.pc = p /\ d.waiting = c.waiting
    BY Zenon, <2>8, Advanced
  <2>5. CallOK(n, d)'
    BY <2>2, <2>3, <2>4 DEF CallOK
  <2>6. PICK e \in CallRecord : e = Settled(d) /\ CallOK(n, e)'
    <3>1. Settled(d) \in {d, Spent} /\ Settled(d) \in CallRecord /\ Spent.pc = "spent" /\ Spent.kind = "none"
      BY SettledFacts
    <3>2. PICK e \in CallRecord : e = Settled(d)
      BY <3>1
    <3>3. e = d \/ (e.pc = "spent" /\ e.kind = "none")
      BY <3>1, <3>2
    <3>4. e.pc = "spent" /\ e.kind = "none" => CallOK(n, e)'
      BY DEF CallOK
    <3>5. e = d => CallOK(n, e)'
      BY <2>5
    <3> QED
      BY <3>2, <3>3, <3>4, <3>5
  <2>7. call' = [call EXCEPT ![n] = e]
    BY <2>3, <2>4, <2>6
  <2> QED
    BY <1>4, <2>6, <2>7
<1>11. ASSUME NEW n \in Calls, Answered(n) \/ Lost(n) PROVE CallsOK'
  <2>1. PICK c \in CallRecord : c = call[n] /\ CallOK(n, c)
    BY <1>2
  <2>2. c.waiting = "yes"
    BY <1>11, <2>1 DEF Answered, Lost
  <2>3. c.pc # "unsent"
    BY <2>1, <2>2 DEF CallOK, Unsent
  <2>4. PICK x \in {"answered", "lost"} : call' = [call EXCEPT ![n] = Settled([c EXCEPT !.waiting = x])]
    BY <1>11, <2>1 DEF Answered, Lost
  <2>5. PICK d \in CallRecord : d = [c EXCEPT !.waiting = x] /\ CallOK(n, d)
    BY <2>1, <2>3, CallWith, WaitingOK
  <2>6. PICK e \in CallRecord : e = Settled(d) /\ CallOK(n, e)
    BY <2>5, SettledFacts, SettledOK
  <2>7. call' = [call EXCEPT ![n] = e]
    BY <2>4, <2>5, <2>6
  <2> QED
    BY <1>3, <1>4, <2>6, <2>7
<1>12. /\ page.story \in Nat /\ page.selected \in Seq(Int) /\ <<>> \in Seq(Int)
       /\ \A i \in DOMAIN page.selected : i - 1 \in Int
       /\ 0 \in Int /\ \A k \in {"submit", "flag", "delete"} : k = "delete" => k # "submit"
  BY PageFields
<1>13. CASE ApiClient
  <2>1. PICK s \in 1 .. nextId - 1 :
          \/ Send("delete", s, <<>>, 0, "no")
          \/ \E a \in ClientAnswers : Send("submit", s, a, 0, "no")
          \/ \E q \in 0 .. Len(quiz[s]) : Send("flag", s, <<>>, q, "no")
    BY <1>13 DEF ApiClient
  <2>2. s \in Nat /\ \A a \in ClientAnswers : a \in Seq(Int)
    BY <2>1, ClientAnswersAssumption DEF TypeOK
  <2>3. CASE Send("delete", s, <<>>, 0, "no")
    BY <1>7, <1>12, <2>2, <2>3
  <2>4. CASE \E a \in ClientAnswers : Send("submit", s, a, 0, "no")
    BY <1>7, <2>2, <2>4
  <2>5. CASE \E q \in 0 .. Len(quiz[s]) : Send("flag", s, <<>>, q, "no")
    <3>1. PICK q \in 0 .. Len(quiz[s]) : Send("flag", s, <<>>, q, "no")
      BY <2>5
    <3>2. q \in Int
      BY <3>1
    <3> QED
      BY <1>7, <1>12, <2>2, <3>1, <3>2
  <2> QED
    BY <2>1, <2>3, <2>4, <2>5
<1>14. CASE Reading
  <2>1. ASSUME NEW i \in DOMAIN page.selected, ReportQuestion(i - 1) PROVE CallsOK'
    BY <1>7, <1>12, <2>1 DEF ReportQuestion
  <2>2. CASE Submit
    BY <1>7, <1>12, <2>2 DEF Submit
  <2>3. CASE Leave
    BY <1>6, <2>3 DEF Leave
  <2>4. ASSUME NEW s \in Ids, Open(s) PROVE CallsOK'
    BY <1>5, <2>4 DEF Open
  <2>5. CASE TryAgain
    BY <1>5, <2>5 DEF TryAgain
  <2>6. ASSUME NEW i, NEW o, Choose(i, o) PROVE CallsOK'
    BY <1>5, <2>6 DEF Choose
  <2> QED
    BY <1>14, <2>1, <2>2, <2>3, <2>4, <2>5, <2>6 DEF Reading
<1>15. CASE Listing
  <2>1. ASSUME NEW s \in Ids, ConfirmDelete(s) PROVE CallsOK'
    <3>1. s \in Nat /\ 0 \in Int
      BY BoundsFacts
    <3> QED
      BY <1>7, <1>12, <2>1, <3>1 DEF ConfirmDelete
  <2>2. CASE LeaveListing
    BY <1>6, <2>2 DEF LeaveListing
  <2>3. CASE StartListing \/ FetchRows \/ FetchCount \/ ListingFails
    BY <1>5, <2>3 DEF StartListing, FetchRows, FetchCount, ListingFails
  <2> QED
    BY <1>15, <2>1, <2>2, <2>3 DEF Listing
<1>16. CASE Summarise \/ (\E s \in Ids : LoadStory(s)) \/ Finish
  BY <1>5, <1>16 DEF Summarise, LoadStory, Finish
<1>17. CASE UNCHANGED vars
  BY <1>5, <1>17 DEF vars
<1> QED
  BY <1>8, <1>9, <1>10, <1>11, <1>13, <1>14, <1>15, <1>16, <1>17 DEF Next

-----------------------------------------------------------------------------
(* The review *)

LEMMA ReviewStep ==
  ASSUME TypeOK, WorkersOK, QuizzesOK, RowsOK, ReviewOK, [Next]_vars
  PROVE  ReviewOK'
<1>1. Grows
  BY GrowsStep
<1>2. CASE UNCHANGED review
  <2>1. \A l \in review.lines : Public(l[1])' /\ l[2] < Len(quiz'[l[1]])
    <3>1. SUFFICES ASSUME NEW l \in review.lines PROVE Public(l[1])' /\ l[2] < Len(quiz'[l[1]])
      OBVIOUS
    <3>2. PICK s \in Ids : s = l[1]
      BY ReviewFields
    <3>3. Public(s) /\ l[2] < Len(quiz[s])
      BY <3>2 DEF ReviewOK
    <3> QED
      BY <1>1, <3>2, <3>3 DEF Grows
  <2>2. review.gone \cap saved' = {}
    <3>1. SUFFICES ASSUME NEW s \in review.gone, s \in saved' PROVE FALSE
      OBVIOUS
    <3>2. PICK l \in review.lines : l[1] = s
      BY <3>1 DEF ReviewOK
    <3>3. Public(s) /\ s \in Ids
      BY <3>2 DEF ReviewOK, Public
    <3>4. s \in saved
      BY <1>1, <3>1, <3>3 DEF Grows
    <3> QED
      BY <3>4 DEF ReviewOK
  <2> QED
    BY <1>2, <2>1, <2>2 DEF ReviewOK
<1>3. CASE Summarise
  <2>1. /\ UNCHANGED <<saved, quiz, nextId, worker, flags>>
        /\ review' = [pc |-> "reading", lines |-> {<<f.story, f.question>> : f \in flags},
                      unread |-> {f.story : f \in flags}, gone |-> {}]
    BY <1>3 DEF Summarise, stored
  <2>2. \A f \in flags : Public(f.story) /\ f.question < Len(quiz[f.story])
    BY DEF RowsOK, QuizzesOK
  <2>3. /\ \A l \in review'.lines : Public(l[1]) /\ l[2] < Len(quiz[l[1]])
        /\ \A s \in review'.unread : \E l \in review'.lines : l[1] = s
        /\ review'.gone = {} /\ review'.pc = "reading"
    <3>1. PICK L : L = {<<f.story, f.question>> : f \in flags}
      OBVIOUS
    <3>2. PICK U : U = {f.story : f \in flags}
      OBVIOUS
    <3>3. review'.lines = L /\ review'.unread = U /\ review'.gone = {} /\ review'.pc = "reading"
      BY <2>1, <3>1, <3>2
    <3>4. ASSUME NEW l \in L PROVE Public(l[1]) /\ l[2] < Len(quiz[l[1]])
      <4>1. PICK f \in flags : l = <<f.story, f.question>>
        BY <3>1
      <4>2. l[1] = f.story /\ l[2] = f.question
        BY <4>1
      <4> QED
        BY <2>2, <4>2
    <3>5. ASSUME NEW s \in U PROVE \E l \in L : l[1] = s
      <4>1. PICK f \in flags : s = f.story
        BY <3>2
      <4>2. <<f.story, f.question>> \in L /\ <<f.story, f.question>>[1] = s
        BY <3>1, <4>1
      <4> QED
        BY <4>2
    <3> QED
      BY <3>3, <3>4, <3>5
  <2> QED
    BY <2>1, <2>3 DEF ReviewOK, Public
<1>4. ASSUME NEW s \in Ids, LoadStory(s) PROVE ReviewOK'
  <2>1. /\ UNCHANGED <<saved, quiz, nextId, worker>> /\ s \in review.unread
        /\ \/ s \in saved /\ review' = [review EXCEPT !.unread = review.unread \ {s}, !.gone = review.gone]
           \/ s \notin saved /\ review' = [review EXCEPT !.unread = review.unread \ {s}, !.gone = review.gone \cup {s}]
    BY <1>4 DEF LoadStory, stored
  <2>2. /\ review'.lines = review.lines /\ review'.pc = review.pc
        /\ review'.unread \subseteq review.unread
        /\ review'.gone = review.gone \/ (s \notin saved /\ review'.gone = review.gone \cup {s})
    <3>1. CASE s \in saved /\ review' = [review EXCEPT !.unread = review.unread \ {s}, !.gone = review.gone]
      <4>1. PICK u : u = review.unread \ {s}
        OBVIOUS
      <4>2. review' = [review EXCEPT !.unread = u, !.gone = review.gone]
        BY <3>1, <4>1
      <4> QED
        BY <4>1, <4>2 DEF TypeOK
    <3>2. CASE s \notin saved /\ review' = [review EXCEPT !.unread = review.unread \ {s},
                                                       !.gone = review.gone \cup {s}]
      <4>1. PICK u : u = review.unread \ {s}
        OBVIOUS
      <4>2. PICK g : g = review.gone \cup {s}
        OBVIOUS
      <4>3. review' = [review EXCEPT !.unread = u, !.gone = g]
        BY <3>2, <4>1, <4>2
      <4> QED
        BY <3>2, <4>1, <4>2, <4>3 DEF TypeOK
    <3> QED
      BY <2>1, <3>1, <3>2
  <2>3. \A t \in review'.unread \cup review'.gone : \E l \in review.lines : l[1] = t
    BY <2>1, <2>2 DEF ReviewOK
  <2>4. review'.gone \cap saved = {} /\ (review.pc = "broken" => review'.gone # {})
    BY <2>1, <2>2 DEF ReviewOK
  <2>5. \A l \in review.lines : Public(l[1]) /\ l[2] < Len(quiz[l[1]])
    BY DEF ReviewOK
  <2> QED
    BY <2>1, <2>2, <2>3, <2>4, <2>5 DEF ReviewOK, Public
<1>5. CASE Finish
  <2>1. UNCHANGED <<saved, quiz, nextId, worker>>
    BY <1>5 DEF Finish, stored
  <2>2. CASE review' = NotReviewing
    BY <2>2 DEF ReviewOK, NotReviewing
  <2>3. CASE Breaks /\ review' = [review EXCEPT !.pc = "broken"]
    <3>1. \A l \in review.lines : ~(l[2] >= Len(quiz[l[1]]))
      <4>1. SUFFICES ASSUME NEW l \in review.lines PROVE ~(l[2] >= Len(quiz[l[1]]))
        OBVIOUS
      <4>2. l[1] \in Ids /\ l[2] \in Int /\ l[2] < Len(quiz[l[1]])
        BY ReviewFields DEF ReviewOK
      <4>3. quiz[l[1]] \in Seq(QuizQuestion)
        BY <4>2 DEF TypeOK
      <4>4. Len(quiz[l[1]]) \in Nat
        BY <4>3
      <4> QED
        BY <4>2, <4>4
    <3>2. review.gone # {}
      BY <2>3, <3>1 DEF Breaks, RowsOK
    <3>3. review'.lines = review.lines /\ review'.unread = review.unread /\ review'.gone = review.gone
      BY <2>3 DEF TypeOK
    <3> QED
      BY <2>1, <3>2, <3>3 DEF ReviewOK, Public
  <2> QED
    BY <1>5, <2>2, <2>3 DEF Finish
<1>6. UNCHANGED review \/ Summarise \/ (\E s \in Ids : LoadStory(s)) \/ Finish
  <2>1. CASE UNCHANGED vars
    BY <2>1 DEF vars
  <2>2. ASSUME NEW w \in Workers, Working(w) PROVE UNCHANGED review
    BY <2>2 DEF Working, Generate, Commit
  <2>3. ASSUME NEW n \in Calls, Read(n) \/ Write(n) \/ Answered(n) \/ Lost(n) PROVE UNCHANGED review
    BY <2>3 DEF Read, Write, Answered, Lost
  <2>4. CASE ApiClient \/ Reading
    BY <2>4 DEF ApiClient, Reading, Open, Leave, Submit, TryAgain, Choose, ReportQuestion
  <2>5. CASE Listing
    BY <2>5 DEF Listing, StartListing, LeaveListing, FetchRows, FetchCount, ListingFails, ConfirmDelete
  <2> QED
    BY <2>1, <2>2, <2>3, <2>4, <2>5 DEF Next
<1> QED
  BY <1>2, <1>3, <1>4, <1>5, <1>6

-----------------------------------------------------------------------------
(* The story page *)

(* What another's step leaves of the calls of the page.                    *)
CallsKept ==
  \A n \in Calls :
    /\ OfPage(call'[n]) => OfPage(call[n]) /\ call'[n].story = call[n].story
    /\ Sends(call'[n]) => Sends(call[n]) /\ call'[n].answers = call[n].answers
    /\ (OfPage(call[n]) /\ call[n].waiting = "answered" /\ call[n].pc = "stored") => call'[n] = call[n]

LEMMA PageFrame ==
  ASSUME TypeOK, PageOK, Grows, page' = page, CallsKept,
         page.story # NoStory => listing'.pc = "off"
  PROVE  PageOK'
<1>1. page.story # NoStory => Public(page.story)' /\ DOMAIN page.selected = DOMAIN quiz'[page.story]
  <2>1. SUFFICES ASSUME page.story # NoStory
                 PROVE  Public(page.story)' /\ DOMAIN page.selected = DOMAIN quiz'[page.story]
    OBVIOUS
  <2>2. PICK s \in Ids : s = page.story
    BY <2>1 DEF PageOK, Public
  <2>3. Public(s)' /\ quiz'[s] = quiz[s] /\ page'.story = s
    BY <2>1, <2>2 DEF PageOK, Grows
  <2>4. Public(page.story)'
    BY <2>3 DEF Public
  <2> QED
    BY <2>1, <2>2, <2>3, <2>4 DEF PageOK
<1>2. \A n \in Calls : OfPage(call'[n]) => page.story # NoStory /\ call'[n].story = page.story
  BY DEF PageOK, CallsKept
<1>3. \A n \in Calls : Sends(call'[n]) => /\ page.marked = 0 /\ call'[n].answers = page.selected
                                          /\ \A m \in Calls : Sends(call'[m]) => m = n
  BY DEF PageOK, CallsKept
<1>4. page.marked # 0 => page.marked \in Calls /\ Marks(call[page.marked]) /\ call'[page.marked] = call[page.marked]
  BY DEF PageOK, CallsKept, Marks, OfPage
<1>5. \A q \in page.flagged : \E n \in Calls : Reports(call[n], q) /\ call'[n] = call[n]
  <2>1. \A q : \A n \in Calls : Reports(call[n], q) => call'[n] = call[n]
    BY DEF CallsKept, Reports, OfPage
  <2> QED
    BY <2>1 DEF PageOK
<1>6. page.marked # 0 => Marks(call[page.marked])'
  BY <1>4 DEF Marks
<1>7. \A q \in page.flagged : \E n \in Calls : Reports(call[n], q)'
  BY <1>5 DEF Reports
<1>8. page.story = NoStory => page = Closed
  BY DEF PageOK
<1> QED
  BY <1>1, <1>2, <1>3, <1>4, <1>6, <1>7, <1>8 DEF PageOK, OfPage, Sends

(* A step that changes one call, and not what the page waits for.          *)
LEMMA OneCallKept ==
  ASSUME TypeOK, NEW n \in Calls, NEW d \in CallRecord, call' = [call EXCEPT ![n] = d],
         OfPage(d) => OfPage(call[n]) /\ d.story = call[n].story,
         Sends(d) => Sends(call[n]) /\ d.answers = call[n].answers,
         ~(OfPage(call[n]) /\ call[n].waiting = "answered" /\ call[n].pc = "stored")
  PROVE  CallsKept
<1>1. call'[n] = d /\ \A m \in Calls : m # n => call'[m] = call[m]
  BY DEF TypeOK
<1> QED
  BY <1>1 DEF CallsKept

(* Other steps than the page's own: they leave it what it waits for.       *)
LEMMA ServerKeepsPage ==
  ASSUME TypeOK, CallsOK, NEW n \in Calls, Read(n) \/ Write(n) \/ Lost(n)
  PROVE  CallsKept /\ page' = page /\ listing'.pc = listing.pc
<1>1. PICK c \in CallRecord : c = call[n]
  BY DEF TypeOK
<1>2. page' = page /\ listing'.pc = listing.pc
  <2>1. CASE Read(n) \/ Lost(n)
    BY <2>1 DEF Read, Lost
  <2>2. CASE Write(n)
    BY <2>2 DEF Write, Delete, Insert, TypeOK
  <2> QED
    BY <2>1, <2>2
<1>3. CASE Read(n) \/ Write(n)
  <2>1. PICK p \in {"read", "stored", "refused"} : call' = [call EXCEPT ![n] = Settled([c EXCEPT !.pc = p])]
    <3>1. CASE Read(n)
      BY <1>1, <3>1 DEF Read
    <3>2. CASE Write(n)
      BY <1>1, <3>2 DEF Write, Delete, Insert, TypeOK
    <3> QED
      BY <1>3, <3>1, <3>2
  <2>2. PICK d \in CallRecord :
          /\ d = [c EXCEPT !.pc = p]
          /\ d.kind = c.kind /\ d.story = c.story /\ d.answers = c.answers /\ d.question = c.question
          /\ d.pc = p /\ d.waiting = c.waiting
    BY Zenon, Advanced
  <2>3. PICK e \in CallRecord : e = Settled(d) /\ (e = d \/ e.waiting = "no")
    BY SettledFacts
  <2>4. call' = [call EXCEPT ![n] = e]
    BY <2>1, <2>2, <2>3
  <2>5. c.pc # "stored"
    BY <1>1, <1>3 DEF Read, Write
  <2>6. /\ OfPage(e) => OfPage(c) /\ e.story = c.story
        /\ Sends(e) => Sends(c) /\ e.answers = c.answers
    BY <2>2, <2>3 DEF OfPage, Sends
  <2> QED
    BY <1>1, <1>2, <2>4, <2>5, <2>6, OneCallKept
<1>4. CASE Lost(n)
  <2>1. c.waiting = "yes" /\ call' = [call EXCEPT ![n] = Settled([c EXCEPT !.waiting = "lost"])]
    BY <1>1, <1>4 DEF Lost
  <2>2. PICK d \in CallRecord :
          /\ d = [c EXCEPT !.waiting = "lost"]
          /\ d.kind = c.kind /\ d.story = c.story /\ d.answers = c.answers /\ d.waiting = "lost"
    <3>1. /\ [c EXCEPT !.waiting = "lost"] \in CallRecord
          /\ [c EXCEPT !.waiting = "lost"] = [kind |-> c.kind, story |-> c.story, answers |-> c.answers,
                                             question |-> c.question, pc |-> c.pc, waiting |-> "lost"]
      BY CallWith
    <3> QED
      BY <3>1
  <2>3. PICK e \in CallRecord : e = Settled(d) /\ (e = d \/ e.waiting = "no")
    BY SettledFacts
  <2>4. call' = [call EXCEPT ![n] = e]
    BY <2>1, <2>2, <2>3
  <2>5. /\ OfPage(e) => OfPage(c) /\ e.story = c.story
        /\ ~Sends(e)
    BY <2>1, <2>2, <2>3 DEF OfPage, Sends
  <2> QED
    BY <1>1, <1>2, <2>1, <2>4, <2>5, OneCallKept
<1> QED
  BY <1>3, <1>4

(* A call sent from elsewhere is none of the page's.                       *)
LEMMA OthersKeepPage ==
  ASSUME TypeOK, CallsOK, NEW kind \in {"submit", "flag", "delete"}, NEW s \in Nat, NEW a \in Seq(Int),
         NEW q \in Int, NEW waiting \in {"no", "yes"}, Send(kind, s, a, q, waiting),
         waiting = "no" \/ kind = "delete"
  PROVE  CallsKept
<1>1. PICK n \in Calls, c \in CallRecord :
        /\ call[n].pc = "unsent" /\ call' = [call EXCEPT ![n] = c]
        /\ c = [kind |-> kind, story |-> s, answers |-> a, question |-> q, pc |-> "sent", waiting |-> waiting]
  BY NewCall
<1>2. ~OfPage(c) /\ ~Sends(c)
  BY <1>1 DEF OfPage, Sends
<1>3. call[n].pc # "stored"
  BY <1>1
<1> QED
  BY <1>1, <1>2, <1>3, OneCallKept

(* A call sent by the page, of its own story.                              *)
LEMMA PageSends ==
  ASSUME TypeOK, CallsOK, NEW kind \in {"submit", "flag"}, NEW a \in Seq(Int), NEW q \in Int,
         Send(kind, page.story, a, q, "yes")
  PROVE  \E n \in Calls : /\ ~OfPage(call[n]) /\ ~Sends(call[n]) /\ OfPage(call'[n])
                          /\ call'[n].story = page.story /\ call'[n].answers = a /\ call'[n].kind = kind
                          /\ \A m \in Calls : m # n => call'[m] = call[m]
<1>1. page.story \in Nat /\ kind \in {"submit", "flag", "delete"} /\ "yes" \in {"no", "yes"}
  BY PageFields
<1>2. PICK n \in Calls, c \in CallRecord :
        /\ call[n].pc = "unsent" /\ call' = [call EXCEPT ![n] = c]
        /\ c = [kind |-> kind, story |-> page.story, answers |-> a, question |-> q,
                pc |-> "sent", waiting |-> "yes"]
  BY <1>1, NewCall
<1>3. call'[n] = c /\ \A m \in Calls : m # n => call'[m] = call[m]
  BY <1>2 DEF TypeOK
<1>4. ~OfPage(call[n]) /\ ~Sends(call[n])
  <2>1. call[n] = Unsent
    BY <1>2 DEF CallsOK, CallOK
  <2>2. call[n].waiting = "no"
    BY <2>1 DEF Unsent
  <2> QED
    BY <2>2 DEF OfPage, Sends
<1>5. OfPage(c) /\ c.story = page.story /\ c.answers = a /\ c.kind = kind
  BY <1>2 DEF OfPage
<1> QED
  BY <1>3, <1>4, <1>5

(* Once the page has been left, or the listing, no call is waited for.     *)
LEMMA LeftCalls ==
  ASSUME TypeOK, call' = [n \in Calls |-> Settled([call[n] EXCEPT !.waiting = "no"])]
  PROVE  \A n \in Calls : ~OfPage(call'[n]) /\ ~Sends(call'[n])
<1>1. SUFFICES ASSUME NEW n \in Calls PROVE ~OfPage(call'[n]) /\ ~Sends(call'[n])
  OBVIOUS
<1>2. PICK c \in CallRecord : c = call[n]
  BY DEF TypeOK
<1>3. PICK d \in CallRecord : d = [c EXCEPT !.waiting = "no"] /\ d.waiting = "no"
  <2>1. /\ [c EXCEPT !.waiting = "no"] \in CallRecord
        /\ [c EXCEPT !.waiting = "no"] = [kind |-> c.kind, story |-> c.story, answers |-> c.answers,
                                         question |-> c.question, pc |-> c.pc, waiting |-> "no"]
    BY CallWith
  <2> QED
    BY <2>1
<1>4. call'[n] = Settled(d)
  BY <1>2, <1>3
<1>5. call'[n].waiting = "no"
  BY <1>3, <1>4, SettledFacts
<1> QED
  BY <1>5 DEF OfPage, Sends

LEMMA ReadingPage ==
  ASSUME TypeOK, QuizzesOK, CallsOK, PageOK, Grows, Reading
  PROVE  PageOK'
<1>1. /\ UNCHANGED <<stored, worker, listing, review>>
      /\ page.selected \in Seq(Int) /\ page.marked \in Nat /\ page.flagged \subseteq Int
  BY PageFields DEF Reading, Open, Leave, Submit, TryAgain, Choose, ReportQuestion
<1>2. \A s \in Ids : Public(s) <=> Public(s)'
  BY <1>1 DEF Public, stored
<1>3. CASE Leave
  <2>1. \A n \in Calls : ~OfPage(call'[n]) /\ ~Sends(call'[n])
    BY <1>3, LeftCalls DEF Leave
  <2>2. page' = Closed
    BY <1>3 DEF Leave
  <2> QED
    BY <2>1, <2>2 DEF PageOK, Closed, OfPage, Sends
<1>4. ASSUME NEW s \in Ids, Open(s) PROVE PageOK'
  <2>1. page.story = NoStory /\ listing.pc = "off" /\ s \in saved /\ call' = call
    BY <1>4 DEF Open
  <2>2. page' = [story |-> s, selected |-> [i \in DOMAIN quiz[s] |-> Unset], marked |-> 0, flagged |-> {}]
    BY <1>4 DEF Open, Closed
  <2>3. page'.story = s /\ DOMAIN page'.selected = DOMAIN quiz[s] /\ page'.marked = 0 /\ page'.flagged = {}
    BY <2>2
  <2>4. s # NoStory /\ Public(s)'
    BY <1>2, <2>1, BoundsFacts DEF QuizzesOK
  <2>5. \A n \in Calls : ~OfPage(call[n]) /\ ~Sends(call[n])
    BY <2>1 DEF PageOK, OfPage, Sends
  <2>6. Public(page.story)'
    BY <2>3, <2>4 DEF Public
  <2> QED
    BY <1>1, <2>1, <2>3, <2>4, <2>5, <2>6 DEF PageOK, OfPage, Sends, stored
<1>5. ASSUME NEW i \in DOMAIN page.selected, NEW o, Choose(i, o) PROVE PageOK'
  <2>1. PICK z : z = [page.selected EXCEPT ![i] = o]
    OBVIOUS
  <2>2. page' = [page EXCEPT !.selected = z] /\ call' = call /\ ~Locked
    BY <1>5, <2>1 DEF Choose
  <2>3. /\ page'.story = page.story /\ page'.selected = z /\ page'.marked = page.marked
        /\ page'.flagged = page.flagged /\ DOMAIN z = DOMAIN page.selected
    BY <2>1, <2>2 DEF TypeOK
  <2>4. page.story # NoStory
    BY <1>5 DEF PageOK, Closed
  <2>5. page.marked = 0 /\ \A n \in Calls : ~Sends(call[n])
    <3>1. \A n \in Calls : Sends(call[n]) => call[n].story = page.story /\ call[n].question = 0
      BY DEF PageOK, OfPage, Sends, CallsOK, CallOK
    <3> QED
      BY <2>2, <3>1 DEF Locked, Sending, Sends
  <2>6. \A q \in page.flagged : \E n \in Calls : Reports(call[n], q)'
    BY <2>2, <2>3 DEF PageOK, Reports
  <2>7. Public(page.story)'
    BY <1>2, <2>3, <2>4 DEF PageOK, Public
  <2> QED
    BY <1>1, <2>2, <2>3, <2>4, <2>5, <2>6, <2>7 DEF PageOK, OfPage, Sends, stored
<1>6. CASE Submit
  <2>1. PICK n \in Calls :
          /\ ~OfPage(call[n]) /\ ~Sends(call[n]) /\ OfPage(call'[n]) /\ call'[n].story = page.story
          /\ call'[n].answers = page.selected
          /\ \A m \in Calls : m # n => call'[m] = call[m]
    BY <1>1, <1>6, PageSends DEF Submit
  <2>2. page.story # NoStory /\ ~Locked /\ page' = page
    BY <1>6 DEF Submit
  <2>3. page.marked = 0 /\ \A m \in Calls : ~Sends(call[m])
    <3>1. \A m \in Calls : Sends(call[m]) => call[m].story = page.story /\ call[m].question = 0
      BY DEF PageOK, OfPage, Sends, CallsOK, CallOK
    <3> QED
      BY <2>2, <3>1 DEF Locked, Sending, Sends
  <2>4. \A m \in Calls : Sends(call'[m]) => m = n
    BY <2>1, <2>3
  <2>5. \A q \in page.flagged : \E m \in Calls : Reports(call[m], q)'
    <3>1. \A q : \A m \in Calls : Reports(call[m], q) => m # n
      BY <2>1 DEF Reports, OfPage
    <3>2. \A q \in page.flagged : \E m \in Calls : Reports(call[m], q) /\ call'[m] = call[m]
      BY <2>1, <3>1 DEF PageOK
    <3> QED
      BY <2>2, <3>2 DEF Reports
  <2>6. Public(page.story)'
    BY <1>2, <2>2 DEF PageOK, Public
  <2>7. \A m \in Calls : OfPage(call'[m]) => call'[m].story = page.story
    BY <2>1 DEF PageOK
  <2> QED
    BY <1>1, <2>1, <2>2, <2>3, <2>4, <2>5, <2>6, <2>7 DEF PageOK, OfPage, Sends, stored
<1>7. CASE TryAgain
  <2>1. PICK z : z = [i \in DOMAIN page.selected |-> Unset]
    OBVIOUS
  <2>2. page' = [page EXCEPT !.marked = 0, !.selected = z] /\ call' = call /\ page.marked # 0
    BY <1>7, <2>1 DEF TryAgain
  <2>3. /\ page'.story = page.story /\ page'.selected = z /\ page'.marked = 0
        /\ page'.flagged = page.flagged /\ DOMAIN z = DOMAIN page.selected
    BY <2>1, <2>2 DEF TypeOK
  <2>4. page.story # NoStory /\ \A n \in Calls : ~Sends(call[n])
    BY <2>2 DEF PageOK, Closed
  <2>5. \A q \in page.flagged : \E n \in Calls : Reports(call[n], q)'
    BY <2>2, <2>3 DEF PageOK, Reports
  <2>6. Public(page.story)'
    BY <1>2, <2>3, <2>4 DEF PageOK, Public
  <2> QED
    BY <1>1, <2>2, <2>3, <2>4, <2>5, <2>6 DEF PageOK, OfPage, Sends, stored
<1>8. ASSUME NEW i \in DOMAIN page.selected, ReportQuestion(i - 1) PROVE PageOK'
  <2>1. i - 1 \in Int /\ <<>> \in Seq(Int)
    BY <1>1
  <2>2. page.marked # 0 /\ page' = page /\ Send("flag", page.story, <<>>, i - 1, "yes")
    BY <1>8 DEF ReportQuestion
  <2>3. PICK n \in Calls :
          /\ ~OfPage(call[n]) /\ ~Sends(call[n]) /\ OfPage(call'[n]) /\ call'[n].story = page.story
          /\ call'[n].kind = "flag" /\ \A m \in Calls : m # n => call'[m] = call[m]
    BY <2>1, <2>2, PageSends
  <2>4. page.story # NoStory /\ \A m \in Calls : ~Sends(call[m])
    BY <2>2 DEF PageOK, Closed
  <2>5. \A m \in Calls : ~Sends(call'[m])
    BY <2>3, <2>4 DEF Sends
  <2>6. \A q \in page.flagged : \E m \in Calls : Reports(call[m], q)'
    <3>1. \A q : \A m \in Calls : Reports(call[m], q) => m # n
      BY <2>3 DEF Reports, OfPage
    <3>2. \A q \in page.flagged : \E m \in Calls : Reports(call[m], q) /\ call'[m] = call[m]
      BY <2>3, <3>1 DEF PageOK
    <3> QED
      BY <2>2, <3>2 DEF Reports
  <2>7. page.marked \in Calls /\ Marks(call[page.marked])'
    <3>1. page.marked \in Calls /\ Marks(call[page.marked]) /\ page.marked # n
      BY <2>2, <2>3 DEF PageOK, Marks, OfPage
    <3>2. call'[page.marked] = call[page.marked]
      BY <2>3, <3>1
    <3> QED
      BY <2>2, <3>1, <3>2 DEF Marks
  <2>8. Public(page.story)'
    BY <1>2, <2>2, <2>4 DEF PageOK, Public
  <2>9. \A m \in Calls : OfPage(call'[m]) => call'[m].story = page.story
    BY <2>3 DEF PageOK
  <2> QED
    BY <1>1, <2>2, <2>4, <2>5, <2>6, <2>7, <2>8, <2>9 DEF PageOK, OfPage, Sends, stored
<1> QED
  BY <1>3, <1>4, <1>5, <1>6, <1>7, <1>8 DEF Reading

LEMMA AnsweredPage ==
  ASSUME TypeOK, QuizzesOK, CallsOK, PageOK, Grows, NEW n \in Calls, Answered(n)
  PROVE  PageOK'
<1>1. PICK c \in CallRecord : c = call[n]
  BY DEF TypeOK
<1>2. /\ c.waiting = "yes" /\ c.pc \in {"stored", "refused"} /\ UNCHANGED <<stored, worker, review>>
      /\ call' = [call EXCEPT ![n] = Settled([c EXCEPT !.waiting = "answered"])]
  BY <1>1 DEF Answered
<1>3. PICK d \in CallRecord :
        /\ d = [c EXCEPT !.waiting = "answered"]
        /\ d.kind = c.kind /\ d.story = c.story /\ d.answers = c.answers /\ d.question = c.question
        /\ d.pc = c.pc /\ d.waiting = "answered"
  <2>1. /\ [c EXCEPT !.waiting = "answered"] \in CallRecord
        /\ [c EXCEPT !.waiting = "answered"] =
             [kind |-> c.kind, story |-> c.story, answers |-> c.answers,
              question |-> c.question, pc |-> c.pc, waiting |-> "answered"]
    BY CallWith
  <2> QED
    BY <2>1
<1>4. PICK e \in CallRecord : /\ e = Settled(d) /\ (e = d \/ e.waiting = "no")
                              /\ d.kind \in {"submit", "flag"} => e = d
  BY <1>3, SettledFacts
<1>5. call'[n] = e /\ \A m \in Calls : m # n => call'[m] = call[m]
  BY <1>2, <1>3, <1>4 DEF TypeOK
<1>6. \A s \in Ids : Public(s) <=> Public(s)'
  BY <1>2 DEF Public, stored
<1>7. CASE c.kind = "delete"
  <2>1. page' = page /\ listing'.pc = listing.pc
    BY <1>1, <1>7 DEF Answered, TypeOK
  <2>2. CallsKept
    <3>1. ~OfPage(e) /\ ~Sends(e) /\ ~OfPage(c)
      BY <1>3, <1>4, <1>7 DEF OfPage, Sends
    <3> QED
      BY <1>1, <1>5, <3>1 DEF CallsKept
  <2>3. page.story # NoStory => listing'.pc = "off"
    BY <2>1 DEF PageOK
  <2> QED
    BY <2>1, <2>2, <2>3, PageFrame
<1>8. CASE c.kind = "submit"
  <2>1. e = d /\ listing' = listing
    BY <1>1, <1>3, <1>4, <1>8 DEF Answered
  <2>2. /\ page.story # NoStory /\ c.story = page.story /\ page.marked = 0 /\ c.answers = page.selected
        /\ \A m \in Calls : Sends(call[m]) => m = n
    BY <1>1, <1>2, <1>8 DEF PageOK, OfPage, Sends
  <2>3. PICK k : k = (IF c.pc = "stored" THEN n ELSE 0)
    OBVIOUS
  <2>4. page' = [page EXCEPT !.marked = k]
    BY <1>1, <1>8, <2>3 DEF Answered
  <2>5. /\ page'.story = page.story /\ page'.selected = page.selected /\ page'.marked = k
        /\ page'.flagged = page.flagged
    BY <2>4 DEF TypeOK
  <2>6. \A m \in Calls : ~Sends(call'[m])
    BY <1>3, <1>5, <2>1, <2>2 DEF Sends
  <2>7. \A m \in Calls : OfPage(call'[m]) => call'[m].story = page.story
    BY <1>3, <1>5, <2>1, <2>2 DEF PageOK
  <2>8. k # 0 => k \in Calls /\ call'[k] = d /\ d.pc = "stored"
    BY <1>3, <1>5, <2>1, <2>3
  <2>9. k # 0 => Marks(call[page.marked])'
    BY <1>3, <1>8, <2>2, <2>5, <2>8 DEF Marks
  <2>10. \A q \in page.flagged : \E m \in Calls : Reports(call[m], q)'
    <3>1. \A q : \A m \in Calls : Reports(call[m], q) => m # n
      BY <1>1, <1>2 DEF Reports
    <3>2. \A q \in page.flagged : \E m \in Calls : Reports(call[m], q) /\ call'[m] = call[m]
      BY <1>5, <3>1 DEF PageOK
    <3> QED
      BY <2>5, <3>2 DEF Reports
  <2>11. Public(page.story)'
    BY <1>6, <2>2, <2>5 DEF PageOK, Public
  <2> QED
    BY <1>2, <2>1, <2>2, <2>5, <2>6, <2>7, <2>8, <2>9, <2>10, <2>11 DEF PageOK, OfPage, stored
<1>9. CASE c.kind = "flag"
  <2>1. e = d /\ listing' = listing
    BY <1>1, <1>3, <1>4, <1>9 DEF Answered
  <2>2. page.story # NoStory /\ c.story = page.story
    BY <1>1, <1>2, <1>9 DEF PageOK, OfPage
  <2>3. PICK F : F = (IF c.pc = "stored" THEN page.flagged \cup {c.question} ELSE page.flagged)
    OBVIOUS
  <2>4. /\ page'.story = page.story /\ page'.selected = page.selected /\ page'.marked = page.marked
        /\ page'.flagged = F
    <3>1. CASE c.pc = "stored"
      <4>1. page' = [page EXCEPT !.flagged = F]
        BY <1>1, <1>9, <2>3, <3>1 DEF Answered
      <4> QED
        BY <4>1 DEF TypeOK
    <3>2. CASE c.pc # "stored"
      BY <1>1, <1>9, <2>3, <3>2 DEF Answered
    <3> QED
      BY <3>1, <3>2
  <2>5. \A m \in Calls : Sends(call'[m]) => Sends(call[m]) /\ call'[m] = call[m]
    BY <1>3, <1>5, <2>1 DEF Sends
  <2>6. \A m \in Calls : OfPage(call'[m]) => call'[m].story = page.story
    BY <1>3, <1>5, <2>1, <2>2 DEF PageOK
  <2>7. page.marked # 0 => page.marked \in Calls /\ Marks(call[page.marked])'
    <3>1. page.marked # 0 => page.marked \in Calls /\ Marks(call[page.marked]) /\ page.marked # n
      BY <1>1, <1>2 DEF PageOK, Marks
    <3>2. page.marked # 0 => call'[page.marked] = call[page.marked]
      BY <1>5, <3>1
    <3> QED
      BY <2>4, <3>1, <3>2 DEF Marks
  <2>8. \A q \in F : \E m \in Calls : Reports(call[m], q)'
    <3>1. \A q : \A m \in Calls : Reports(call[m], q) => m # n
      BY <1>1, <1>2 DEF Reports
    <3>2. \A q \in page.flagged : \E m \in Calls : Reports(call[m], q) /\ call'[m] = call[m]
      BY <1>5, <3>1 DEF PageOK
    <3>3. \A q \in page.flagged : \E m \in Calls : Reports(call[m], q)'
      BY <2>4, <3>2 DEF Reports
    <3>4. c.pc = "stored" => Reports(call[n], c.question)'
      BY <1>3, <1>5, <1>9, <2>1, <2>2, <2>4 DEF Reports
    <3> QED
      BY <2>3, <3>3, <3>4
  <2>9. Public(page.story)'
    BY <1>6, <2>2, <2>4 DEF PageOK, Public
  <2>10. /\ listing'.pc = "off" /\ DOMAIN page'.selected = DOMAIN quiz'[page'.story]
    BY <1>2, <2>1, <2>2, <2>4 DEF PageOK, stored
  <2>11. \A m \in Calls : Sends(call'[m]) => /\ page'.marked = 0 /\ call'[m].answers = page'.selected
                                            /\ \A l \in Calls : Sends(call'[l]) => l = m
    BY <2>4, <2>5 DEF PageOK
  <2> QED
    BY <2>2, <2>4, <2>6, <2>7, <2>8, <2>9, <2>10, <2>11 DEF PageOK, OfPage, Sends
<1> QED
  BY <1>1, <1>7, <1>8, <1>9 DEF Answered

LEMMA PageStep ==
  ASSUME TypeOK, WorkersOK, QuizzesOK, CallsOK, PageOK, [Next]_vars
  PROVE  PageOK'
<1>1. Grows
  BY GrowsStep
<1>2. ASSUME call' = call PROVE CallsKept
  BY <1>2 DEF CallsKept
<1>3. ASSUME page' = page, call' = call, page.story # NoStory => listing'.pc = listing.pc PROVE PageOK'
  <2>1. page.story # NoStory => listing'.pc = "off"
    BY <1>3 DEF PageOK
  <2> QED
    BY <1>1, <1>2, <1>3, <2>1, PageFrame
<1>4. CASE UNCHANGED vars
  BY <1>3, <1>4 DEF vars
<1>5. ASSUME NEW w \in Workers, Working(w) PROVE PageOK'
  <2>1. page' = page /\ call' = call /\ listing'.pc = listing.pc
    BY <1>5 DEF Working, Generate, Commit, TypeOK
  <2> QED
    BY <1>3, <2>1
<1>6. ASSUME NEW n \in Calls, Read(n) \/ Write(n) \/ Lost(n) PROVE PageOK'
  <2>1. CallsKept /\ page' = page /\ listing'.pc = listing.pc
    BY <1>6, ServerKeepsPage
  <2>2. page.story # NoStory => listing'.pc = "off"
    BY <2>1 DEF PageOK
  <2> QED
    BY <1>1, <2>1, <2>2, PageFrame
<1>7. ASSUME NEW n \in Calls, Answered(n) PROVE PageOK'
  BY <1>1, <1>7, AnsweredPage
<1>8. CASE ApiClient
  <2>1. PICK s \in 1 .. nextId - 1 :
          \/ Send("delete", s, <<>>, 0, "no")
          \/ \E a \in ClientAnswers : Send("submit", s, a, 0, "no")
          \/ \E q \in 0 .. Len(quiz[s]) : Send("flag", s, <<>>, q, "no")
    BY <1>8 DEF ApiClient
  <2>2. s \in Nat /\ (\A a \in ClientAnswers : a \in Seq(Int)) /\ <<>> \in Seq(Int) /\ 0 \in Int
    BY <2>1, ClientAnswersAssumption DEF TypeOK
  <2>3. CallsKept
    <3>1. CASE Send("delete", s, <<>>, 0, "no")
      BY <2>2, <3>1, OthersKeepPage
    <3>2. CASE \E a \in ClientAnswers : Send("submit", s, a, 0, "no")
      BY <2>2, <3>2, OthersKeepPage
    <3>3. CASE \E q \in 0 .. Len(quiz[s]) : Send("flag", s, <<>>, q, "no")
      <4>1. PICK q \in 0 .. Len(quiz[s]) : Send("flag", s, <<>>, q, "no")
        BY <3>3
      <4>2. q \in Int
        BY <4>1
      <4> QED
        BY <2>2, <4>1, <4>2, OthersKeepPage
    <3> QED
      BY <2>1, <3>1, <3>2, <3>3
  <2>4. page' = page /\ listing' = listing
    BY <1>8 DEF ApiClient
  <2>5. page.story # NoStory => listing'.pc = "off"
    BY <2>4 DEF PageOK
  <2> QED
    BY <1>1, <2>3, <2>4, <2>5, PageFrame
<1>9. CASE Reading
  BY <1>1, <1>9, ReadingPage
<1>10. CASE StartListing \/ FetchRows \/ FetchCount \/ ListingFails
  <2>1. page' = page /\ call' = call
    BY <1>10 DEF StartListing, FetchRows, FetchCount, ListingFails
  <2>2. page.story = NoStory
    BY <1>10 DEF StartListing, FetchRows, FetchCount, ListingFails, Loading, PageOK
  <2> QED
    BY <1>3, <2>1, <2>2
<1>11. CASE LeaveListing
  <2>1. page' = page /\ page.story = NoStory
    BY <1>11 DEF LeaveListing, PageOK
  <2>2. \A n \in Calls : ~OfPage(call'[n]) /\ ~Sends(call'[n])
    BY <1>11, LeftCalls DEF LeaveListing
  <2>3. \A n \in Calls : ~OfPage(call[n])
    BY <2>1 DEF PageOK
  <2>4. CallsKept
    BY <2>2, <2>3 DEF CallsKept
  <2> QED
    BY <1>1, <2>1, <2>4, PageFrame
<1>12. ASSUME NEW s \in Ids, ConfirmDelete(s) PROVE PageOK'
  <2>1. page' = page /\ page.story = NoStory /\ Send("delete", s, <<>>, 0, "yes")
    BY <1>12 DEF ConfirmDelete, PageOK
  <2>2. s \in Nat /\ <<>> \in Seq(Int) /\ 0 \in Int
    BY BoundsFacts
  <2>3. CallsKept
    BY <2>1, <2>2, OthersKeepPage
  <2> QED
    BY <1>1, <2>1, <2>3, PageFrame
<1>13. CASE Summarise \/ (\E s \in Ids : LoadStory(s)) \/ Finish
  BY <1>3, <1>13 DEF Summarise, LoadStory, Finish
<1> QED
  BY <1>4, <1>5, <1>6, <1>7, <1>8, <1>9, <1>10, <1>11, <1>12, <1>13 DEF Next, Listing

-----------------------------------------------------------------------------
(* The list of stories: places *)

LEMMA PlaceGrows ==
  ASSUME NEW T \in SUBSET Ids, NEW S \in SUBSET T, NEW x
  PROVE  /\ Cardinality(UpTo(S, x)) \in Nat /\ Cardinality(UpTo(T, x)) \in Nat /\ Cardinality(T) \in Nat
         /\ Cardinality(UpTo(S, x)) <= Cardinality(UpTo(T, x))
         /\ Cardinality(UpTo(T, x)) <= Cardinality(T)
<1>1. IsFiniteSet(T)
  BY BoundsFacts, FS_Subset
<1>2. UpTo(T, x) \in SUBSET T /\ UpTo(S, x) \in SUBSET UpTo(T, x)
  BY DEF UpTo
<1>3. IsFiniteSet(UpTo(T, x)) /\ Cardinality(UpTo(T, x)) <= Cardinality(T)
  BY <1>1, <1>2, FS_Subset
<1>4. IsFiniteSet(UpTo(S, x)) /\ Cardinality(UpTo(S, x)) <= Cardinality(UpTo(T, x))
  BY <1>2, <1>3, FS_Subset
<1> QED
  BY <1>1, <1>3, <1>4, FS_CardinalityType

(* A new id moves no smaller one.                                          *)
LEMMA PlaceSame ==
  ASSUME NEW S \in SUBSET Ids, NEW i \in Ids, NEW x \in Ids, ~(i < x), i # x
  PROVE  UpTo(S \cup {i}, x) = UpTo(S, x)
<1>1. i \in Nat /\ x \in Nat
  BY BoundsFacts
<1>2. ~(i <= x)
  BY <1>1
<1> QED
  BY <1>2 DEF UpTo

(* A story that is stored has a place.                                     *)
LEMMA PlacePositive ==
  ASSUME NEW S \in SUBSET Ids, NEW x \in S
  PROVE  Cardinality(UpTo(S, x)) > 0
<1>1. x \in Nat
  BY BoundsFacts
<1>2. x \in UpTo(S, x)
  BY <1>1 DEF UpTo
<1>3. IsFiniteSet(UpTo(S, x))
  <2>1. IsFiniteSet(S) /\ UpTo(S, x) \in SUBSET S
    BY BoundsFacts, FS_Subset DEF UpTo
  <2> QED
    BY <2>1, FS_Subset
<1>4. Cardinality(UpTo(S, x)) \in Nat /\ Cardinality(UpTo(S, x)) # 0
  BY <1>2, <1>3, FS_CardinalityType, FS_EmptySet
<1> QED
  BY <1>4

LEMMA ListsJoined ==
  ASSUME NEW s \in Seq(Ids), NEW t \in Seq(Ids)
  PROVE  \E u \in Seq(Ids) :
           /\ u = s \o t
           /\ Len(u) = Len(s) + Len(t) /\ DOMAIN u = 1 .. Len(u)
           /\ Len(s) \in Nat /\ Len(t) \in Nat
           /\ \A n \in 1 .. Len(u) : u[n] = IF n <= Len(s) THEN s[n] ELSE t[n - Len(s)]
           /\ \A n \in DOMAIN u : u[n] \in Ids
           /\ ToSet(u) = ToSet(s) \cup ToSet(t)
           /\ t = <<>> => u = s
<1>3. PICK u : u = s \o t
  OBVIOUS
<1>4. /\ u \in Seq(Ids) /\ Len(u) = Len(s) + Len(t)
      /\ \A i \in 1 .. Len(s) + Len(t) : u[i] = IF i <= Len(s) THEN s[i] ELSE t[i - Len(s)]
  BY <1>3, ConcatProperties
<1>5. /\ Len(s) \in Nat /\ Len(t) \in Nat /\ DOMAIN u = 1 .. Len(u)
      /\ DOMAIN s = 1 .. Len(s) /\ DOMAIN t = 1 .. Len(t) /\ \A n \in DOMAIN u : u[n] \in Ids
  BY <1>4
<1>6. \A x : x \in ToSet(u) <=> x \in ToSet(s) \/ x \in ToSet(t)
  <2>1. ASSUME NEW x \in ToSet(u) PROVE x \in ToSet(s) \/ x \in ToSet(t)
    <3>1. PICK i \in DOMAIN u : x = u[i]
      BY DEF ToSet
    <3>2. CASE i <= Len(s)
      BY <1>4, <1>5, <3>1, <3>2 DEF ToSet
    <3>3. CASE ~(i <= Len(s))
      <4>1. i - Len(s) \in DOMAIN t /\ x = t[i - Len(s)]
        BY <1>4, <1>5, <3>1, <3>3
      <4> QED
        BY <4>1 DEF ToSet
    <3> QED
      BY <3>2, <3>3
  <2>2. ASSUME NEW x \in ToSet(s) PROVE x \in ToSet(u)
    <3>1. PICK i \in DOMAIN s : x = s[i]
      BY DEF ToSet
    <3>2. i \in DOMAIN u /\ u[i] = x
      BY <1>4, <1>5, <3>1
    <3> QED
      BY <3>2 DEF ToSet
  <2>3. ASSUME NEW x \in ToSet(t) PROVE x \in ToSet(u)
    <3>1. PICK i \in DOMAIN t : x = t[i]
      BY DEF ToSet
    <3>2. i + Len(s) \in DOMAIN u /\ u[i + Len(s)] = x
      BY <1>4, <1>5, <3>1
    <3> QED
      BY <3>2 DEF ToSet
  <2> QED
    BY <2>1, <2>2, <2>3
<1>7. t = <<>> => u = s
  BY <1>3, ConcatEmptySeq
<1>8. ToSet(u) = ToSet(s) \cup ToSet(t)
  BY <1>6
<1> QED
  BY <1>3, <1>4, <1>5, <1>7, <1>8

LEMMA AllFacts ==
  ASSUME TypeOK
  PROVE  /\ All \in Seq(Ids) /\ Len(All) = Len(listing.items) + Len(listing.rows) /\ DOMAIN All = 1 .. Len(All)
         /\ Len(listing.items) \in Nat /\ Len(listing.rows) \in Nat
         /\ \A n \in 1 .. Len(All) :
              All[n] = IF n <= Len(listing.items) THEN listing.items[n] ELSE listing.rows[n - Len(listing.items)]
         /\ \A n \in DOMAIN All : All[n] \in Ids
         /\ ToSet(All) = ToSet(listing.items) \cup ToSet(listing.rows)
         /\ listing.rows = <<>> => All = listing.items
<1>1. PICK s \in Seq(Ids) : s = listing.items
  BY ListingFields
<1>2. PICK t \in Seq(Ids) : t = listing.rows
  BY ListingFields
<1>3. PICK u \in Seq(Ids) :
        /\ u = s \o t
        /\ Len(u) = Len(s) + Len(t) /\ DOMAIN u = 1 .. Len(u)
        /\ Len(s) \in Nat /\ Len(t) \in Nat
        /\ \A n \in 1 .. Len(u) : u[n] = IF n <= Len(s) THEN s[n] ELSE t[n - Len(s)]
        /\ \A n \in DOMAIN u : u[n] \in Ids
        /\ ToSet(u) = ToSet(s) \cup ToSet(t)
        /\ t = <<>> => u = s
  BY ListsJoined
<1>4. All = u
  BY <1>1, <1>2, <1>3 DEF All
<1> HIDE DEF All
<1> QED
  BY <1>1, <1>2, <1>3, <1>4

-----------------------------------------------------------------------------
(* The list of stories: the deletes it waits for *)

(* What the API or the network does with a call makes it no delete that    *)
(* the listing waits for.                                                  *)
LEMMA NoDeleteFromAnswers ==
  ASSUME TypeOK, NEW n \in Calls, Read(n) \/ Write(n) \/ Answered(n) \/ Lost(n)
  PROVE  \A m \in Calls : AwaitsDelete(call'[m]) => AwaitsDelete(call[m])
<1>1. PICK c \in CallRecord : c = call[n]
  BY DEF TypeOK
<1>2. \E d \in CallRecord : /\ call' = [call EXCEPT ![n] = Settled(d)] /\ d.kind = c.kind
                            /\ d.waiting # "no" => c.waiting # "no"
  <2>1. CASE Read(n) \/ Write(n)
    <3>1. PICK p \in {"read", "stored", "refused"} : call' = [call EXCEPT ![n] = Settled([c EXCEPT !.pc = p])]
      <4>1. CASE Read(n)
        BY <1>1, <4>1 DEF Read
      <4>2. CASE Write(n)
        BY <1>1, <4>2 DEF Write, Delete, Insert, TypeOK
      <4> QED
        BY <2>1, <4>1, <4>2
    <3>2. PICK d \in CallRecord :
            /\ d = [c EXCEPT !.pc = p]
            /\ d.kind = c.kind /\ d.story = c.story /\ d.answers = c.answers /\ d.question = c.question
            /\ d.pc = p /\ d.waiting = c.waiting
      BY Zenon, Advanced
    <3> QED
      BY <3>1, <3>2
  <2>2. CASE Answered(n) \/ Lost(n)
    <3>1. PICK x \in {"answered", "lost"} :
            c.waiting = "yes" /\ call' = [call EXCEPT ![n] = Settled([c EXCEPT !.waiting = x])]
      BY <1>1, <2>2 DEF Answered, Lost
    <3>2. "sent" \in {"unsent", "sent", "read", "stored", "refused", "spent"}
          /\ x \in {"no", "yes", "answered", "lost"}
      OBVIOUS
    <3>3. /\ [c EXCEPT !.waiting = x] \in CallRecord
          /\ [c EXCEPT !.waiting = x] = [kind |-> c.kind, story |-> c.story, answers |-> c.answers,
                                         question |-> c.question, pc |-> c.pc, waiting |-> x]
      BY <3>2, CallWith
    <3> QED
      BY <3>1, <3>3
  <2> QED
    BY <2>1, <2>2
<1>3. PICK d \in CallRecord : /\ call' = [call EXCEPT ![n] = Settled(d)] /\ d.kind = c.kind
                              /\ d.waiting # "no" => c.waiting # "no"
  BY <1>2
<1>4. PICK e \in CallRecord : e = Settled(d) /\ (e = d \/ e.waiting = "no")
  BY SettledFacts
<1>5. call'[n] = e /\ \A m \in Calls : m # n => call'[m] = call[m]
  BY <1>3, <1>4 DEF TypeOK
<1> QED
  BY <1>1, <1>3, <1>4, <1>5 DEF AwaitsDelete

LEMMA NoDeleteFromOthers ==
  ASSUME TypeOK, NEW kind \in {"submit", "flag", "delete"}, NEW s \in Nat, NEW a \in Seq(Int), NEW q \in Int,
         NEW waiting \in {"no", "yes"}, Send(kind, s, a, q, waiting), waiting = "no" \/ kind # "delete"
  PROVE  \A m \in Calls : AwaitsDelete(call'[m]) => AwaitsDelete(call[m])
<1>1. PICK n \in Calls, c \in CallRecord :
        /\ call' = [call EXCEPT ![n] = c]
        /\ c = [kind |-> kind, story |-> s, answers |-> a, question |-> q, pc |-> "sent", waiting |-> waiting]
  BY NewCall
<1>2. call'[n] = c /\ \A m \in Calls : m # n => call'[m] = call[m]
  BY <1>1 DEF TypeOK
<1>3. ~AwaitsDelete(c)
  BY <1>1 DEF AwaitsDelete
<1> QED
  BY <1>2, <1>3

LEMMA NoDeleteWhenLeft ==
  ASSUME TypeOK, call' = [n \in Calls |-> Settled([call[n] EXCEPT !.waiting = "no"])]
  PROVE  \A n \in Calls : ~AwaitsDelete(call'[n])
<1>1. SUFFICES ASSUME NEW n \in Calls PROVE call'[n].waiting = "no"
  BY DEF AwaitsDelete
<1>2. PICK c \in CallRecord : c = call[n]
  BY DEF TypeOK
<1>3. PICK d \in CallRecord : d = [c EXCEPT !.waiting = "no"] /\ d.waiting = "no"
  <2>1. /\ [c EXCEPT !.waiting = "no"] \in CallRecord
        /\ [c EXCEPT !.waiting = "no"] = [kind |-> c.kind, story |-> c.story, answers |-> c.answers,
                                         question |-> c.question, pc |-> c.pc, waiting |-> "no"]
    BY CallWith
  <2> QED
    BY <2>1
<1>4. call'[n] = Settled(d)
  BY <1>2, <1>3
<1> QED
  BY <1>3, <1>4, SettledFacts

(* Outside the listing's own steps, what it waits for only becomes less.   *)
LEMMA DeletesStep ==
  ASSUME TypeOK, CallsOK, DeletesOK, [Next]_vars
  PROVE  DeletesOK'
<1>1. ASSUME \A m \in Calls : AwaitsDelete(call'[m]) => AwaitsDelete(call[m]),
             listing.pc = "shown" => listing'.pc = "shown"
      PROVE  DeletesOK'
  BY <1>1 DEF DeletesOK, AwaitsDelete
<1>2. ASSUME call' = call, listing.pc = "shown" => listing'.pc = "shown" PROVE DeletesOK'
  BY <1>1, <1>2
<1>3. CASE UNCHANGED vars
  BY <1>2, <1>3 DEF vars
<1>4. ASSUME NEW w \in Workers, Working(w) PROVE DeletesOK'
  <2>1. call' = call /\ listing'.pc = listing.pc
    BY <1>4 DEF Working, Generate, Commit, TypeOK
  <2> QED
    BY <1>2, <2>1
<1>5. ASSUME NEW n \in Calls, Read(n) \/ Write(n) \/ Answered(n) \/ Lost(n) PROVE DeletesOK'
  <2>1. listing'.pc = listing.pc
    BY <1>5 DEF Read, Write, Delete, Insert, Answered, Lost, TypeOK
  <2> QED
    BY <1>1, <1>5, <2>1, NoDeleteFromAnswers
<1>6. CASE ApiClient
  <2>1. PICK s \in 1 .. nextId - 1 :
          \/ Send("delete", s, <<>>, 0, "no")
          \/ \E a \in ClientAnswers : Send("submit", s, a, 0, "no")
          \/ \E q \in 0 .. Len(quiz[s]) : Send("flag", s, <<>>, q, "no")
    BY <1>6 DEF ApiClient
  <2>2. s \in Nat /\ (\A a \in ClientAnswers : a \in Seq(Int)) /\ <<>> \in Seq(Int) /\ 0 \in Int
    BY <2>1, ClientAnswersAssumption DEF TypeOK
  <2>3. PICK kind \in {"submit", "flag", "delete"}, a \in Seq(Int), q \in Int : Send(kind, s, a, q, "no")
    <3>1. CASE \E q \in 0 .. Len(quiz[s]) : Send("flag", s, <<>>, q, "no")
      <4>1. PICK q \in 0 .. Len(quiz[s]) : Send("flag", s, <<>>, q, "no")
        BY <3>1
      <4>2. q \in Int
        BY <4>1
      <4> QED
        BY <2>2, <4>1, <4>2
    <3> QED
      BY <2>1, <2>2, <3>1
  <2>4. listing' = listing
    BY <1>6 DEF ApiClient
  <2> QED
    BY <1>1, <2>2, <2>3, <2>4, NoDeleteFromOthers
<1>7. CASE Reading
  <2>1. listing' = listing
    BY <1>7 DEF Reading, Open, Leave, Submit, TryAgain, Choose, ReportQuestion
  <2>2. CASE Leave
    BY <1>1, <2>1, <2>2, NoDeleteWhenLeft DEF Leave
  <2>3. CASE Submit
    <3>1. Send("submit", page.story, page.selected, 0, "yes") /\ page.story \in Nat /\ page.selected \in Seq(Int)
      BY <2>3, PageFields DEF Submit
    <3>2. "submit" \in {"submit", "flag", "delete"} /\ "yes" \in {"no", "yes"} /\ 0 \in Int
      OBVIOUS
    <3> QED
      BY <1>1, <2>1, <3>1, <3>2, NoDeleteFromOthers
  <2>4. ASSUME NEW i \in DOMAIN page.selected, ReportQuestion(i - 1) PROVE DeletesOK'
    <3>1. Send("flag", page.story, <<>>, i - 1, "yes") /\ page.story \in Nat /\ i - 1 \in Int /\ <<>> \in Seq(Int)
      BY <2>4, PageFields DEF ReportQuestion
    <3>2. "flag" \in {"submit", "flag", "delete"} /\ "yes" \in {"no", "yes"}
      OBVIOUS
    <3> QED
      BY <1>1, <2>1, <3>1, <3>2, NoDeleteFromOthers
  <2>5. CASE TryAgain \/ (\E s \in Ids : Open(s)) \/ (\E i, o : Choose(i, o))
    BY <1>2, <2>1, <2>5 DEF TryAgain, Open, Choose
  <2> QED
    BY <1>7, <2>2, <2>3, <2>4, <2>5 DEF Reading
<1>8. CASE StartListing \/ FetchRows \/ FetchCount \/ ListingFails
  BY <1>2, <1>8 DEF StartListing, FetchRows, FetchCount, ListingFails, Loading
<1>9. CASE LeaveListing
  BY <1>9, NoDeleteWhenLeft DEF LeaveListing, DeletesOK, AwaitsDelete
<1>10. ASSUME NEW s \in Ids, ConfirmDelete(s) PROVE DeletesOK'
  BY <1>10 DEF ConfirmDelete, DeletesOK
<1>11. CASE Summarise \/ (\E s \in Ids : LoadStory(s)) \/ Finish
  BY <1>2, <1>11 DEF Summarise, LoadStory, Finish
<1> QED
  BY <1>3, <1>4, <1>5, <1>6, <1>7, <1>8, <1>9, <1>10, <1>11 DEF Next, Listing

-----------------------------------------------------------------------------
(* The list of stories: what it shows *)

LEMMA PlaceFacts ==
  ASSUME TypeOK, saved' \subseteq Ids, NEW x
  PROVE  /\ Place(x) \in Nat /\ Place(x)' \in Nat /\ Place(x) <= Cardinality(saved) /\ Cardinality(saved) \in Nat
         /\ saved' \subseteq saved => Place(x)' <= Place(x)
         /\ saved \subseteq saved' => Place(x) <= Place(x)'
<1>1. PICK S \in SUBSET Ids : S = saved
  BY DEF TypeOK
<1>2. PICK T \in SUBSET Ids : T = saved'
  OBVIOUS
<1>3. /\ Cardinality(UpTo(S, x)) \in Nat /\ Cardinality(UpTo(S, x)) <= Cardinality(S) /\ Cardinality(S) \in Nat
      /\ Cardinality(UpTo(T, x)) \in Nat
  BY <1>1, <1>2, PlaceGrows
<1>4. S \subseteq T => Cardinality(UpTo(S, x)) <= Cardinality(UpTo(T, x))
  BY <1>1, <1>2, PlaceGrows
<1>5. T \subseteq S => Cardinality(UpTo(T, x)) <= Cardinality(UpTo(S, x))
  BY <1>1, <1>2, PlaceGrows
<1>6. Place(x) = Cardinality(UpTo(S, x)) /\ Place(x)' = Cardinality(UpTo(T, x))
  BY <1>1, <1>2 DEF Place, UpTo
<1> QED
  BY <1>1, <1>2, <1>3, <1>4, <1>5, <1>6

(* What the list promises of its entries.                                  *)
LEMMA EntriesFacts ==
  ASSUME TypeOK, NothingTwice
  PROVE  \E A \in Seq(Ids) :
           /\ A = All /\ DOMAIN A = 1 .. Len(A)
           /\ \A n \in DOMAIN A : n \in Nat /\ A[n] \in Ids /\ Public(A[n])
           /\ Loading => \A n \in DOMAIN A : Place(A[n]) <= n \/ Pushed(A[n])
           /\ \A m, n \in DOMAIN A : m < n /\ A[m] = A[n] => Pushed(A[m])
<1>1. PICK A : A = All
  OBVIOUS
<1>2. A \in Seq(Ids) /\ DOMAIN A = 1 .. Len(A) /\ Len(A) \in Nat /\ \A n \in DOMAIN A : A[n] \in Ids
  <2>1. All \in Seq(Ids) /\ DOMAIN All = 1 .. Len(All) /\ \A n \in DOMAIN All : All[n] \in Ids
    BY AllFacts
  <2> QED
    BY <1>1, <2>1
<1>3. /\ \A n \in DOMAIN A : Public(A[n])
      /\ Loading => \A n \in DOMAIN A : Place(A[n]) <= n \/ Pushed(A[n])
      /\ \A m, n \in DOMAIN A : m < n /\ A[m] = A[n] => Pushed(A[m])
  BY <1>1 DEF NothingTwice
<1>4. \A n \in DOMAIN A : n \in Nat
  BY <1>2
<1> QED
  BY <1>1, <1>2, <1>3, <1>4

(* What must hold of the entries after a step.                             *)
LEMMA EntriesNext ==
  ASSUME NEW A, A = All',
         \A n \in DOMAIN A : Public(A[n])',
         Loading' => \A n \in DOMAIN A : Place(A[n])' <= n \/ Pushed(A[n])',
         \A m, n \in DOMAIN A : m < n /\ A[m] = A[n] => Pushed(A[m])'
  PROVE  NothingTwice'
BY DEF NothingTwice

(* A list that stays as it is keeps its promises, if a story that moved    *)
(* back was pushed.                                                        *)
LEMMA SameList ==
  ASSUME TypeOK, NothingTwice, Grows, All' = All, Loading' => Loading, listing.joined \subseteq listing'.joined,
         \A x \in Ids : Loading /\ Public(x) =>
           Pushed(x)' \/ (Place(x) \in Nat /\ Place(x)' \in Nat /\ Place(x)' <= Place(x))
  PROVE  NothingTwice'
<1>1. PICK A \in Seq(Ids) :
        /\ A = All /\ DOMAIN A = 1 .. Len(A)
        /\ \A n \in DOMAIN A : n \in Nat /\ A[n] \in Ids /\ Public(A[n])
        /\ Loading => \A n \in DOMAIN A : Place(A[n]) <= n \/ Pushed(A[n])
        /\ \A m, n \in DOMAIN A : m < n /\ A[m] = A[n] => Pushed(A[m])
  BY EntriesFacts
<1>2. \A x : Pushed(x) => Pushed(x)'
  BY DEF Pushed
<1>3. \A n \in DOMAIN A : Public(A[n])'
  BY <1>1 DEF Grows
<1>4. ASSUME Loading', NEW n \in DOMAIN A PROVE Place(A[n])' <= n \/ Pushed(A[n])'
  <2>1. PICK x \in Ids : x = A[n]
    BY <1>1
  <2>2. (Place(x) <= n \/ Pushed(x)) /\ Public(x) /\ n \in Nat
    BY <1>1, <1>4, <2>1
  <2>3. Pushed(x)' \/ (Place(x) \in Nat /\ Place(x)' \in Nat /\ Place(x)' <= Place(x))
    BY <1>4, <2>2
  <2>4. Place(x)' <= n \/ Pushed(x)'
    BY <1>2, <2>2, <2>3
  <2> QED
    BY <2>1, <2>4
<1>5. \A m, n \in DOMAIN A : m < n /\ A[m] = A[n] => Pushed(A[m])'
  BY <1>1, <1>2
<1>6. A = All'
  BY <1>1
<1> QED
  BY <1>3, <1>4, <1>5, <1>6, EntriesNext

LEMMA BeganStays ==
  ASSUME TypeOK, ListedOK, Grows, listing'.began = listing.began
  PROVE  \A x \in listing'.began : Public(x)'
BY ListingFields DEF ListedOK, Grows

(* A step that touches neither the listing nor what is stored.             *)
LEMMA ListedFrame ==
  ASSUME TypeOK, ListedOK, Grows, UNCHANGED <<listing, saved>>
  PROVE  ListedOK'
<1>1. NothingMissed'
  BY DEF ListedOK, NothingMissed, Loading, Place
<1>2. NothingTwice'
  <2>1. All' = All /\ (Loading' => Loading)
    BY DEF All, Loading
  <2>2. saved' \subseteq Ids
    BY DEF TypeOK
  <2>3. \A x \in Ids : Place(x) \in Nat /\ Place(x)' \in Nat /\ Place(x)' <= Place(x)
    BY <2>2, PlaceFacts
  <2> HIDE DEF All
  <2> QED
    BY <2>1, <2>3, SameList DEF ListedOK
<1>3. \A x \in listing'.began : Public(x)'
  BY BeganStays
<1> QED
  BY <1>1, <1>2, <1>3 DEF ListedOK, NotListing

LEMMA DeletedListed ==
  ASSUME TypeOK, ListedOK, Grows, NEW n \in Calls, Delete(n)
  PROVE  ListedOK'
<1>1. PICK s : s = call[n].story
  OBVIOUS
<1>2. PICK D \in BOOLEAN : D = (listing.deletes \/ (Loading /\ s \in saved))
  OBVIOUS
<1>3. saved' = saved \ {s} /\ listing' = [listing EXCEPT !.deletes = D]
  BY <1>1, <1>2, ListingFields DEF Delete
<1>4. /\ listing'.pc = listing.pc /\ listing'.items = listing.items /\ listing'.rows = listing.rows
      /\ listing'.began = listing.began /\ listing'.joined = listing.joined /\ listing'.deletes = D
  BY <1>3 DEF TypeOK
<1>5. CASE s \notin saved
  <2>1. saved' = saved /\ D = listing.deletes
    BY <1>2, <1>3, <1>5, ListingFields
  <2>2. listing' = listing
    BY <1>3, <2>1 DEF TypeOK
  <2> QED
    BY <2>1, <2>2, ListedFrame
<1>6. CASE s \in saved
  <2>1. NothingMissed'
    <3>1. SUFFICES ASSUME ~D PROVE NothingMissed'
      BY <1>4 DEF NothingMissed
    <3>2. ~Loading /\ ~listing.deletes
      BY <1>2, <1>6, <3>1
    <3>3. ~Loading' /\ listing.pc \notin {"loading", "counting"}
      BY <1>4, <3>2 DEF Loading
    <3>4. listing.pc = "shown" => listing.began \cap saved \subseteq ToSet(listing.items)
      BY <3>2 DEF ListedOK, NothingMissed
    <3> QED
      BY <1>3, <1>4, <3>3, <3>4 DEF NothingMissed
  <2>2. NothingTwice'
    <3>1. All' = All /\ (Loading' => Loading)
      BY <1>4 DEF All, Loading
    <3>2. saved' \subseteq Ids /\ saved' \subseteq saved
      BY <1>3 DEF TypeOK
    <3>3. \A x \in Ids : Place(x) \in Nat /\ Place(x)' \in Nat /\ Place(x)' <= Place(x)
      BY <3>2, PlaceFacts
    <3> HIDE DEF All
    <3> QED
      BY <1>4, <3>1, <3>3, SameList DEF ListedOK
  <2>3. \A x \in listing'.began : Public(x)'
    BY <1>4, BeganStays
  <2>4. listing'.pc = "off" => listing' = NotListing
    <3>1. SUFFICES ASSUME listing.pc = "off" PROVE listing' = NotListing
      BY <1>4
    <3>2. ~Loading /\ listing = NotListing /\ ~listing.deletes
      BY <3>1 DEF ListedOK, Loading, NotListing
    <3>3. D = FALSE
      BY <1>2, <3>2
    <3> QED
      BY <1>3, <3>2, <3>3 DEF NotListing
  <2> QED
    BY <1>4, <2>1, <2>2, <2>3, <2>4 DEF ListedOK
<1> QED
  BY <1>5, <1>6

(* A commit: the new story pushes the greater ones back.                   *)
LEMMA CommittedListed ==
  ASSUME TypeOK, WorkersOK, ListedOK, Grows, NEW w \in Workers, Commit(w)
  PROVE  ListedOK'
<1>1. PICK i \in Ids : i = worker[w].id
  BY DEF WorkersOK, Commit
<1>2. ~Public(i)
  BY <1>1 DEF Public, Commit
<1>3. saved' = saved \cup {i} /\ listing' = IF Loading THEN [listing EXCEPT !.joined = @ \cup {i}] ELSE listing
  BY <1>1 DEF Commit
<1>4. /\ listing'.pc = listing.pc /\ listing'.items = listing.items /\ listing'.rows = listing.rows
      /\ listing'.began = listing.began /\ listing'.deletes = listing.deletes
      /\ listing.joined \subseteq listing'.joined /\ (Loading => i \in listing'.joined)
  BY <1>3 DEF TypeOK
<1>5. saved' \subseteq Ids /\ saved \subseteq saved'
  BY <1>3 DEF TypeOK
<1>6. \A x \in Ids : Place(x) \in Nat /\ Place(x)' \in Nat /\ Place(x) <= Place(x)'
  BY <1>5, PlaceFacts
<1>7. \A x \in listing.began : x \in Ids /\ x # i
  BY <1>2, ListingFields DEF ListedOK
<1>8. NothingMissed'
  <2>1. SUFFICES ASSUME ~listing.deletes PROVE NothingMissed'
    BY <1>4 DEF NothingMissed
  <2>2. Loading' <=> Loading
    BY <1>4 DEF Loading
  <2>3. Loading => listing.began \subseteq saved'
    BY <1>5, <2>1 DEF ListedOK, NothingMissed
  <2>4. listing.pc = "loading" =>
          \A x \in listing.began : x \in ToSet(listing.items) \/ Place(x)' > Len(listing.items)
    <3>1. SUFFICES ASSUME listing.pc = "loading", NEW x \in listing.began, x \notin ToSet(listing.items)
                   PROVE  Place(x)' > Len(listing.items)
      OBVIOUS
    <3>2. Place(x) > Len(listing.items) /\ x \in Ids
      BY <1>7, <2>1, <3>1 DEF ListedOK, NothingMissed
    <3>3. Len(listing.items) \in Nat
      BY ListingFields
    <3> QED
      BY <1>6, <3>2, <3>3
  <2>5. listing.pc = "counting" =>
          \A x \in listing.began : \/ x \in ToSet(listing.items) \/ x \in ToSet(listing.rows)
                                  \/ /\ Len(listing.rows) >= PageSize
                                     /\ Place(x)' > Len(listing.items) + Len(listing.rows)
    <3>1. SUFFICES ASSUME listing.pc = "counting", NEW x \in listing.began,
                          x \notin ToSet(listing.items), x \notin ToSet(listing.rows)
                   PROVE  Len(listing.rows) >= PageSize /\ Place(x)' > Len(listing.items) + Len(listing.rows)
      OBVIOUS
    <3>2. Len(listing.rows) >= PageSize /\ Place(x) > Len(listing.items) + Len(listing.rows) /\ x \in Ids
      BY <1>7, <2>1, <3>1 DEF ListedOK, NothingMissed
    <3>3. PICK a \in Nat, b \in Nat : a = Len(listing.items) /\ b = Len(listing.rows)
      BY ListingFields
    <3>4. Place(x) \in Nat /\ Place(x)' \in Nat /\ Place(x) <= Place(x)'
      BY <1>6, <3>2
    <3>5. PICK p \in Nat, q \in Nat : p = Place(x) /\ q = Place(x)'
      BY <3>4
    <3>6. p > a + b /\ p <= q
      BY <3>2, <3>3, <3>4, <3>5
    <3>7. q > a + b
      BY <3>6
    <3> QED
      BY <3>2, <3>3, <3>5, <3>7
  <2>6. listing.pc = "shown" => listing.began \cap saved' \subseteq ToSet(listing.items)
    BY <1>3, <1>7, <2>1 DEF ListedOK, NothingMissed
  <2>7. /\ listing'.pc = "loading" =>
             \A x \in listing'.began : x \in ToSet(listing'.items) \/ Place(x)' > Len(listing'.items)
        /\ listing'.pc = "counting" =>
             \A x \in listing'.began : \/ x \in ToSet(listing'.items) \/ x \in ToSet(listing'.rows)
                                      \/ /\ Len(listing'.rows) >= PageSize
                                         /\ Place(x)' > Len(listing'.items) + Len(listing'.rows)
    BY <1>4, <2>4, <2>5
  <2>8. (Loading' => listing'.began \subseteq saved') /\
        (listing'.pc = "shown" => listing'.began \cap saved' \subseteq ToSet(listing'.items))
    BY <1>4, <2>2, <2>3, <2>6
  <2> QED
    BY <2>7, <2>8 DEF NothingMissed
<1>9. NothingTwice'
  <2>1. All' = All /\ (Loading' => Loading)
    BY <1>4 DEF All, Loading
  <2>2. ASSUME NEW x \in Ids, Loading, Public(x) PROVE Pushed(x)' \/ Place(x)' <= Place(x)
    <3>1. CASE i < x
      BY <1>4, <2>2, <3>1 DEF Pushed
    <3>2. CASE ~(i < x)
      <4>1. UpTo(saved \cup {i}, x) = UpTo(saved, x)
        BY <1>2, <2>2, <3>2, PlaceSame DEF TypeOK
      <4>2. Place(x)' = Place(x)
        BY <1>3, <4>1 DEF Place, UpTo
      <4> QED
        BY <1>6, <4>2
    <3> QED
      BY <3>1, <3>2
  <2> HIDE DEF All
  <2> QED
    BY <1>4, <1>6, <2>1, <2>2, SameList DEF ListedOK
<1>10. \A x \in listing'.began : Public(x)'
  BY <1>4, BeganStays
<1>11. listing'.pc = "off" => listing' = NotListing
  BY <1>3, <1>4 DEF ListedOK, Loading
<1> QED
  BY <1>4, <1>8, <1>9, <1>10, <1>11 DEF ListedOK

(* An empty list.                                                          *)
LEMMA EmptyListed ==
  ASSUME TypeOK, All' = <<>>
  PROVE  NothingTwice'
<1>1. DOMAIN All' = {}
  OBVIOUS
<1> HIDE DEF All
<1> QED
  BY <1>1 DEF NothingTwice

LEMMA StartedListed ==
  ASSUME TypeOK, QuizzesOK, ListedOK, Grows, StartListing
  PROVE  ListedOK'
<1>1. listing = NotListing /\ listing' = [listing EXCEPT !.pc = "loading", !.began = saved] /\ saved' = saved
  BY DEF StartListing, ListedOK, stored
<1>2. /\ listing'.pc = "loading" /\ listing'.items = <<>> /\ listing'.rows = <<>> /\ listing'.began = saved
  BY <1>1 DEF NotListing
<1>3. NothingMissed'
  <2>1. \A x \in saved : Place(x)' > 0
    <3>1. SUFFICES ASSUME NEW x \in saved PROVE Place(x)' > 0
      OBVIOUS
    <3>2. Cardinality(UpTo(saved, x)) > 0
      BY PlacePositive DEF TypeOK
    <3> QED
      BY <1>1, <3>2 DEF Place, UpTo
  <2>2. Len(<<>>) = 0
    OBVIOUS
  <2> QED
    BY <1>1, <1>2, <2>1, <2>2 DEF NothingMissed
<1>4. NothingTwice'
  <2>1. All' = <<>>
    BY <1>2 DEF All
  <2> QED
    BY <2>1, EmptyListed
<1>5. \A x \in listing'.began : Public(x)'
  BY <1>2 DEF QuizzesOK, Grows, Public
<1> QED
  BY <1>2, <1>3, <1>4, <1>5 DEF ListedOK

LEMMA NotListed ==
  ASSUME TypeOK, listing' = NotListing
  PROVE  ListedOK'
<1>1. /\ listing'.pc = "off" /\ listing'.items = <<>> /\ listing'.rows = <<>> /\ listing'.began = {}
  BY DEF NotListing
<1>2. All' = <<>>
  BY <1>1 DEF All
<1>3. NothingTwice'
  BY <1>2, EmptyListed
<1> QED
  BY <1>1, <1>3 DEF ListedOK, NothingMissed, Loading

(* A page of rows: the next places in the order of what is stored now.     *)
LEMMA FetchedListed ==
  ASSUME TypeOK, QuizzesOK, ListedOK, Grows, FetchRows
  PROVE  ListedOK'
<1>1. PICK f \in InOrder(saved), rows \in Seq(saved) :
        /\ listing' = [listing EXCEPT !.pc = "counting", !.rows = rows]
        /\ Len(rows) <= PageSize
        /\ Len(listing.items) + Len(rows) <= Cardinality(saved) \/ rows = <<>>
        /\ Len(rows) < PageSize => Len(listing.items) + Len(rows) >= Cardinality(saved)
        /\ \A k \in 1 .. Len(rows) : /\ Len(listing.items) + k \in 1 .. Cardinality(saved)
                                    /\ rows[k] = f[Len(listing.items) + k]
  BY FetchedRows
<1>2. listing.pc = "loading" /\ saved' = saved /\ listing.rows = <<>>
  BY FetchedRows DEF stored, ListedOK
<1>3. /\ listing'.pc = "counting" /\ listing'.items = listing.items /\ listing'.rows = rows
      /\ listing'.began = listing.began /\ listing'.joined = listing.joined /\ listing'.deletes = listing.deletes
  BY <1>1 DEF TypeOK
<1>4. PICK a \in Nat, b \in Nat, size \in Nat : a = Len(listing.items) /\ b = Len(rows) /\ size = PageSize
  BY ListingFields, BoundsFacts
<1>5. saved \in SUBSET Int /\ saved \in SUBSET Ids /\ IsFiniteSet(saved)
  <2>1. saved \in SUBSET Ids
    BY DEF TypeOK
  <2>2. IsFiniteSet(saved)
    BY <2>1, BoundsFacts, FS_Subset
  <2>3. saved \in SUBSET Int
    BY <2>1, BoundsFacts
  <2> QED
    BY <2>1, <2>2, <2>3
<1>6. /\ Cardinality(saved) \in Nat
      /\ \A p \in 1 .. Cardinality(saved) : f[p] \in saved
      /\ \A p, q \in 1 .. Cardinality(saved) : p < q => f[p] < f[q] /\ f[p] # f[q]
      /\ \A x \in saved : \E p \in 1 .. Cardinality(saved) : f[p] = x
      /\ \A p \in 1 .. Cardinality(saved) : Place(f[p]) = p
  <2>1. \A p \in 1 .. Cardinality(saved) : Place(f[p]) = p
    BY <1>5, PlaceInOrder DEF Place
  <2>2. /\ Cardinality(saved) \in Nat
        /\ \A p \in 1 .. Cardinality(saved) : f[p] \in saved /\ f[p] \in Int
        /\ \A p, q \in 1 .. Cardinality(saved) : p < q => f[p] < f[q]
        /\ \A x \in saved : \E p \in 1 .. Cardinality(saved) : f[p] = x
    BY <1>5, Ordered
  <2>3. \A p, q \in 1 .. Cardinality(saved) : p < q => f[p] # f[q]
    BY <2>2
  <2> QED
    BY <2>1, <2>2, <2>3
<1>7. \A k \in 1 .. b : a + k \in 1 .. Cardinality(saved) /\ rows[k] = f[a + k]
  BY <1>1, <1>4
<1>8. NothingMissed'
  <2>1. SUFFICES ASSUME ~listing.deletes PROVE NothingMissed'
    BY <1>3 DEF NothingMissed
  <2>2. listing.began \subseteq saved
    BY <1>2, <2>1 DEF ListedOK, NothingMissed, Loading
  <2>3. ASSUME NEW x \in listing.began, x \notin ToSet(listing.items), x \notin ToSet(rows)
        PROVE  b >= size /\ Place(x) > a + b
    <3>1. PICK p \in 1 .. Cardinality(saved) : f[p] = x
      BY <1>6, <2>2
    <3>2. Place(x) = p /\ Place(x) > a /\ p \in Nat
      <4>1. Place(x) > Len(listing.items)
        BY <1>2, <2>1, <2>3 DEF ListedOK, NothingMissed
      <4> QED
        BY <1>4, <1>6, <3>1, <4>1
    <3>3. ~(p <= a + b)
      <4>1. SUFFICES ASSUME p <= a + b PROVE FALSE
        OBVIOUS
      <4>2. PICK k \in 1 .. b : p = a + k
        <5>1. p - a \in 1 .. b /\ p = a + (p - a)
          BY <3>2, <4>1
        <5> QED
          BY <5>1
      <4>3. rows[k] = x /\ k \in DOMAIN rows
        BY <1>4, <1>7, <3>1, <4>2
      <4> QED
        BY <2>3, <4>3 DEF ToSet
    <3>4. p > a + b
      BY <3>2, <3>3
    <3>5. b < size => a + b >= Cardinality(saved)
      BY <1>1, <1>4
    <3> QED
      BY <1>6, <3>2, <3>4, <3>5
  <2>4. \A x : Place(x)' = Place(x)
    BY <1>2 DEF Place
  <2>5. \A x \in listing.began : \/ x \in ToSet(listing.items) \/ x \in ToSet(rows)
                                 \/ /\ Len(rows) >= PageSize
                                    /\ Place(x)' > Len(listing.items) + Len(rows)
    BY <1>4, <2>3, <2>4
  <2> QED
    BY <1>2, <1>3, <2>2, <2>5 DEF NothingMissed
<1>9. PICK A \in Seq(Ids) :
        /\ A = All /\ DOMAIN A = 1 .. Len(A)
        /\ \A n \in DOMAIN A : n \in Nat /\ A[n] \in Ids /\ Public(A[n])
        /\ Loading => \A n \in DOMAIN A : Place(A[n]) <= n \/ Pushed(A[n])
        /\ \A m, n \in DOMAIN A : m < n /\ A[m] = A[n] => Pushed(A[m])
  BY EntriesFacts DEF ListedOK
<1>10. A = listing.items
  <2>1. All = listing.items
    BY <1>2, AllFacts
  <2> QED
    BY <1>9, <2>1
<1>11. PICK rs \in Seq(Ids) : rs = rows
  BY <1>1, <1>5
<1>12. PICK u \in Seq(Ids) :
         /\ u = A \o rs
         /\ Len(u) = Len(A) + Len(rs) /\ DOMAIN u = 1 .. Len(u)
         /\ Len(A) \in Nat /\ Len(rs) \in Nat
         /\ \A n \in 1 .. Len(u) : u[n] = IF n <= Len(A) THEN A[n] ELSE rs[n - Len(A)]
         /\ \A n \in DOMAIN u : u[n] \in Ids
         /\ ToSet(u) = ToSet(A) \cup ToSet(rs)
         /\ rs = <<>> => u = A
  BY ListsJoined
<1>13. u = All'
  BY <1>3, <1>10, <1>11, <1>12 DEF All
<1>14. /\ DOMAIN u = 1 .. a + b
       /\ \A n \in 1 .. a : n \in DOMAIN A /\ u[n] = A[n]
       /\ \A n \in 1 .. a + b : n \in 1 .. a \/ (n \in 1 .. Cardinality(saved) /\ u[n] = f[n])
  <2>1. Len(A) = a /\ Len(rs) = b /\ Len(u) = a + b
    BY <1>4, <1>10, <1>11, <1>12
  <2>2. \A n \in 1 .. a : n \in DOMAIN A /\ u[n] = A[n]
    BY <1>9, <1>12, <2>1
  <2>3. ASSUME NEW n \in 1 .. a + b, n \notin 1 .. a PROVE n \in 1 .. Cardinality(saved) /\ u[n] = f[n]
    <3>1. n - a \in 1 .. b /\ n = a + (n - a) /\ ~(n <= a)
      BY <2>3
    <3>2. u[n] = rs[n - a]
      BY <1>12, <2>1, <3>1
    <3> QED
      BY <1>7, <1>11, <3>1, <3>2
  <2> QED
    BY <1>12, <2>1, <2>2, <2>3
<1>15. \A n \in DOMAIN u : Public(u[n])'
  <2>1. \A n \in DOMAIN u : Public(u[n])
    BY <1>6, <1>9, <1>14 DEF QuizzesOK
  <2> QED
    BY <1>12, <2>1 DEF Grows
<1>16. \A x : Place(x)' = Place(x) /\ (Pushed(x)' <=> Pushed(x))
  BY <1>2, <1>3 DEF Place, Pushed
<1>17. ASSUME NEW n \in DOMAIN u PROVE Place(u[n]) <= n \/ Pushed(u[n])
  <2>1. CASE n \in 1 .. a
    BY <1>2, <1>9, <1>14, <2>1 DEF Loading
  <2>2. CASE n \notin 1 .. a
    <3>1. n \in 1 .. Cardinality(saved) /\ u[n] = f[n]
      BY <1>14, <1>17, <2>2
    <3>2. Place(u[n]) = n /\ n \in Nat
      BY <1>6, <3>1
    <3> QED
      BY <3>2
  <2> QED
    BY <2>1, <2>2
<1>18. ASSUME NEW m \in DOMAIN u, NEW n \in DOMAIN u, m < n, u[m] = u[n] PROVE Pushed(u[m])
  <2>0. m \in Nat /\ n \in Nat
    BY <1>14
  <2>1. CASE n \in 1 .. a
    <3>1. m \in 1 .. a
      BY <1>14, <1>18, <2>1
    <3> QED
      BY <1>9, <1>14, <1>18, <2>1, <3>1
  <2>2. CASE n \notin 1 .. a
    <3>1. n \in 1 .. Cardinality(saved) /\ u[n] = f[n]
      BY <1>14, <2>2
    <3>2. Place(u[n]) = n
      BY <1>6, <3>1
    <3>3. m \in 1 .. Cardinality(saved) => u[m] # f[m]
      BY <1>6, <1>18, <3>1
    <3>4. ~(Place(u[m]) <= m)
      BY <1>18, <2>0, <3>2
    <3> QED
      BY <1>17, <3>4
  <2> QED
    BY <2>1, <2>2
<1>19. NothingTwice'
  <2>1. \A n \in DOMAIN u : Place(u[n])' <= n \/ Pushed(u[n])'
    BY <1>16, <1>17
  <2>2. \A m, n \in DOMAIN u : m < n /\ u[m] = u[n] => Pushed(u[m])'
    BY <1>16, <1>18
  <2> QED
    BY <1>13, <1>15, <2>1, <2>2, EntriesNext
<1>20. \A x \in listing'.began : Public(x)'
  BY <1>3, BeganStays
<1> QED
  BY <1>3, <1>8, <1>19, <1>20 DEF ListedOK

(* The count: the rows join the list, and a last page ends it.             *)
LEMMA CountedListed ==
  ASSUME TypeOK, ListedOK, Grows, FetchCount
  PROVE  ListedOK'
<1>1. PICK p \in {"shown", "loading"} :
        /\ listing' = [listing EXCEPT !.items = All, !.rows = <<>>, !.pc = p]
        /\ p = "shown" => Len(listing.rows) < PageSize \/ Len(All) >= Cardinality(saved)
  BY DEF FetchCount, LastPage, All
<1>2. listing.pc = "counting" /\ saved' = saved
  BY DEF FetchCount, stored
<1>3. /\ listing'.pc = p /\ listing'.items = All /\ listing'.rows = <<>>
      /\ listing'.began = listing.began /\ listing'.joined = listing.joined /\ listing'.deletes = listing.deletes
  BY <1>1 DEF TypeOK
<1>4. PICK u \in Seq(Ids) : u = All
  BY AllFacts
<1>5. All' = All
  <2>1. All' = u \o <<>>
    BY <1>3, <1>4 DEF All
  <2>2. u \o <<>> = u
    BY ConcatEmptySeq
  <2> QED
    BY <1>4, <2>1, <2>2
<1>6. NothingMissed'
  <2>1. SUFFICES ASSUME ~listing.deletes PROVE NothingMissed'
    BY <1>3 DEF NothingMissed
  <2>2. listing.began \subseteq saved
    BY <1>2, <2>1 DEF ListedOK, NothingMissed, Loading
  <2>3. PICK a \in Nat, b \in Nat, k \in Nat, size \in Nat, card \in Nat :
          /\ a = Len(listing.items) /\ b = Len(listing.rows) /\ k = Len(u) /\ k = a + b
          /\ size = PageSize /\ card = Cardinality(saved)
    <3>1. saved' \subseteq Ids
      BY <1>2 DEF TypeOK
    <3>2. Cardinality(saved) \in Nat
      BY <3>1, PlaceFacts
    <3>3. Len(listing.items) \in Nat /\ Len(listing.rows) \in Nat /\ Len(u) \in Nat
      BY ListingFields
    <3>4. Len(u) = Len(listing.items) + Len(listing.rows)
      <4>1. Len(All) = Len(listing.items) + Len(listing.rows)
        BY AllFacts
      <4> QED
        BY <1>4, <4>1
    <3> QED
      BY <3>2, <3>3, <3>4, BoundsFacts
  <2>4. ASSUME NEW x \in listing.began, x \notin ToSet(u) PROVE Place(x) > k /\ p = "loading"
    <3>1. x \notin ToSet(listing.items) /\ x \notin ToSet(listing.rows)
      <4>1. ToSet(All) = ToSet(listing.items) \cup ToSet(listing.rows)
        BY AllFacts
      <4> QED
        BY <1>4, <2>4, <4>1
    <3>2. b >= size /\ Place(x) > a + b
      BY <1>2, <2>1, <2>3, <3>1 DEF ListedOK, NothingMissed
    <3>3. Place(x) \in Nat /\ Place(x) <= card
      <4>1. saved' \subseteq Ids
        BY <1>2 DEF TypeOK
      <4> QED
        BY <2>3, <4>1, PlaceFacts
    <3>4. p = "shown" => b < size \/ k >= card
      BY <1>1, <1>4, <2>3
    <3>5. PICK q \in Nat : q = Place(x)
      BY <3>3
    <3>6. q > k /\ b >= size /\ q <= card /\ k \in Nat /\ card \in Nat /\ b \in Nat /\ size \in Nat
      BY <2>3, <3>2, <3>3, <3>5
    <3>7. p # "shown"
      BY <3>4, <3>6
    <3> QED
      BY <1>1, <3>5, <3>6, <3>7
  <2>5. \A x : Place(x)' = Place(x)
    BY <1>2 DEF Place
  <2>6. listing'.items = u
    BY <1>3, <1>4
  <2>7. p = "loading" => \A x \in listing.began : x \in ToSet(u) \/ Place(x)' > Len(u)
    BY <2>3, <2>4, <2>5
  <2>8. p = "shown" => listing.began \cap saved \subseteq ToSet(u)
    BY <2>4
  <2> QED
    BY <1>2, <1>3, <2>2, <2>6, <2>7, <2>8 DEF NothingMissed
<1>7. NothingTwice'
  <2>1. Loading
    BY <1>2 DEF Loading
  <2>2. \A x \in Ids : Place(x) \in Nat /\ Place(x)' \in Nat /\ Place(x)' <= Place(x)
    <3>1. saved' \subseteq Ids /\ saved' \subseteq saved
      BY <1>2 DEF TypeOK
    <3> QED
      BY <3>1, PlaceFacts
  <2> HIDE DEF All
  <2> QED
    BY <1>3, <1>5, <2>1, <2>2, SameList DEF ListedOK
<1>8. \A x \in listing'.began : Public(x)'
  BY <1>3, BeganStays
<1> QED
  BY <1>3, <1>6, <1>7, <1>8 DEF ListedOK

(* A story that was deleted is taken off the list.                         *)
LEMMA AnsweredListed ==
  ASSUME TypeOK, CallsOK, ListingOK, Grows, NEW n \in Calls, Answered(n)
  PROVE  ListedOK'
<1>1. PICK c \in CallRecord : c = call[n]
  BY DEF TypeOK
<1>2. c.waiting = "yes" /\ saved' = saved
  BY <1>1 DEF Answered, stored
<1>3. CASE c.kind \in {"submit", "flag"}
  <2>1. listing' = listing
    BY <1>1, <1>3 DEF Answered
  <2> QED
    BY <1>2, <2>1, ListedFrame DEF ListingOK
<1>4. CASE c.kind = "delete"
  <2>1. listing.pc = "shown"
    BY <1>1, <1>2, <1>4 DEF ListingOK, DeletesOK, AwaitsDelete
  <2>2. PICK items \in ListedAfter(listing.items, c) : listing' = [listing EXCEPT !.items = items]
    BY <1>1, <1>4 DEF Answered
  <2>3. CASE c.pc # "stored"
    <3>1. items = listing.items
      BY <2>2, <2>3 DEF ListedAfter
    <3>2. listing' = listing
      BY <2>2, <3>1 DEF TypeOK
    <3> QED
      BY <1>2, <3>2, ListedFrame DEF ListingOK
  <2>4. CASE c.pc = "stored"
    <3>1. c.story \notin saved
      BY <1>1, <1>4, <2>4 DEF CallsOK, CallOK
    <3>2. PICK list \in Seq(Ids) : list = listing.items
      BY ListingFields
    <3>3. PICK S \in SUBSET DOMAIN list : S = {i \in DOMAIN list : list[i] # c.story}
      OBVIOUS
    <3>4. items \in Entries(list, S)
      BY <2>2, <2>4, <3>2, <3>3 DEF ListedAfter
    <3>5. PICK e \in Seq(Ids) :
            /\ e = items
            /\ \A m \in DOMAIN e : \E i \in S : e[m] = list[i]
            /\ \A i \in S : \E m \in DOMAIN e : e[m] = list[i]
            /\ \A l, m \in DOMAIN e : l < m => \E i, j \in S : i < j /\ e[l] = list[i] /\ e[m] = list[j]
      BY <3>4, Kept
    <3>6. /\ listing'.pc = "shown" /\ listing'.items = e /\ listing'.rows = <<>>
          /\ listing'.began = listing.began /\ listing'.joined = listing.joined
          /\ listing'.deletes = listing.deletes
      BY <2>1, <2>2, <3>5 DEF TypeOK, ListingOK, ListedOK
    <3>7. NothingMissed'
      <4>1. SUFFICES ASSUME ~listing.deletes, NEW x \in listing.began \cap saved PROVE x \in ToSet(e)
        BY <1>2, <3>6 DEF NothingMissed, Loading
      <4>2. x \in ToSet(list)
        BY <2>1, <3>2, <4>1 DEF ListingOK, ListedOK, NothingMissed
      <4>3. PICK i \in DOMAIN list : list[i] = x
        BY <4>2 DEF ToSet
      <4>4. i \in S
        BY <3>1, <3>3, <4>1, <4>3
      <4> QED
        BY <3>5, <4>3, <4>4 DEF ToSet
    <3>8. NothingTwice'
      <4>1. PICK A \in Seq(Ids) :
              /\ A = All /\ DOMAIN A = 1 .. Len(A)
              /\ \A m \in DOMAIN A : m \in Nat /\ A[m] \in Ids /\ Public(A[m])
              /\ Loading => \A m \in DOMAIN A : Place(A[m]) <= m \/ Pushed(A[m])
              /\ \A l, m \in DOMAIN A : l < m /\ A[l] = A[m] => Pushed(A[l])
        BY EntriesFacts DEF ListingOK, ListedOK
      <4>2. A = list
        <5>1. All = listing.items
          BY <2>1, AllFacts DEF ListingOK, ListedOK
        <5> QED
          BY <3>2, <4>1, <5>1
      <4>3. e = All'
        <5>1. All' = e \o <<>>
          BY <3>6 DEF All
        <5>2. e \o <<>> = e
          BY ConcatEmptySeq
        <5> QED
          BY <5>1, <5>2
      <4>4. \A m \in DOMAIN e : Public(e[m])'
        <5>1. \A i \in DOMAIN list : Public(list[i])'
          BY <4>1, <4>2 DEF Grows
        <5> QED
          BY <3>5, <5>1
      <4>5. ASSUME NEW l \in DOMAIN e, NEW m \in DOMAIN e, l < m, e[l] = e[m] PROVE Pushed(e[l])'
        <5>1. PICK i \in S, j \in S : i < j /\ e[l] = list[i] /\ e[m] = list[j]
          BY <3>5, <4>5
        <5>2. Pushed(e[l])
          BY <4>1, <4>2, <4>5, <5>1
        <5> QED
          BY <3>6, <5>2 DEF Pushed
      <4>6. ~Loading'
        BY <3>6 DEF Loading
      <4> QED
        BY <4>3, <4>4, <4>5, <4>6, EntriesNext
    <3>9. \A x \in listing'.began : Public(x)'
      BY <3>6, BeganStays DEF ListingOK
    <3> QED
      BY <3>6, <3>7, <3>8, <3>9 DEF ListedOK
  <2> QED
    BY <2>3, <2>4
<1> QED
  BY <1>1, <1>3, <1>4 DEF Answered

LEMMA ListingStep ==
  ASSUME TypeOK, WorkersOK, QuizzesOK, CallsOK, ListingOK, [Next]_vars
  PROVE  ListingOK'
<1>1. Grows
  BY GrowsStep
<1>2. DeletesOK'
  BY DeletesStep DEF ListingOK
<1> SUFFICES ListedOK'
  BY <1>2 DEF ListingOK
<1>3. ASSUME UNCHANGED <<listing, saved>> PROVE ListedOK'
  BY <1>1, <1>3, ListedFrame DEF ListingOK
<1>4. CASE UNCHANGED vars
  BY <1>3, <1>4 DEF vars
<1>5. ASSUME NEW w \in Workers, Working(w) PROVE ListedOK'
  <2>1. CASE Generate(w)
    BY <1>3, <2>1 DEF Generate
  <2>2. CASE Commit(w)
    BY <1>1, <2>2, CommittedListed DEF ListingOK
  <2> QED
    BY <1>5, <2>1, <2>2 DEF Working
<1>6. ASSUME NEW n \in Calls, Read(n) \/ Write(n) \/ Answered(n) \/ Lost(n) PROVE ListedOK'
  <2>1. CASE Read(n) \/ Lost(n)
    BY <1>3, <2>1 DEF Read, Lost, stored
  <2>2. CASE Write(n)
    <3>1. CASE Delete(n)
      BY <1>1, <3>1, DeletedListed DEF ListingOK
    <3>2. CASE Insert(n)
      BY <1>3, <3>2 DEF Insert
    <3> QED
      BY <2>2, <3>1, <3>2 DEF Write
  <2>3. CASE Answered(n)
    BY <1>1, <2>3, AnsweredListed
  <2> QED
    BY <1>6, <2>1, <2>2, <2>3
<1>7. CASE ApiClient \/ Reading
  BY <1>3, <1>7 DEF ApiClient, Reading, Open, Leave, Submit, TryAgain, Choose, ReportQuestion, stored
<1>8. CASE Listing
  <2>1. CASE StartListing
    BY <1>1, <2>1, StartedListed DEF ListingOK
  <2>2. CASE FetchRows
    BY <1>1, <2>2, FetchedListed DEF ListingOK
  <2>3. CASE FetchCount
    BY <1>1, <2>3, CountedListed DEF ListingOK
  <2>4. CASE LeaveListing \/ ListingFails
    BY <2>4, NotListed DEF LeaveListing, ListingFails
  <2>5. CASE \E s \in Ids : ConfirmDelete(s)
    BY <1>3, <2>5 DEF ConfirmDelete, stored
  <2> QED
    BY <1>8, <2>1, <2>2, <2>3, <2>4, <2>5 DEF Listing
<1>9. CASE Summarise \/ (\E s \in Ids : LoadStory(s)) \/ Finish
  BY <1>3, <1>9 DEF Summarise, LoadStory, Finish, stored
<1> QED
  BY <1>4, <1>5, <1>6, <1>7, <1>8, <1>9 DEF Next

-----------------------------------------------------------------------------
(* The invariant, and what it says of the properties *)

LEMMA StoriesStep == StoriesInv /\ [Next]_vars => StoriesInv'
<1> SUFFICES ASSUME StoriesInv, [Next]_vars PROVE StoriesInv'
  OBVIOUS
<1>1. TypeOK /\ WorkersOK /\ QuizzesOK /\ RowsOK /\ CallsOK /\ PageOK /\ ListingOK /\ ReviewOK
  BY DEF StoriesInv
<1>2. TypeOK'
  BY <1>1, TypeStep
<1>3. WorkersOK' /\ QuizzesOK'
  BY <1>1, WorkersStep
<1>4. RowsOK'
  BY <1>1, RowsStep
<1>5. CallsOK'
  BY <1>1, CallsStep
<1>6. PageOK'
  BY <1>1, PageStep
<1>7. ListingOK'
  BY <1>1, ListingStep
<1>8. ReviewOK'
  BY <1>1, ReviewStep
<1> QED
  BY <1>2, <1>3, <1>4, <1>5, <1>6, <1>7, <1>8 DEF StoriesInv

(* The inductive invariant holds in every reachable state, whatever the    *)
(* workers, the readers and the other clients of the API do.               *)
THEOREM StoriesInvariant == Spec => []StoriesInv
<1>1. StoriesInv /\ UNCHANGED vars => StoriesInv'
  BY StoriesStep
<1> QED
  BY StoriesInit, StoriesStep, PTL DEF Spec

(* A question is marked by the option the model marked: as stored, every   *)
(* question is Marked; and what the page shows as the reader's choice is   *)
(* the answers that were marked (quiz._shuffle_options, QuizSection).      *)
THEOREM QuizzesMarkedAsWritten == Spec => []MarkedAsWritten
<1>1. StoriesInv => MarkedAsWritten
  <2> SUFFICES ASSUME StoriesInv PROVE MarkedAsWritten
    OBVIOUS
  <2>1. TypeOK /\ QuizzesOK /\ PageOK
    BY DEF StoriesInv
  <2>2. \A s \in saved : \A i \in DOMAIN quiz[s] : Right(quiz[s][i], quiz[s][i].answer)
    BY <2>1 DEF QuizzesOK, Marked, Public
  <2>3. page.marked # 0 => call[page.marked].answers = page.selected
    BY <2>1 DEF PageOK, Marks
  <2> QED
    BY <2>2, <2>3 DEF MarkedAsWritten
<1> QED
  BY <1>1, StoriesInvariant, PTL

(* What the story page shows as recorded or reported is stored, unless the *)
(* story has gone: its mark and its reports are calls of its own that were *)
(* carried out, and such a call left its row.                              *)
THEOREM StoryPageIsTrue == Spec => []PageIsTrue
<1>1. StoriesInv => PageIsTrue
  <2> SUFFICES ASSUME StoriesInv PROVE PageIsTrue
    OBVIOUS
  <2>1. TypeOK /\ CallsOK /\ PageOK
    BY DEF StoriesInv
  <2>2. ASSUME page.marked # 0, page.story \in saved
        PROVE  [id |-> page.marked, story |-> page.story, answers |-> page.selected] \in attempts
    <3>1. page.marked \in Calls /\ Marks(call[page.marked])
      BY <2>1, <2>2 DEF PageOK
    <3>2. CallOK(page.marked, call[page.marked])
      BY <2>1, <3>1 DEF CallsOK
    <3> QED
      BY <2>2, <3>1, <3>2 DEF Marks, CallOK
  <2>3. ASSUME page.story \in saved, NEW q \in page.flagged
        PROVE  \E f \in flags : f.story = page.story /\ f.question = q /\ Visit(f)
    <3>1. PICK n \in Calls : Reports(call[n], q)
      BY <2>1 DEF PageOK
    <3>2. CallOK(n, call[n])
      BY <2>1 DEF CallsOK
    <3>3. PICK f : f = [id |-> n, story |-> page.story, question |-> q]
      OBVIOUS
    <3>4. f \in flags
      BY <2>3, <3>1, <3>2, <3>3 DEF Reports, CallOK
    <3>5. f.id = n /\ f.story = page.story /\ f.question = q
      BY <3>3
    <3>6. Visit(f)
      BY <3>1, <3>5 DEF Visit, Reports
    <3> QED
      BY <3>4, <3>5, <3>6
  <2> QED
    BY <2>2, <2>3 DEF PageIsTrue
<1> QED
  BY <1>1, StoriesInvariant, PTL

(* A list loaded page by page while nothing is deleted misses no story     *)
(* that was there when it began, and lists none twice unless a story with  *)
(* a smaller id was committed meanwhile, however the count and the pages   *)
(* shift under it (fetchAllPages over offset pages).                       *)
THEOREM ListingIsSound == Spec => []ListingSound
<1>1. StoriesInv => ListingSound
  <2> SUFFICES ASSUME StoriesInv, listing.pc = "shown"
               PROVE  /\ ~listing.deletes => listing.began \cap saved \subseteq ToSet(listing.items)
                      /\ ~IsInjective(listing.items) =>
                           \E s \in listing.joined : \E n \in DOMAIN listing.items : s < listing.items[n]
    BY DEF ListingSound
  <2>1. TypeOK /\ ListedOK
    BY DEF StoriesInv, ListingOK
  <2>2. ~listing.deletes => listing.began \cap saved \subseteq ToSet(listing.items)
    BY <2>1 DEF ListedOK, NothingMissed
  <2>3. PICK A \in Seq(Ids) :
          /\ A = All /\ DOMAIN A = 1 .. Len(A)
          /\ \A m \in DOMAIN A : m \in Nat /\ A[m] \in Ids /\ Public(A[m])
          /\ Loading => \A m \in DOMAIN A : Place(A[m]) <= m \/ Pushed(A[m])
          /\ \A l, m \in DOMAIN A : l < m /\ A[l] = A[m] => Pushed(A[l])
    BY <2>1, EntriesFacts DEF ListedOK
  <2>4. A = listing.items
    <3>1. All = listing.items
      BY <2>1, AllFacts DEF ListedOK
    <3> QED
      BY <2>3, <3>1
  <2>5. ASSUME ~IsInjective(A) PROVE \E s \in listing.joined : \E n \in DOMAIN A : s < A[n]
    <3>1. PICK l \in DOMAIN A, m \in DOMAIN A : A[l] = A[m] /\ l # m
      BY <2>5 DEF IsInjective
    <3>2. l \in Nat /\ m \in Nat
      BY <2>3
    <3>3. l < m \/ m < l
      BY <3>1, <3>2
    <3>4. Pushed(A[l]) \/ Pushed(A[m])
      BY <2>3, <3>1, <3>3
    <3> QED
      BY <3>4 DEF Pushed
  <2> QED
    BY <2>2, <2>4, <2>5
<1> QED
  BY <1>1, StoriesInvariant, PTL

(* review-questions breaks off only because a story it lists was deleted   *)
(* while it ran: every flag and attempt of a story that is there fits its  *)
(* questions, whatever other clients sent.                                 *)
THEOREM ReviewsEnd == Spec => []ReviewEnds
<1>1. StoriesInv => ReviewEnds
  <2> SUFFICES ASSUME StoriesInv, review.pc = "broken" PROVE \E l \in review.lines : l[1] \notin saved
    BY DEF ReviewEnds
  <2>1. ReviewOK
    BY DEF StoriesInv
  <2>2. PICK s \in review.gone : s \notin saved
    BY <2>1 DEF ReviewOK
  <2>3. PICK l \in review.lines : l[1] = s
    BY <2>1 DEF ReviewOK
  <2> QED
    BY <2>2, <2>3
<1> QED
  BY <1>1, StoriesInvariant, PTL
=============================================================================
