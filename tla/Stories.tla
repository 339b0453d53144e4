------------------------------ MODULE Stories ------------------------------
(***************************************************************************)
(* Stories from the worker that writes them to the reader: two workers     *)
(* save stories while the reader, in one tab, takes a quiz and reports its *)
(* questions, or lists all stories page by page and deletes them, other    *)
(* clients of the API send what they like, and the command line reviews    *)
(* the reported questions.  Every API call reads, then writes in the same  *)
(* READ COMMITTED transaction; its answer may be lost or come too late.    *)
(***************************************************************************)
EXTENDS StoryAnswers

CONSTANTS Workers,     \* generation workers
          MaxStories,  \* bound on stories written
          PageSize,    \* STORIES_PAGE_SIZE
          MaxQuizzes,  \* bound on the stories that have questions
          MaxSends,    \* bound on calls of the API that change something
          ClientAnswers \* answers another client of the API may send

ASSUME BoundsAssumption == MaxStories \in Nat /\ MaxSends \in Nat /\ PageSize \in Nat \ {0}
ASSUME ClientAnswersAssumption == ClientAnswers \subseteq Seq(Nat)

VARIABLES nextId,    \* the id the next story gets
          saved,     \* ids of the stories stored now
          quiz,      \* the questions of each story written, <<>> for null
          attempts,  \* quiz attempts: the call that stored each, its story and answers
          flags,     \* question flags: the call, the story and the question
          worker,    \* the workers
          call,      \* the API calls
          page,      \* the reader's story page
          listing,   \* the stories page
          review     \* review-questions

stored == <<nextId, saved, quiz, attempts, flags>>
vars == <<nextId, saved, quiz, attempts, flags, worker, call, page, listing, review>>

Ids == 1 .. MaxStories
Calls == 1 .. MaxSends
NoStory == 0
Unset == -1     \* a question not answered yet

Idle == [pc |-> "idle", id |-> 0, quiz |-> <<>>]
Unsent == [kind |-> "none", story |-> NoStory, answers |-> <<>>, question |-> 0,
           pc |-> "unsent", waiting |-> "no"]
NotListing == [pc |-> "off", items |-> <<>>, rows |-> <<>>, began |-> {}, joined |-> {}, deletes |-> FALSE]
NotReviewing == [pc |-> "off", lines |-> {}, unread |-> {}, gone |-> {}]
Closed == [story |-> NoStory, selected |-> <<>>, marked |-> 0, flagged |-> {}]

Init == /\ nextId = 1 /\ saved = {} /\ attempts = {} /\ flags = {}
        /\ quiz = [s \in Ids |-> <<>>]
        /\ worker = [w \in Workers |-> Idle]
        /\ call = [n \in Calls |-> Unsent]
        /\ page = Closed
        /\ listing = NotListing
        /\ review = NotReviewing

-----------------------------------------------------------------------------
(* Writing stories *)

(* Each question's options in an order of their own. *)
Orders(q) == {o \in [DOMAIN q.options -> DOMAIN q.options] : IsInjective(o)}

(* Mutant: the answer stays where it was. *)
MovedNot(q, o) == [q EXCEPT !.options = [i \in DOMAIN o |-> q.options[o[i]]]]

Moved(q, o) == [q EXCEPT !.options = [i \in DOMAIN o |-> q.options[o[i]]],
                         !.answer = (CHOOSE i \in DOMAIN o : o[i] = q.answer + 1) - 1]

(* Each question's options shuffled on their own. *)
Shuffles(qs) == {s \in [DOMAIN qs -> UNION {{Moved(qs[n], o) : o \in Orders(qs[n])} : n \in DOMAIN qs}] :
                   \A n \in DOMAIN qs : \E o \in Orders(qs[n]) : s[n] = Moved(qs[n], o)}

(* A claimed request is failed, for a reason the adapter or validation      *)
(* gives; the worker goes on to the next.                                  *)
Failed(r, x) == \/ Raised(r, x) \in ProviderErrors
                \/ Raised(r, x) = "nothing" /\ x.body # "unstorable" /\ ~Covered(r, x.answer)

(* What is no ProviderError leaves run_forever, and the process ends and a *)
(* new one starts: an error the adapter does not translate, or one of the  *)
(* database, which stores no text with a NUL in it.                        *)
Escapes(r, x) == \/ Raised(r, x) \notin ProviderErrors \cup {"nothing"}
                 \/ Raised(r, x) = "nothing" /\ x.body = "unstorable"
Succeeds(r, x) == Raised(r, x) = "nothing" /\ x.body # "unstorable" /\ Covered(r, x.answer)

(* The quizzes that a success of the request may give its story. *)
Quizzes(r) == UNION {UNION {Shuffles(qs) : qs \in Parsed(x.answer.questions)} :
                       x \in {y \in Exchanges(r) : Succeeds(r, y)}}

(* How one request may end. *)
Outcomes ==
  UNION {{[pc |-> "failed", quiz |-> <<>>] : x \in {y \in Exchanges(r) : Failed(r, y)}}
         \cup {[pc |-> "dead", quiz |-> <<>>] : x \in {y \in Exchanges(r) : Escapes(r, y)}}
         \cup {[pc |-> "saving", quiz |-> s] : s \in Quizzes(r)} : r \in Requests}

(* The story of a success is inserted, which gives it its id; other        *)
(* transactions see it at the commit, which a worker that stops never      *)
(* reaches.                                                                *)
Generate(w) ==
  /\ worker[w].pc = "idle"
  /\ \E o \in Outcomes :
       \/ /\ o.pc = "saving" /\ nextId <= MaxStories /\ nextId' = nextId + 1
          /\ o.quiz # <<>> => Cardinality({s \in Ids : quiz[s] # <<>>})
                              + Cardinality({v \in Workers : worker[v].quiz # <<>>}) < MaxQuizzes
          /\ worker' = [worker EXCEPT ![w] = [pc |-> "saving", id |-> nextId, quiz |-> o.quiz]]
       \/ /\ o.pc \in {"failed", "dead"} /\ UNCHANGED nextId
          /\ worker' = [worker EXCEPT ![w] = Idle]
  /\ UNCHANGED <<saved, quiz, attempts, flags, call, page, listing, review>>

(* For the properties, a listing keeps what was stored when it began, what  *)
(* was committed while it was loading, and whether anything was deleted.   *)
Loading == listing.pc \in {"loading", "counting"}

Commit(w) == /\ worker[w].pc = "saving"
             /\ saved' = saved \cup {worker[w].id}
             /\ quiz' = [quiz EXCEPT ![worker[w].id] = worker[w].quiz]
             /\ worker' = [worker EXCEPT ![w] = Idle]
             /\ listing' = IF Loading THEN [listing EXCEPT !.joined = @ \cup {worker[w].id}] ELSE listing
             /\ UNCHANGED <<nextId, attempts, flags, call, page, review>>

Working(w) == Generate(w) \/ Commit(w)

-----------------------------------------------------------------------------
(* The API *)

(* The next call, from the page that waits for it or from another client. *)
Send(kind, s, answers, question, waiting) ==
  \E n \in Calls :
    /\ call[n].pc = "unsent" /\ \A m \in 1 .. n - 1 : call[m].pc # "unsent"
    /\ call' = [call EXCEPT ![n] = [kind |-> kind, story |-> s, answers |-> answers,
                                    question |-> question, pc |-> "sent", waiting |-> waiting]]

(* A call that is over and that no page waits for, kept only as its number *)
(* unless the page's visit goes on.                                        *)
Spent == [Unsent EXCEPT !.pc = "spent"]
Settled(c) == IF c.pc \in {"stored", "refused"} /\ (c.waiting = "no" \/ (c.kind = "delete" /\ c.waiting # "yes"))
                THEN Spent ELSE c

Sending(kind, s, question) == \E n \in Calls : /\ call[n].kind = kind /\ call[n].waiting = "yes"
                                               /\ call[n].story = s /\ call[n].question = question

(* Mutant: a flag may name the question one past the last. *)
FitsLoosely(c) ==
  CASE c.kind = "submit" -> /\ Len(c.answers) = Len(quiz[c.story])
                            /\ \A i \in DOMAIN c.answers : c.answers[i] < Len(quiz[c.story][i].options)
    [] c.kind = "flag" -> c.question <= Len(quiz[c.story])
    [] OTHER -> TRUE

(* What the service checks of a call before it writes. *)
Fits(c) ==
  CASE c.kind = "submit" -> /\ Len(c.answers) = Len(quiz[c.story])
                            /\ \A i \in DOMAIN c.answers : c.answers[i] < Len(quiz[c.story][i].options)
    [] c.kind = "flag" -> c.question < Len(quiz[c.story])
    [] OTHER -> TRUE

Read(n) == /\ call[n].pc = "sent"
           /\ LET c == call[n]
                  ok == c.story \in saved /\ (c.kind # "delete" => quiz[c.story] # <<>>) /\ Fits(c)
              IN call' = [call EXCEPT ![n] = Settled([c EXCEPT !.pc = IF ok THEN "read" ELSE "refused"])]
           /\ UNCHANGED <<stored, worker, page, listing, review>>

(* The foreign key refuses a row for a story that has gone. *)
Insert(n) == LET c == call[n] IN
  /\ IF c.story \notin saved
       THEN UNCHANGED <<attempts, flags>>
       ELSE \/ /\ c.kind = "submit" /\ UNCHANGED flags
               /\ attempts' = attempts \cup {[id |-> n, story |-> c.story, answers |-> c.answers]}
            \/ /\ c.kind = "flag" /\ UNCHANGED attempts
               /\ flags' = flags \cup {[id |-> n, story |-> c.story, question |-> c.question]}
  /\ call' = [call EXCEPT ![n] = Settled([c EXCEPT !.pc = IF c.story \in saved THEN "stored" ELSE "refused"])]
  /\ UNCHANGED <<saved, listing>>

(* Deleting a story takes its attempts and flags along. *)
Delete(n) == LET s == call[n].story IN
  /\ saved' = saved \ {s}
  /\ attempts' = {a \in attempts : a.story # s} /\ flags' = {f \in flags : f.story # s}
  /\ listing' = [listing EXCEPT !.deletes = @ \/ (Loading /\ s \in saved)]
  /\ call' = [call EXCEPT ![n] = Settled([@ EXCEPT !.pc = "stored"])]

Write(n) == /\ call[n].pc = "read"
            /\ IF call[n].kind = "delete" THEN Delete(n) ELSE Insert(n)
            /\ UNCHANGED <<nextId, quiz, worker, page, review>>

(* Other clients, other tabs among them, send answers and questions that   *)
(* need not fit.                                                           *)
ApiClient == /\ \E s \in 1 .. nextId - 1 :
                               \/ Send("delete", s, <<>>, 0, "no")
                               \/ \E a \in ClientAnswers : Send("submit", s, a, 0, "no")
                               \/ \E q \in 0 .. Len(quiz[s]) : Send("flag", s, <<>>, q, "no")
             /\ UNCHANGED <<stored, worker, page, listing, review>>

-----------------------------------------------------------------------------
(* The story page: answering the questions and reporting them *)

Open(s) == /\ page.story = NoStory /\ listing.pc = "off" /\ s \in saved /\ quiz[s] # <<>>   \* else it has no quiz
           /\ page' = [Closed EXCEPT !.story = s, !.selected = [i \in DOMAIN quiz[s] |-> Unset]]
           /\ UNCHANGED <<stored, worker, call, listing, review>>

Leave == /\ page.story # NoStory
         /\ page' = Closed
         /\ call' = [n \in Calls |-> Settled([call[n] EXCEPT !.waiting = "no"])]
         /\ UNCHANGED <<stored, worker, listing, review>>

(* Mutant: choices stay open while the answers are being marked. *)
LockedWhenMarked == page.marked # 0

Locked == page.marked # 0 \/ Sending("submit", page.story, 0)

Choose(i, o) == /\ ~Locked
                /\ page' = [page EXCEPT !.selected[i] = o]
                /\ UNCHANGED <<stored, worker, call, listing, review>>

Submit == /\ page.story # NoStory /\ ~Locked
          /\ \A i \in DOMAIN page.selected : page.selected[i] # Unset
          /\ Send("submit", page.story, page.selected, 0, "yes")
          /\ UNCHANGED <<stored, worker, page, listing, review>>

TryAgain == /\ page.marked # 0
            /\ page' = [page EXCEPT !.marked = 0, !.selected = [i \in DOMAIN @ |-> Unset]]
            /\ UNCHANGED <<stored, worker, call, listing, review>>

(* A question can be reported while its mark is shown. *)
ReportQuestion(q) == /\ page.marked # 0 /\ q \notin page.flagged
                     /\ ~Sending("flag", page.story, q)
                     /\ Send("flag", page.story, <<>>, q, "yes")
                     /\ UNCHANGED <<stored, worker, page, listing, review>>

Reading == \/ \E s \in Ids : Open(s)
           \/ Leave \/ Submit \/ TryAgain
           \/ \E i \in DOMAIN page.selected : \/ \E o \in 0 .. Len(quiz[page.story][i].options) - 1 : Choose(i, o)
                                             \/ ReportQuestion(i - 1)

-----------------------------------------------------------------------------
(* The stories page *)

(* Mutant: a full page is taken for the last one. *)
LastPageFull(items, rows) == Len(rows) <= PageSize

(* fetchAllPages ends on a short page, or once it has as many as there are. *)
LastPage(items, rows) == Len(rows) < PageSize \/ Len(items) >= Cardinality(saved)

StartListing == /\ listing.pc = "off" /\ page.story = NoStory
                /\ listing' = [listing EXCEPT !.pc = "loading", !.began = saved]
                /\ UNCHANGED <<stored, worker, call, page, review>>

(* The page is read by id from an offset, then counted. *)
FetchRows == /\ listing.pc = "loading"
             /\ \E ordered \in InOrder(saved) :
                  listing' = [listing EXCEPT !.pc = "counting",
                    !.rows = SubSeq(ordered, Len(listing.items) + 1,
                                    Smaller(Len(ordered), Len(listing.items) + PageSize))]
             /\ UNCHANGED <<stored, worker, call, page, review>>

FetchCount == /\ listing.pc = "counting"
              /\ LET items == listing.items \o listing.rows
                 IN listing' = [listing EXCEPT !.items = items, !.rows = <<>>,
                                  !.pc = IF LastPage(items, listing.rows) THEN "shown" ELSE "loading"]
              /\ UNCHANGED <<stored, worker, call, page, review>>

(* The page shows an error, and the reader can only leave it. *)
ListingFails == /\ Loading
                /\ listing' = NotListing
                /\ UNCHANGED <<stored, worker, call, page, review>>

ConfirmDelete(s) == /\ listing.pc = "shown" /\ s \in ToSet(listing.items)
                    /\ ~Sending("delete", s, 0)
                    /\ Send("delete", s, <<>>, 0, "yes")
                    /\ UNCHANGED <<stored, worker, page, listing, review>>

LeaveListing == /\ listing.pc \in {"shown", "loading", "counting"}
                /\ listing' = NotListing
                /\ call' = [n \in Calls |-> Settled([call[n] EXCEPT !.waiting = "no"])]
                /\ UNCHANGED <<stored, worker, page, review>>

Listing == \/ StartListing \/ LeaveListing \/ FetchRows \/ FetchCount \/ ListingFails
           \/ \E s \in Ids : ConfirmDelete(s)

-----------------------------------------------------------------------------
(* The answers of the API *)

ListedAfter(items, c) == IF c.pc = "stored" THEN Entries(items, {n \in DOMAIN items : items[n] # c.story})
                                            ELSE {items}

Answered(n) == LET c == call[n] IN
  /\ c.waiting = "yes" /\ c.pc \in {"stored", "refused"}
  /\ call' = [call EXCEPT ![n] = Settled([c EXCEPT !.waiting = "answered"])]
  /\ \/ /\ c.kind = "submit" /\ UNCHANGED listing
        /\ page' = [page EXCEPT !.marked = IF c.pc = "stored" THEN n ELSE 0]
     \/ /\ c.kind = "flag" /\ UNCHANGED listing
        /\ page' = IF c.pc = "stored" THEN [page EXCEPT !.flagged = @ \cup {c.question}] ELSE page
     \/ /\ c.kind = "delete" /\ UNCHANGED page
        /\ \E items \in ListedAfter(listing.items, c) : listing' = [listing EXCEPT !.items = items]
  /\ UNCHANGED <<stored, worker, review>>

(* No answer arrives, whatever the API did or will do. *)
Lost(n) == LET c == call[n] IN
  /\ c.waiting = "yes"
  /\ call' = [call EXCEPT ![n] = Settled([c EXCEPT !.waiting = "lost"])]
  /\ UNCHANGED <<stored, worker, page, listing, review>>

-----------------------------------------------------------------------------
(* review-questions flagged *)

Summarise == /\ review.pc = "off" /\ flags # {}
             /\ review' = [pc |-> "reading", lines |-> {<<f.story, f.question>> : f \in flags},
                           unread |-> {f.story : f \in flags}, gone |-> {}]
             /\ UNCHANGED <<stored, worker, call, page, listing>>

LoadStory(s) == /\ s \in review.unread
                /\ review' = [review EXCEPT !.unread = @ \ {s}, !.gone = IF s \in saved THEN @ ELSE @ \cup {s}]
                /\ UNCHANGED <<stored, worker, call, page, listing>>

(* Attempts are zipped with their story's questions, strictly; a line is   *)
(* its story's question, by index.                                         *)
Breaks == \/ review.gone # {}
          \/ \E l \in review.lines : l[2] >= Len(quiz[l[1]])
          \/ \E a \in attempts : /\ \E l \in review.lines : l[1] = a.story
                                 /\ Len(a.answers) # Len(quiz[a.story])

Finish == /\ review.pc = "reading" /\ review.unread = {}
          /\ review' = IF Breaks THEN [review EXCEPT !.pc = "broken"] ELSE NotReviewing
          /\ UNCHANGED <<stored, worker, call, page, listing>>

Next == \/ \E w \in Workers : Working(w)
        \/ \E n \in Calls : Read(n) \/ Write(n) \/ Answered(n) \/ Lost(n)
        \/ ApiClient \/ Reading \/ Listing
        \/ Summarise \/ (\E s \in Ids : LoadStory(s)) \/ Finish

Spec == Init /\ [][Next]_vars

-----------------------------------------------------------------------------
(* Properties *)

(* A flag of the page's present visit. *)
Visit(f) == call[f.id].kind = "flag" /\ call[f.id].waiting # "no"

Right(q, option) == q.options[option + 1] = q.key

(* A question is marked by the option the model marked, whatever the       *)
(* parser dropped or stripped, the worker shuffled or the reader left      *)
(* unanswered on the way; and what the page shows as the reader's choice   *)
(* is what was marked.                                                     *)
MarkedAsWritten ==
  /\ \A s \in saved : \A i \in DOMAIN quiz[s] : Right(quiz[s][i], quiz[s][i].answer)
  /\ page.marked # 0 => call[page.marked].answers = page.selected

(* What the story page says is so, unless the story has gone since: marked *)
(* answers are a recorded attempt, and a question shown as reported is     *)
(* reported.                                                               *)
PageIsTrue ==
  /\ (page.marked # 0 /\ page.story \in saved) =>
       [id |-> page.marked, story |-> page.story, answers |-> page.selected] \in attempts
  /\ page.story \in saved =>
       \A q \in page.flagged : \E f \in flags : f.story = page.story /\ f.question = q /\ Visit(f)

(* A list that was loaded while nothing was deleted shows every story that *)
(* was there when it began, until it is deleted; and it shows one twice    *)
(* only if a story with a smaller id was committed meanwhile.              *)
ListingSound ==
  listing.pc = "shown" =>
    /\ ~listing.deletes => listing.began \cap saved \subseteq ToSet(listing.items)
    /\ ~IsInjective(listing.items) =>
         \E s \in listing.joined : \E n \in DOMAIN listing.items : s < listing.items[n]

(* review-questions ends with its report, unless a story it lists was      *)
(* deleted while it ran: what the API stored always fits the questions.    *)
ReviewEnds == review.pc = "broken" => \E l \in review.lines : l[1] \notin saved

(* errors.py: "Every provider adapter ... must translate whatever it can   *)
(* fail with - SDK exceptions, HTTP errors, malformed model output - into  *)
(* one of these types", the ProviderErrors.                                *)
EveryFailureTranslated ==
  \A w \in Workers, r \in Requests : worker[w].pc = "idle" =>
    \A x \in Exchanges(r) : Raised(r, x) \in ProviderErrors \cup {"nothing"}
=============================================================================
