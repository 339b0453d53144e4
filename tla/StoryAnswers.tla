---------------------------- MODULE StoryAnswers ----------------------------
(***************************************************************************)
(* From a request's prompt to a story: what the prompt asks of the model,  *)
(* how the adapter turns one exchange with the provider into a result or   *)
(* an error, what the parser keeps of the answer and what validation says  *)
(* of it.                                                                  *)
(*                                                                         *)
(* A text is what the checks see of it.  An option is a number: k is the   *)
(* option k as written, -k the same with blanks around it, 0 a blank one.  *)
(* Indexes into a list of options count from 0, as in the code.            *)
(***************************************************************************)
EXTENDS Integers, FiniteSets, SequencesExt

CONSTANTS Requests,     \* requests: prompt version, target length, words asked for
          Lists,        \* lists of questions a model may write
          MinQuestions, \* V7_MIN_QUESTIONS
          MaxQuestions  \* V7_MAX_QUESTIONS

(* A question as the model writes it: text is 0 when it is blank.          *)
Question == [text : Nat, options : Seq(Int), answer : Int, evidence : STRING]

ASSUME QuestionsAssumption == 0 < MinQuestions /\ MinQuestions <= MaxQuestions
ASSUME ListsAssumption == Lists \subseteq Seq(Question)

-----------------------------------------------------------------------------
(* The prompt *)

(* Python's round(n / d): half goes to the even neighbour. *)
Rounded(n, d) == LET q == n \div d  r == n % d
                 IN IF 2 * r > d \/ (2 * r = d /\ q % 2 = 1) THEN q + 1 ELSE q

Larger(a, b) == IF a > b THEN a ELSE b
Smaller(a, b) == IF a < b THEN a ELSE b

LeastLength(target) == -((-9 * target) \div 10)
MostLength(target) == (12 * target) \div 10
Paragraphs(target) == Larger(1, Rounded(target, 100))
QuestionCount(target) == Smaller(MaxQuestions, Larger(MinQuestions, Paragraphs(target)))

KnownVersions == 1 .. 10
AsksLength(r) == r.version >= 3
AsksTranslation(r) == r.version >= 6
AsksQuestions(r) == r.version >= 7
AsksEvidence(r) == r.version >= 9

-----------------------------------------------------------------------------
(* What comes back: an exchange, and the model's answer inside it *)

Answer(form, length, translation, questions, used) ==
  [form |-> form, length |-> length, translation |-> translation,
   questions |-> questions, used |-> used]

(* A story of two paragraphs; translation is its entries, 0 if it is left out. *)
BodyParagraphs == 2

(* The prompt asks for four options; two are enough for the parser. *)
Proper(r, q) == /\ q.text # 0 /\ Len(q.options) >= 2 /\ \A i \in DOMAIN q.options : q.options[i] > 0
                /\ IsInjective(q.options) /\ q.answer \in 0 .. Len(q.options) - 1
                /\ q.evidence = IF AsksEvidence(r) THEN "quoted" ELSE "left_out"

(* The answer follows the prompt to the letter. *)
Follows(r, a) ==
  /\ a.form = "story" /\ a.used = r.words
  /\ AsksLength(r) => a.length \in LeastLength(r.target) .. MostLength(r.target)
  /\ a.translation = IF AsksTranslation(r) THEN BodyParagraphs ELSE 0
  /\ Len(a.questions) = IF AsksQuestions(r) THEN QuestionCount(r.target) ELSE 0
  /\ \A i \in DOMAIN a.questions : Proper(r, a.questions[i])

Answers(r) ==
  {Answer(f, r.target, 0, <<>>, r.words) : f \in {"not_JSON", "not_an_object", "incomplete", "not_Chinese"}}
  \cup {Answer("story", n, t, <<>>, u) : n \in {LeastLength(r.target), MostLength(r.target)},
                                        t \in {0, BodyParagraphs}, u \in r.words - 2 .. r.words}
  \cup {Answer("story", r.target, BodyParagraphs, s, r.words) : s \in Lists}

NoAnswer == Answer("none", 0, 0, <<>>, 0)
Statuses == {200, 401, 403, 429, 500}
Exchange(ends, status, body, answer) ==
  [ends |-> ends, status |-> status, body |-> body, answer |-> answer]
Exchanges(r) ==
  {Exchange(e, 0, "none", NoAnswer) : e \in {"silent", "overdue", "broken"}}
  \cup {Exchange("answered", s, b, NoAnswer) :
          s \in Statuses, b \in {"not_JSON", "list", "error_text", "error_object"}}
  \cup {Exchange("answered", 200, "no_usage", a) : a \in {NoAnswer}}
  \cup {Exchange("answered", 200, "complete", a) : a \in Answers(r)}
  \cup {Exchange("answered", 200, "unstorable", Answer("story", r.target, 0, <<>>, r.words))}

-----------------------------------------------------------------------------
(* The adapter, the parser and validation *)

(* _error_message looks for error.message in a body that is JSON. *)
MessageFound(x) == x.body \in {"not_JSON", "error_object"}

(* Coverage is enforced at four fifths; the rest is only recorded. *)
Covered(r, a) == 5 * a.used >= 4 * r.words

Stripped(o) == IF o < 0 THEN -o ELSE o

(* An answer that is not an integer is modelled by -1. *)
Keeps(q) == LET options == [i \in DOMAIN q.options |-> Stripped(q.options[i])]
            IN /\ q.text # 0 /\ Len(options) >= 2
               /\ \A i \in DOMAIN options : options[i] # 0
               /\ IsInjective(options)
               /\ q.answer \in 0 .. Len(options) - 1
               /\ q.evidence \in {"left_out", "quoted"}

(* The members of a set of numbers in increasing order, and the entries of  *)
(* a list at some positions, in their order: sets with one member.         *)
InOrder(S) == {f \in [1 .. Cardinality(S) -> S] : \A i, j \in DOMAIN f : i < j => f[i] < f[j]}
Entries(list, S) == {[n \in DOMAIN f |-> list[f[n]]] : f \in InOrder(S)}

(* The questions that survive; key, for the properties, is the option the  *)
(* model marked.                                                           *)
Cleaned(q) == LET options == [i \in DOMAIN q.options |-> Stripped(q.options[i])]
              IN [options |-> options, answer |-> q.answer, key |-> options[q.answer + 1]]

Parsed(questions) ==
  {[n \in DOMAIN kept |-> Cleaned(kept[n])] :
     kept \in Entries(questions, {i \in DOMAIN questions : Keeps(questions[i])})}

(* What the code checks, in its order, and what it raises when it holds. *)
Checks(r, x) ==
  << <<r.version \notin KnownVersions, "ValueError">>,
     <<x.ends \in {"silent", "overdue"}, "ProviderTimeoutError">>,
     <<x.ends = "broken", "ProviderAPIError">>,
     <<x.status >= 400 /\ ~MessageFound(x), "AttributeError">>,
     <<x.status \in {401, 403}, "ProviderAuthenticationError">>,
     <<x.status = 429, "ProviderRateLimitError">>,
     <<x.status >= 400, "ProviderAPIError">>,
     <<x.body \notin {"complete", "unstorable"} \/ x.answer.form # "story",
       "ProviderInvalidResponseError">> >>

Raised(r, x) == LET n == SelectInSeq(Checks(r, x), LAMBDA c : c[1])
                IN IF n = 0 THEN "nothing" ELSE Checks(r, x)[n][2]

ProviderErrors == {"ProviderTimeoutError", "ProviderRateLimitError", "ProviderAuthenticationError",
                   "ProviderAPIError", "ProviderInvalidResponseError"}

(* What validation records of a story, apart from its coverage. *)
Report(r, a) == [long |-> 10 * a.length >= 8 * r.target,
                 aligned |-> a.translation \in {0, BodyParagraphs}]
=============================================================================
