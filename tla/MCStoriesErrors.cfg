SPECIFICATION Spec
CONSTANTS
  Requests <- MCRequests
  Lists <- MCLists
  ClientAnswers <- MCClientAnswers
  MinQuestions = 3
  MaxQuestions = 5
  Workers = {w1, w2}
  MaxStories = 3
  PageSize = 2
  MaxQuizzes = 1
  MaxSends = 2
INVARIANTS
  EveryFailureTranslated
CHECK_DEADLOCK FALSE
