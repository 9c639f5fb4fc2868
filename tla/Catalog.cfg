SPECIFICATION Spec
CONSTANTS
  NULL = NULL
  ICP_ACCEPT_THRESHOLD = 60
  Leads = {1, 2, 3}
  Early = {1, 2}
  Lists = {"a", "b"}
  InLists <- MCInLists
  Workers = {w1, w2}
  Answers <- MCAnswers
  Omitted = {1}
  Limit = 2
  MaxOps = 1
  Filters <- MCFilters
  Facts <- MCFacts
  PageSize = 1
INVARIANTS TypeOK AnswersBounded StatusCountsOnce SeenIsExported MissesBounded
PROPERTIES ListDrains
