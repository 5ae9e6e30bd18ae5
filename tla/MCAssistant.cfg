SPECIFICATION AssistantSpec
CONSTANTS
  Records = {1, 2, 3, 4, 5}
  Documents = {1, 2}
  Kind <- MCKind
  Words <- MCWords
  Questions <- MCQuestions
  Bm25 <- MCBm25
  Boost <- MCBoost
  Exclude <- MCExclude
  PoolMax = 3
  TopK = 3
  MinPerTerm = 6
  MaxVersion = 1
  MaxAsked = 2

  
PROPERTIES
  AnswersKnowTheLog
