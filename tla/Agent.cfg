CONSTANTS
  a1 = a1
  a2 = a2
  s0 = s0
  s1 = s1
  Asks = {a1, a2}
  Tokens <- MCTokens
  SessionIds = {s0, s1}
  OpenBefore <- MCOpenBefore
  Replies <- MCReplies
  Turns <- MCTurns
  Finals <- MCFinals
  Tree <- MCTree
  RetrievalBudget <- MCRetrievalBudget
  Vocabulary <- MCVocabulary
  SopIds <- MCSopIds
  Rows <- MCRows
  ToolBudget = 2
  ToolFailureLimit = 2
  SummaryAfter = 2
  MaxFeedback = 1
SPECIFICATION FairSpec
INVARIANTS ExchangeKeepsItsAddress ShippedClaimsResolve AbortsOnConsecutiveFailures
PROPERTIES EveryQuestionEnds
CHECK_DEADLOCK FALSE
