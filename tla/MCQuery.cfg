CONSTANTS
  None = None
  Untouched = Untouched
  IdBlockStreamInfo = 1
  IdAccounts = 2
  IdTokens = 3
  IdNfts = 4
  IdTokenRelations = 5
  IdFiles = 8
  IdTopics = 9
  IdSchedulesById = 10
  IdContractBytecode = 11
  Entity = {1, 2, 3}
  Keys <- MCKeys
  QueueIds <- MCQueueIds
  Val <- MCVal
  Chain <- MCChain
SPECIFICATION LiveSpec
INVARIANTS StateIsLedger AnswersMatchLedger QuietWalkIsExact
PROPERTIES DetailsAnswered
