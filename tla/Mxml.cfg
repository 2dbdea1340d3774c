SPECIFICATION Spec
CONSTANTS
  MaxNodes = 7
  QueueMax = 2
  MaxTokens = 3
  MaxConfig = 6
  MaxEdits = 2
  MaxEdited = 2
  Order <- MCOrder
  Digits <- MCDigits
  Special <- MCSpecial
  TypeCallback <- MCTypeCallback
  Tokens <- MCTokens
  ConfigTokens <- MCConfigTokens
  OptionSets <- MCOptionSets
  TopName <- MCTopName
  EditValues <- MCEditValues
INVARIANTS TreeSound ReadsBack
CHECK_DEADLOCK FALSE
