SPECIFICATION Spec
CONSTANTS
  MaxLength = 14
  MaxNumber = 8
  MaxText = 8
  Lengths <- MCLengths
  Numbers <- MCNumbers
  Texts <- MCTexts
CHECK_DEADLOCK FALSE
INVARIANTS
  TypeOK
  SizesHold
  OverlapIsExact
  NothingRedundant
  NothingLost
  MatchesReference
  ParagraphsHold
PROPERTY
  LoopsAdvance
