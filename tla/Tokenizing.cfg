CONSTANTS
  Chars <- MCChars
  Texts <- MCTexts
SPECIFICATION TokSpec
INVARIANTS
  TokTypeOK
  TokensAreThoseOfText
PROPERTIES
  TokenizerEnds
