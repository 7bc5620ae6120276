SPECIFICATION Spec
CONSTANTS
  Digits <- MCDigits
  Others <- MCOthers
  RankOf <- MCRank
  MaxInt = 91
  SuffixLength = 1
  Parts = {"modules"}
  Aliases = {""}
  MaxTokens = 1
  MaxOperators = 1
INVARIANT ReExportsComplete
CHECK_DEADLOCK FALSE
