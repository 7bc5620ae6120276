SPECIFICATION Spec
CONSTANTS
  Digits <- MCDigits
  Others <- MCOthers
  RankOf <- MCRank
  MaxInt = 91
  SuffixLength = 4
  Parts = {"versions", "reader", "solver", "imports", "modules", "parser", "programs"}
  Aliases = {"", "m"}
  MaxTokens = 4
  MaxOperators = 3
INVARIANTS
  GraphSolved
  HighestInRange
  ImportsResolved
  SyntaxRight
  OutputAsWritten
CHECK_DEADLOCK FALSE
