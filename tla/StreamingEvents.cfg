SPECIFICATION Spec
CONSTANTS
  Token <- MCToken
  Rule = {"pair", "key", "wide"}
  Words <- MCWords
  Bounded = {"key"}
  WordToken = {"k", "s"}
  Path = {"p", "q"}
  Bucket = {"files"}
  OutputBucket = {}
  OutputPath = {}
  FullName <- MCName
  BaseName <- MCName
  Stem <- MCName
  ShortStem <- MCName
  Provider = {"anthropic", "gemini", "openai"}
  Piece <- MCPiece
  Fragment <- MCFragment
  Position = {1, 2}
  Enabled = TRUE
  Detected <- MCDetected
  EagerLimit = 2
  MaxPieces = 3
INVARIANTS
  EventsWellFormed
  NothingIsLost
  NothingSlips
  OneHintPerRule
  SessionKeepsThinking
CHECK_DEADLOCK FALSE
