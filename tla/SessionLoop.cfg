SPECIFICATION HarnessSpec
CONSTANTS
  Token <- MCToken
  Rule = {"pair", "key", "wide"}
  Words <- MCWords
  Bounded = {"key"}
  WordToken = {"k", "s"}
  Path = {"p", "q", "g", "r", "out"}
  Bucket = {"bands", "keys", "output", "discovered"}
  OutputBucket = {"output"}
  OutputPath = {"out"}
  FullName <- MCFull
  BaseName <- MCBase
  Stem <- MCStem
  ShortStem <- MCShort
  TargetKeys <- MCKeys
  WorkloadPrior <- MCPrior
  Discovered = "discovered"
  Existing = {"p", "q", "g", "out"}
  Reply <- MCReply
  Result <- MCResult
  EagerFiles = 2
  MaxTurns = 3
  HarnessTurns = 2
INVARIANTS
  HeardOnce
  ActivationAudit
  FiredIsHanded
  MentionsAreStaged
  OssCountsFilesOnce
  ReplayFiresTheSame
  RescoreFiresTheSame
PROPERTIES
  ActivationsStable
CHECK_DEADLOCK FALSE
