SPECIFICATION FairSpec
CONSTANTS
  Null = Null
  Operator = operator
  first = first
  second = second
  main = main
  tag = tag
  github = github
  Pushes <- TwoPushes
  Refs <- BranchAndTag
  RefsOf <- MainAndTag
  Remotes <- OneRemote
  Configs <- AnyConfig
  MaxFaults = 1
INVARIANTS NoSilentLag
PROPERTIES RemotesMoveForward HookFindsServer SentIsHandled
CHECK_DEADLOCK FALSE
