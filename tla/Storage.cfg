SPECIFICATION StorageSpec
CONSTANTS
  num_children = 2
  Pid = {1, 2, 3}
  MaxForks = 5
  ForkFails = TRUE
  Proc = {p1, p2}
  Bits = {1, 2}
  NumExamples = 2
  NumPasses = 2
  KindValues <- SavedValues
  Seeds = {0, 1}
  MaxRuns = 3
  MaxCrashes = 1
  InitialSize = 2
  Inputs <- StreamInputs
  MaxRequest = 3
  Passes = 2
  FbObjects <- SomeObjects
  Addresses = {1, 2}
  MaxObjects = 2
  OptionType <- TypeOf
  GroupOf <- AddedIn
  Overridable = {"o"}
  Tokens <- SomeTokens
  MaxTokens = 3
  LabelTypes = {"CB", "CCB", "CBO"}
  MaxLines = 3
  MaxDepth = 4
  Quirks = {}
  LabelTexts <- SomeLabelTexts
  LineRests <- SomeRests
  CsvInputs <- SomeCsvInputs
  Redefine <- SomeRedefine
  AffixNs = {"a"}
  SpellingNs = {"b"}
  IgnoredNs = {"b"}
  MaxReadLines = 3
  FgValues = {1, 2}
  FgHashes = {1, 2}
  MaxFeatures = 4
  EraseLimit = 2
  MaxFgSteps = 5
  OptionSets <- SomeLines
  TestedSets <- RunInTests
  K = 3
  Stride = 4
  AllPasses = 5
  Losses = {1, 2, 4, 6}
  FltMax = 5
  EarlyStop = 2
  CheckEvery = 1
  SavePerPass = TRUE
  Faults = {"io", "kill"}
INVARIANTS DaemonSafe CacheSafe ModelFaithful InputRead OptionsRight NeverTorn BestIsBest BestModelKept StopsInTime StackSound
PROPERTIES DaemonServes ModelSurvives
CHECK_DEADLOCK FALSE
