SPECIFICATION Spec
CONSTANTS
  Domain = {"a.ex", "b.ex", "other", "com"}
  NoDomain = "none"
  org <- MCorg
  Configs <- MCConfigs
  YaraAnswers <- MCYaraAnswers
  Answers <- MCAnswers
  Rule = {"rule"}
  Invalid = Invalid
  Failed = Failed
  Samples <- MCSamples
  Command = {"process", "train", "daemon test", "daemon monitor"}
  Inputs <- MCInputs
  Limits = {0, 1, 2}
  holdoutPercent = 20
  MaxArrivals = 3
CHECK_DEADLOCK FALSE
INVARIANTS
  FailedAnalysisIsNotClean
