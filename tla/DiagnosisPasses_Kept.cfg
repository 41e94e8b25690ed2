SPECIFICATION Spec
CONSTANTS
  N = 2
  Cases <- MCCases
  Modes = {"none", "local", "openrouter"}
  Answers <- MCAnswers
  Store <- MCStore
  Checkpoints = 1
  Cap = 7
  MaxAlternatives = 1
  MaxCalls = 3
  None = None
  Invented = Invented
INVARIANT RankingKept
