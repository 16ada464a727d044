SPECIFICATION Spec
CONSTANTS
  Length = 5
  FrameSize = 2
  Outcomes <- MCOutcomes
  Threads = {1, 2, 3}
  Mirrors <- MCMirrors
  MaxCalls = 5
INVARIANTS ReadsBackFinal StatisticsSequential
