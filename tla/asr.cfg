\* Up to two sentences of up to two versions, an uplink of three items.
CONSTANTS
  Mics <- MCMics
  MaxSentence = 2
  MaxVersion = 2
  MaxDown = 2
SPECIFICATION AsrFairSpec
INVARIANTS KeepsEverySentence
PROPERTIES SessionEnds
CHECK_DEADLOCK FALSE
