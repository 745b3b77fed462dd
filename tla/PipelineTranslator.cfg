SPECIFICATION FairSpec
CONSTANTS
  MaxPhrases = 3
  MaxChunks = 2
  ResultCap = 1
  TranscriptCap = 1
  AudioCap = 1
INVARIANTS OnePlace NothingLeftBehind
PROPERTIES Refinement StreamEnds
CHECK_DEADLOCK FALSE
