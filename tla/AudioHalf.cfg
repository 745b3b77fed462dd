SPECIFICATION FairSpec
CONSTANTS
  MaxFrames = 2
  MaxTexts = 2
  OpusCap = 1
  PcmCap = 1
  SttCap = 1
  OutCap = 1
  FrameSize = 2
  Chunk = {3}
INVARIANTS InOrder NewestKept LastFrameSent StopIsLast
 
CHECK_DEADLOCK FALSE
