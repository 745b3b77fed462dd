SPECIFICATION FairSpec
CONSTANTS
  Pipelines = {p1, p2}
  TrackCap = 1
  OpusCap = 1
  MaxFrames = 3
  None = None
INVARIANTS StartedOnce NoMissedTrack InOrderOnce
PROPERTIES Refinement EndIsPassedOn TrackReleased
CHECK_DEADLOCK FALSE
