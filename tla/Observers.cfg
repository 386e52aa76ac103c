SPECIFICATION FairSpec
CONSTANTS
  MaxUnits = 2
  MaxLines = 2
  MaxCaptures = 2
  MaxFrames = 2
  Watchings = {{"video"}, {"log"}}
INVARIANTS
  OneCaptureFilms
  CountIsVideo
  NoDirectoryIsLeft
PROPERTIES
  StopIsAnswered
  OnlyReplacedRepeats
CHECK_DEADLOCK FALSE
