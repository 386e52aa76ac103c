SPECIFICATION FairSpec
CONSTANTS
  MaxSessions = 4
  MaxUtterances = 3
INVARIANTS
  RecordingIsShown
  NeverBoth
PROPERTIES
  ListeningEnds
  SpeakingEnds
CHECK_DEADLOCK FALSE
