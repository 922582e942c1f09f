SPECIFICATION FairSpec
CONSTANTS
  Participants = {"compose", "provider", "dialog"}
  Halts = {h1, h2}
  NoHalt = NoHalt
  Slow = {"compose", "provider", "dialog"}
  Hung = {}
  MaxRounds = 2
CHECK_DEADLOCK FALSE
INVARIANTS
  PendingIsOutstanding
  AbortedIsFenced
  PausedIsQuiet
  OneRoundRuns
PROPERTIES
  StartsCurrent
  StopsEnd
  CallsFinish
