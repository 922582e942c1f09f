SPECIFICATION Spec
CONSTANTS
  Participants = {"compose", "provider", "dialog"}
  Halts = {h1}
  NoHalt = NoHalt
  Slow = {}
  Hung = {}
  MaxRounds = 1
CHECK_DEADLOCK FALSE
INVARIANT ResumeIsOffered
