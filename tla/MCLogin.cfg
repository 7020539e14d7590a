SPECIFICATION FairSpec
CONSTANTS
  p1 = p1
  p2 = p2
  Procs = {p1, p2}
  Hosts = {"here", "there"}
  Tails <- MCTails
  MaxGen = 2
  MaxRounds = 1
  Impostor = TRUE
  MaxStarts = 4
CHECK_DEADLOCK FALSE
INVARIANTS
  StableIdentity
  
  
  OnlyAccepted
PROPERTIES
  LoginEnds
