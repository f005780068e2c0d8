SPECIFICATION FairSpec
CONSTANTS
  Lines = 3
INVARIANTS
  TypeOK
  GotInOrder
  DoneIsTrue
  EndingMeansAgentEnded
  ClientIsTold
PROPERTIES
  RunsEnd
  ConnectionsEnd
CHECK_DEADLOCK FALSE
