SPECIFICATION FairSpec
CONSTANTS
  MaxQuests = 2
INVARIANTS TypeOK WrongPasswordUnserved CiphersInStep
PROPERTIES HandshakeEnds
CHECK_DEADLOCK FALSE
