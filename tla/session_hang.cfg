SPECIFICATION FairSpec
CONSTANTS
  MaxCalls = 1
  DialTries = 2
PROPERTIES
  HandshakeEnds
