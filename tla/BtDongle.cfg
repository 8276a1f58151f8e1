SPECIFICATION BtSpec
CONSTANTS
  EVMSGQ_DEPTH = 3
  HCIEVQ_DEPTH = 4
  BUFFQ_DEPTH = 2
  MaxParts = 2
  Packets = 3
INVARIANT DeliveredIntact
INVARIANT PoolSound
INVARIANT ListensUnlessLost
PROPERTY SentIntact
PROPERTY SendAnswered
