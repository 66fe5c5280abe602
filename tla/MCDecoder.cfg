SPECIFICATION EnrichSpec
CONSTANTS
  agent = agent
  banned = banned
  stranger = stranger
  Datagrams <- MCDatagrams
  Messages <- MCMessages
  LengthBytes = 2
  IntBytes = 2
  RequestBytes = 1
  CounterBytes = 1
  Counter64Bytes = 2
  Sources <- MCSources
  MaxPacketSize = 200
  MaxVarbinds = 2
  MaxOIDLength = 21
  MaxStringLength = 100
  AllowedCommunities <- MCCommunities
  BlockedSources <- MCBlocked
  AllowedSources <- MCAllowed
INVARIANTS
  DecodeSound
  DecodedAsSent
  NamesAreOwn
PROPERTY
  TrapEnds
CHECK_DEADLOCK FALSE
