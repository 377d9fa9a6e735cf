CONSTANTS
  NumBeats = 2
  SumWidth = 9
  Beat <- MCBeat
  Exp <- MCExp
SPECIFICATION MCSpec
INVARIANTS
  TypeOK
  SumKeepsUp
  TokensAgree
  StatisticsOfOwnPacket
  SlackBeforeLockUp
PROPERTIES
  DivBankStable
  ImplementsPacketBuffer
  OldestLeavesOrLocksUp
