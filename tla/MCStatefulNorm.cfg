CONSTANTS
  NumBeats = 2
  Beat <- MCBeat
SPECIFICATION FairSpec
INVARIANTS
  BanksAgree
  SumsOfOwnPacket
PROPERTIES
  ReadBankStable
  ImplementsPacketBuffer
  OldestPacketLeaves
