SPECIFICATION FairSpec
CONSTANTS
  MaxCommands = 3
  Handshake <- AuthAndSelect
INVARIANTS
  TypeOK
  RepliesAreTheirOwn
  OnlyRejectedCommandsRunLate
  CommandsFollowTheHandshake
PROPERTIES
  EveryCommandSettles
CHECK_DEADLOCK FALSE
