SPECIFICATION Spec
CONSTANTS
  W4 = 2
  W6 = 4
  MappedTop <- Mapped
  Machines <- SomeMachines
  Configurations <- SomeConfigurations
  OutsideXff <- SomeXff
  OutsideForwarded <- SomeForwarded
  MaxRelays = 2
  NoAddr = NoAddr
  Unknown = Unknown
  BadSyntax = BadSyntax
INVARIANTS
  TypeOK
  KeyIsClientOrPeer
  HeadersSelectOutsiders
  ProxiedClientIsFound
  TrustedAsConfigured
CHECK_DEADLOCK FALSE
