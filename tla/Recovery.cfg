\* Faults until they cease; sources that complete again and again, often with nothing.
CONSTANTS
  a = a
  b = b
  p = p
  Sources <- MCSources
  Proxies <- MCProxies
  LegacyLists <- MCLegacyLists
  Configs <- MCConfigs
  DamageKinds <- MCDamageKinds
  MaxProxies = 2
  SourceLimit = 1
SPECIFICATION RecoverySpec
PROPERTIES
  RecoveryEnds
  DeliveryEndsRecovery
