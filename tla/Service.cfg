\* Rounds of two results and of one on one store, failing writes, crashes, signals.
CONSTANTS
  a1 = a1
  a2 = a2
  b = b
  p = p
  x = x
  y = y
  Sources <- MCSources
  Proxies <- MCProxies
  Collectors <- MCCollectors
  Keys <- MCKeys
  Configs <- MCConfigs
  LegacyLists <- MCLegacyLists
  DamageKinds = {"absent", "garbled"}
  MaxProxies = 3
  SourceLimit = 1
SPECIFICATION ServiceSpec
INVARIANTS
  ServiceTypeOK
  CutRoundNotStored
  OrderlyStop
PROPERTIES
  RoundStored
