\* Violated: each result is within bounds, the sum of the sources is not.
CONSTANTS
  a = a
  b = b
  p = p
  q = q
  Sources <- MCSources
  Proxies <- MCProxies
  Configs <- FixedConfig
  LegacyLists <- MCLegacyLists
  DamageKinds = {}
  MaxProxies = 3
  SourceLimit = 2
SPECIFICATION HistorySpec
INVARIANTS
  PersistedLoadable
