\* Source b comes and goes, validation too; the state file may be damaged while down.
CONSTANTS
  a = a
  b = b
  p = p
  q = q
  Sources <- MCSources
  Proxies <- MCProxies
  LegacyLists <- MCLegacyLists
  Configs <- MCConfigs
  DamageKinds <- MCDamageKinds
  MaxProxies = 4
  SourceLimit = 2
SPECIFICATION HistorySpec
INVARIANTS
  TypeOK
  RecoveryServesList
  SettledAgrees
  Lineage
PROPERTIES
  ListFollowsState
  ListKept
  SourceNotForgotten
  ImplementsPublishedList
  RecoveryWaitsForAll
