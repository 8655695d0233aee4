\* The same loops under fairness, on a store that starts afresh and is never in recovery.
CONSTANTS
  a1 = a1
  a2 = a2
  b = b
  p = p
  x = x
  y = y
  Sources <- MCSources
  Proxies <- MCProxies
  Collectors <- MCCollectors
  Keys <- MCKeys
  Configs <- MCConfigs
  LegacyLists = {{}}
  DamageKinds = {}
  MaxProxies = 3
  SourceLimit = 1
SPECIFICATION FairServiceSpec
PROPERTIES
  StopsAfterSignal
  RoundEnds
