\* A connector with two session slots, changed while it runs.
CONSTANTS
  s1 = s1
  s2 = s2
  e1 = e1
  Session <- TwoSessions
  Editor <- OneEditor
  Key <- OneKey
  MaxEdit = 2
  MaxDelivery = 2
  MaxFault = 1
  None = None
SPECIFICATION ConnectorsSpec
INVARIANTS
  SingleSession
  StoredOnce
  NewestIsLive
PROPERTIES
  
  RetiredFallsSilent
  ConfigurationRuns
  StatusSettles
