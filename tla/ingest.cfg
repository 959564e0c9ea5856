\* Two sources of one vehicle, batches in any order and any number of times;
\* two samples with times of their own, live until 4 and in a table of 1..5;
\* up to four rows to read drives and charges from; four samples and a reset.
CONSTANTS
  a1 = a1
  a2 = a2
  Agent <- TwoAgents
  MaxSample = 3
  MaxTime = 2
  Reading = {0, 1, 2}
  MaxBoot = 2
  Fast = 1
  Slow = 2
  Floor = 1
  NoValue = NoValue
  Linked <- MCLinked
  Offer <- MCOffer
  MaxReport = 2
  MaxClock = 5
  LiveClock = 4
  LivenessFloor = 1
  Step = {1, 2}
  RowKind <- MCRowKind
  Gap = {0, 1, 3}
  MaxRow = 4
  LastSample = 4
SPECIFICATION TelemetrySpec
CHECK_DEADLOCK FALSE
INVARIANTS
  CandidateIsNewest
  CurrentStateIsNewest
  TriggeredOnce
  ExpiresToUnknown
  
  TableShowsState
  DrivesFollowLifecycle
  DrivesApartFromCharges
  ShownIsSupported
PROPERTY RetriesChangeNothing
