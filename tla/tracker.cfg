CONSTANTS
  n1 = n1
  n2 = n2
  n3 = n3
  n4 = n4
  Nodes <- MCNodes
  OTAU_MAX_ACTIVE = 3
SPECIFICATION TrackerLiveSpec
INVARIANTS TrackerTypeOK TrackerBounded SlotsReclaimable
PROPERTIES QuietSlotsFreed
