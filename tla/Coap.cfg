\* The application and the socket keep to the rules.
SPECIFICATION FairSpec
CONSTANTS
  Kinds = {"con", "non", "obs", "ping"}
  Peers = {p1}
  MaxRetransmit = 2
  Careless = {}
  MaxRequests = 2
  MaxId = 3
  MaxQueue = 2
INVARIANTS RepliesSurviveCallbacks NoPacketStalls ObserversDiffer
PROPERTIES NoCallAfterEnd EveryRequestIsSettled QueueDrains
CHECK_DEADLOCK FALSE
