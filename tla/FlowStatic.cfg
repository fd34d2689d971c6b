\* Four nodes; the last has an in port and no out port.
SPECIFICATION FairSpec
CONSTANTS
  NodeCount = 4
  PortsIn <- OneInOrTwo
  PortsOut <- LastIsSink
  PortError = 9
  ConnSpecs <- AllSpecs
  Sends <- PortsUsed
  ExportedOut <- PortOfChain
  ExportedIn <- PortOfSecondLast
  Untyped <- PortWithoutType
  MaxPackets = 3
INVARIANTS DeliveredInOrder RoutedToAll LinksMatchNodes GoneIsClean
PROPERTY QueuedIsSettled
CHECK_DEADLOCK FALSE
