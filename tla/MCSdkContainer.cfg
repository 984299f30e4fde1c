CONSTANTS
  None = None
  Starts = {p1, p2}
  Stops = {q1}
  Ports = {1, 2}
  MaxEvents = 1
  MaxFaults = 1
  MaxRetries = 1
SPECIFICATION Spec
INVARIANTS ConfiguredOnce OwnSetupComplete PortFileIsPublished
CHECK_DEADLOCK FALSE
