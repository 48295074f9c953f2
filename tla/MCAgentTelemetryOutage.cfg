SPECIFICATION Spec
CONSTANTS
  Domains = {d1}
  MaxRequests = 2
  MaxPerCycle = 1
  MaxEvents = 2
  MaxSeen = 2
  MaxStarts = 2
  None = None
INVARIANT
  EventsSurviveOutage
