SPECIFICATION Spec
CONSTANTS
  a1 = a1
  p1 = p1
  p2 = p2
  Agents = {a1}
  Polls = {p1}
  PollAgent <- MCPollAgent
  MaxJobs = 1
  None = None
PROPERTY
  CancelledStaysCancelled
