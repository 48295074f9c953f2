SPECIFICATION Spec
CONSTANTS
  a1 = a1
  p1 = p1
  p2 = p2
  Agents = {a1}
  Polls = {p1, p2}
  PollAgent <- MCPollAgent
  MaxJobs = 2
  None = None
SYMMETRY PollSymmetry
INVARIANTS
  RecordedOutcomeIsReal
PROPERTIES
  ResultNeverOverwritesCancel
  ImplementsCommandQueue
