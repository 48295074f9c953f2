SPECIFICATION Spec
\* Deadlock is not an error: a stopped agent that nobody starts stays stopped.
CONSTANTS
  old = old
  new = new
  Releases = {old}
  VersionOf <- MCVersionOf
  MaxAdmin = 0
  MaxJobs = 1
  MaxCrashes = 0
INVARIANTS FailedUpdateRollsBack
CHECK_DEADLOCK FALSE
