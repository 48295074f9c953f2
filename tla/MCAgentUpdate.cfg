SPECIFICATION MCSpec
\* Deadlock is not an error: a stopped agent that nobody starts stays stopped.
CONSTANTS
  old = old
  new = new
  Releases = {old, new}
  VersionOf <- MCVersionOf
  MaxAdmin = 1
  MaxJobs = 1
  MaxCrashes = 1
INVARIANTS AutoUpdateIsNewer SuccessMeansInstalled
PROPERTIES FilesOnlyWhileStopped
CHECK_DEADLOCK FALSE
