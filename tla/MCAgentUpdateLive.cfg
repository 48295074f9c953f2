SPECIFICATION FairSpec
\* Deadlock is not an error: a stopped agent that nobody starts stays stopped.
CONSTANTS
  old = old
  new = new
  Releases = {old}
  VersionOf <- MCVersionOf
  MaxAdmin = 2
  MaxJobs = 1
  MaxCrashes = 1
INVARIANTS ActiveHasPackage
PROPERTIES ServiceComesBack
CHECK_DEADLOCK FALSE
