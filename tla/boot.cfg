\* Command lines with up to two files; two or three child processes, of which
\* one may crash; two KeyboardInterrupts.
SPECIFICATION FairSpec
CONSTANTS
  None = None
  SearchDirs <- MCSearchDirs
  Disk <- MCDisk
  Environ <- MCEnviron
  Plugins <- MCPlugins
  Invocations <- MCInvocations
  Cpus = 2
  Number <- MCNumber
  GroupsOf <- MCGroupsOf
  MakesEntity <- MCMakesEntity
  MaxCrashes = 1
  MaxInterrupts = 2
INVARIANT OneEach
PROPERTIES LookupIsLast  LeaveEnds
CHECK_DEADLOCK FALSE
