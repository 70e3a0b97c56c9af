\* CPUs have numbers up to 4, of which a cpu_set_t holds those below 4.
CONSTANTS
  Main = Main
  Worker = Worker
  Thread = {Main, Worker}
  NoCache = NoCache
  Machine <- MCMachine
  Pinned = {0, 1, 2}
  CpuSetSize = 4
  MaxGuards = 2
  Container <- MCContainer
  Program <- MCProgram
SPECIFICATION Spec
\* When the statics are destroyed the process is gone.
CHECK_DEADLOCK FALSE
INVARIANTS
  TypeOK
  ScopesRestore
  CachesHaveArenas
  
PROPERTIES
  ConfiguredWherePinned
