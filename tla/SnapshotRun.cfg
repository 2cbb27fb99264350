SPECIFICATION FairSpec
CONSTANTS
  settings = settings
  errors = errors
  linux = linux
  backends = backends
  cpu = cpu
  procs = procs
  OnceItems <- MCOnceItems
  LogItems <- MCLogItems
  Providers <- MCProviders
  Outputs <- MCOutputs
  ProviderOf <- MCProviderOf
  Points = 2
  MaxSessions = 2
INVARIANT SamplersReaped
INVARIANT ReportAccounts
PROPERTY RunEnds
CHECK_DEADLOCK FALSE
