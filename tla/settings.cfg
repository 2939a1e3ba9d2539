CONSTANTS
  Bases <- SomeBases
  PoolValues <- ValuesOfPools
  CredentialValues <- ValuesOfCredentials
  SectionValues <- ValuesOfSections
  HostCores = 2
  MaxEdits = 2
SPECIFICATION Spec
INVARIANTS SpecsAreUsable RoutesExist NothingWrittenIsIdle
CHECK_DEADLOCK FALSE
