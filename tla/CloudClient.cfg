\* One call: every retry setting up to two retries, two deltas per answer.
SPECIFICATION FairSpec
CONSTANTS
  Calls <- SomeCalls
  Characters <- MCCharacters
  Fragments <- MCFragments
  MaxDeltas = 2
INVARIANTS
  TypeOK
  DeadlineKept
  OutcomeExplained
  SuccessIsComplete
PROPERTIES
  RetryMayHelp
  CallReturns
  ImplementsBackendCall
