\* One streaming call with a retry: a transfer cut after the first delta.
SPECIFICATION Spec
CONSTANTS
  Calls <- OneRetry
  Characters <- MCCharacters
  Fragments <- MCFragments
  MaxDeltas = 1
INVARIANTS
  ErrorsSurfaceAfterFirstDelta
