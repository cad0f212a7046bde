CONSTANTS
  None = 0
  Keys = {1, 2, 3, 4, 5}
  BucketLen = 3
  LinkedLen = 1
  MaxLinks = 2
  Types = {"SEQUENTIAL", "OPTIMISTIC", "CACHE"}
  KeysOf <- MCKeysOf
SPECIFICATION Spec
INVARIANTS EntriesExact LruIsRecency PeekFindsUntouched
CHECK_DEADLOCK FALSE
