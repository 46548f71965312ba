CONSTANTS
  MaxId = 6
SPECIFICATION Spec
INVARIANT TypeOK
INVARIANT StacksMatch
INVARIANT CleansNewest
INVARIANT KilledUpwards
INVARIANT RangesNest
INVARIANT ExitOnce
PROPERTY NestedCalls
CHECK_DEADLOCK FALSE
