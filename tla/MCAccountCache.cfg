SPECIFICATION CacheSpec
CONSTANTS
  Value = {v1, v2, v3, v4}
  None = None
INVARIANTS OnlyOneFresh
PROPERTY ImplementsLatestValue
