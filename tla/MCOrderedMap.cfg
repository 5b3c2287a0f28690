SPECIFICATION FairSpec
CONSTANTS
  zero = zero
  negZero = negZero
  a = a
  Keys <- MCKeys
  Values = {v1, v2}
  Iterators = {i1}
  NoKey = NoKey
  NoValue = NoValue
  Canon <- MCCanon
  Buckets <- MCBuckets
  Hash <- MCHash
  MaxEntries = 4
INVARIANTS
  LinksAgree
PROPERTIES
  ImplementsMap
  CallsReturn
