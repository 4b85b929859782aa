SPECIFICATION Spec
CONSTANTS
  Key = {k1, k2, k3, k4}
  Alone = k4
  Value = {v, w}
  MaxSize = 3
  murmurhash_hash <- TwoBuckets
  NULL = NULL
INVARIANTS
  WellLinked
  Conserved
  HashAgrees
PROPERTY
  ImplementsCache
SYMMETRY Symmetry
