CONSTANTS
  Keys = {k1, k2}
  Values = {v1, v2}
  Missing = Missing
  Tombstone = Tombstone
  BufferLimit = 2
  CacheCap = 1
  RemoveMayFail = FALSE
  MaxSeq = 3
SPECIFICATION Spec
SYMMETRY Symmetric
INVARIANTS TypeOK StoreCoherent
PROPERTIES RemovalIsInvisible CompactionReclaims ImplementsMap
