SPECIFICATION IndexSpec
CONSTANTS
  Sessions = {s1, s2, s3}
  Writers = {w1, w2}
SYMMETRY Ids
INVARIANT
  IndexMatchesStore
