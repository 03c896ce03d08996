CONSTANTS
  NULL = NULL
  INVALID_SECTOR = INVALID_SECTOR
  Client = {main}
  Flushd = {}
  CACHE_CNT = 2
  Sector = {s1, s2, s3}
  Part = {p1, p2}
  Value = {v0, v1}
  Zero = v0
SYMMETRY MCSymmetry
SPECIFICATION Spec
PROPERTIES ImplementsStore FlushSaves
