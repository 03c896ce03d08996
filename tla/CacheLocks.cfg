CONSTANTS
  NULL = NULL
  INVALID_SECTOR = INVALID_SECTOR
  Client = {c1, c2}
  Flushd = {flushd}
  CACHE_CNT = 2
  Sector = {s1, s2, s3}
  Part = {p1}
  Value = {v0}
  Zero = v0
SPECIFICATION Spec
INVARIANTS TypeOK CountsMatch OneWriter NoContention
 
