CONSTANTS
  NULL = NULL
  File = {f, g}
  BLOCK_SECTOR_SIZE = 2
  DIRECT_CNT = 1
  PTRS_PER_SECTOR = 2
  DataSector = {1, 2, 3, 4, 5, 6, 7}
  Length = {0, 2}
  Size = {3}
  Position = {0}
  Gap = {0, 1}
  Byte = {1}
  MaxFiles = 3
  Thread = {t1, t2}
  PAGE_CNT = 3
  Desc = {"d"}
  blocks_per_arena <- MCBlocksPerArena
  BigPages = {2}
  ELEM_BITS = 2
  User = {c1, c2}
  Drive = {"master", "slave"}
  Sector = {"b"}
  Word = {"x", "y"}
  Client = {c1, c2}
  Lba = {"b", "c"}
  Data = {"x", "y"}
  Sender = {a, b}
  TD_ENTRIES = 4
  MaxPackets = 2
  Class = {"c", "d"}
  QH_ENTRIES = 4
  ADDRS_PER_HOST = 4
  MaxDevs = 3
  W = 3
  DISK_SIZE = 6
  PartTable <- MCPartTable
  Role = {"fs"}
  MaxDepth = 3
SYMMETRY Symmetry
SPECIFICATION PartsSpec
INVARIANTS
  MemorySound
  ImageSound
  
  StructuresSound
  
  DisksSound
 
CHECK_DEADLOCK FALSE
