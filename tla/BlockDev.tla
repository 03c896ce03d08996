------------------------------ MODULE BlockDev ------------------------------
(***************************************************************************)
(* Block devices and partitions: devices/block.c and partition.c on one    *)
(* disk whose driver is module Ide or UsbStorage.  Sector numbers have W   *)
(* bits (block_sector_t has 32) and wrap around.  malloc() succeeds.       *)
(***************************************************************************)
EXTENDS Naturals, Sequences

CONSTANTS
  W, DISK_SIZE,
  PartTable,     \* tables a disk may carry: sequences of [type, offset, size]
  Role,          \* partition types with a role; others are "foreign"
  MaxDepth       \* bound: tables read inside one another

VARIABLES
  blocks,    \* all_blocks: [type, start, size]; the disk comes first
  role,      \* block_by_role: [Role -> index of a block, or 0]
  scan,      \* "no", "tables", "done", "loops" (past MaxDepth), "panic"
  pt,        \* the table in sector 0
  calls,     \* read_partition_table()'s activations: [sector, primary, i]
  last       \* the last access: block, and sector of the disk it reached

bvars == <<blocks, role, scan, pt, calls, last>>

Wrap(n) == n % (2 ^ W)

\* block_register() of the whole disk by its driver.
BlockInit ==
  /\ blocks = <<[type |-> "raw", start |-> 0, size |-> DISK_SIZE]>>
  /\ role = [r \in Role |-> 0] /\ scan = "no" /\ pt = <<>> /\ calls = <<>>
  /\ last = [via |-> 1, sector |-> 0]

-----------------------------------------------------------------------------
(* partition_scan().                                                       *)

\* A call returns at once when SECTOR is past the end of the device.
Called(stack, sector, primary) ==
  IF sector >= DISK_SIZE THEN stack
  ELSE Append(stack, [sector |-> sector, primary |-> primary, i |-> 1])

\* Mutant: no check that the end of the partition does not wrap around.
found_partition_wraps(e, start) ==
  IF start >= DISK_SIZE \/ Wrap(start + e.size) > DISK_SIZE THEN blocks
  ELSE Append(blocks, [type |-> IF e.type \in Role THEN e.type ELSE "foreign",
                       start |-> start, size |-> e.size])

found_partition(e, start) ==
  LET end == Wrap(start + e.size) IN
  IF start >= DISK_SIZE \/ end < start \/ end > DISK_SIZE THEN blocks
  ELSE Append(blocks, [type |-> IF e.type \in Role THEN e.type ELSE "foreign",
                       start |-> start, size |-> e.size])

partition_scan(table) ==
  /\ scan = "no" /\ scan' = "tables"
  /\ pt' = table /\ calls' = Called(<<>>, 0, 0)
  /\ UNCHANGED <<blocks, role, last>>

\* One turn of read_partition_table()'s loop.  Whatever SECTOR says, the table
\* was read from sector 0, so an extended partition leads back to the same
\* entries: from the third call on SECTOR stays the same and it never ends.
read_partition_table ==
  LET n == Len(calls)
      f == calls[n]
      e == pt[f.i]
      rest == [calls EXCEPT ![n] = [f EXCEPT !.i = f.i + 1]]
  IN
  /\ scan = "tables" /\ n > 0 /\ f.i <= Len(pt)
  /\ \/ /\ e.size = 0 \/ e.type = "empty"
        /\ calls' = rest /\ UNCHANGED <<blocks, scan>>
     \/ /\ e.size # 0 /\ e.type = "extended"
        /\ calls' = IF f.sector = 0 THEN Called(rest, e.offset, e.offset)
                    ELSE Called(rest, Wrap(e.offset + f.primary), f.primary)
        /\ scan' = IF Len(calls') > MaxDepth THEN "loops" ELSE scan
        /\ UNCHANGED blocks
     \/ /\ e.size # 0 /\ e.type \notin {"empty", "extended"}
        /\ blocks' = found_partition(e, Wrap(e.offset + f.sector))
        /\ calls' = rest /\ UNCHANGED scan
  /\ UNCHANGED <<role, pt, last>>

TableDone ==
  LET n == Len(calls) IN
  /\ scan = "tables" /\ n > 0 /\ calls[n].i > Len(pt)
  /\ calls' = SubSeq(calls, 1, n - 1)
  /\ scan' = IF n = 1 THEN "done" ELSE scan
  /\ UNCHANGED <<blocks, role, pt, last>>

-----------------------------------------------------------------------------
(* Roles and access.                                                       *)

\* block_set_role(), with a device chosen by name or by type (threads/init.c).
block_set_role(r, i) ==
  /\ scan = "done"
  /\ role' = [role EXCEPT ![r] = i]
  /\ UNCHANGED <<blocks, scan, pt, calls, last>>

\* check_sector(), then the driver: a partition adds its start and asks the
\* disk, which checks again.  The statistics are left out.
Access(i, sector, write) ==
  LET b == blocks[i]
      s == Wrap(b.start + sector)
      refused == sector >= b.size \/ (write /\ b.type = "foreign") \/ s >= DISK_SIZE
  IN
  /\ scan = "done"
  /\ \/ refused /\ scan' = "panic" /\ UNCHANGED last
     \/ ~ refused /\ last' = [via |-> i, sector |-> s] /\ UNCHANGED scan
  /\ UNCHANGED <<blocks, role, pt, calls>>

block_read(i, sector) == Access(i, sector, FALSE)
block_write(i, sector) == Access(i, sector, TRUE)

BlockNext ==
  \/ \E t \in PartTable : partition_scan(t)
  \/ read_partition_table \/ TableDone
  \/ \E r \in Role, i \in DOMAIN blocks : block_set_role(r, i)
  \/ \E i \in DOMAIN blocks, s \in 0..DISK_SIZE : block_read(i, s) \/ block_write(i, s)

BlockSpec == BlockInit /\ [][BlockNext]_bvars

-----------------------------------------------------------------------------
(* Properties.                                                             *)

\* Whatever table a disk carries, with sector numbers that wrap around, every
\* registered partition lies inside the disk, and an access through it reaches
\* a sector of the partition.
InsideDisk ==
  /\ \A i \in DOMAIN blocks : blocks[i].start + blocks[i].size <= DISK_SIZE
  /\ LET b == blocks[last.via] IN last.sector \in b.start..(b.start + b.size - 1)
=============================================================================
