----------------------------- MODULE InodeIndex -----------------------------
(***************************************************************************)
(* How an inode finds, grows and gives back its sectors: filesys/inode.c   *)
(* on top of filesys/free-map.c.                                           *)
(*                                                                         *)
(* Calls run one at a time (under fs_lock).  The inodes themselves lie in  *)
(* sectors of their own, outside DataSector.  Sector 0 is the inode of the *)
(* free map: a pointer that was never set is 0.                            *)
(***************************************************************************)
EXTENDS ListOps

CONSTANTS
  File,
  BLOCK_SECTOR_SIZE, DIRECT_CNT, PTRS_PER_SECTOR,
  DataSector,     \* numbers of the sectors the free map hands out
  Length, Size,   \* bounds: lengths of new files, sizes of writes
  Position, Gap,  \* bounds: where writes start, from the first byte and from the end
  Byte,           \* bytes programs write, other than 0
  MaxFiles        \* bound: files created in one run

ASSUME InodeAssumption ==
  /\ BLOCK_SECTOR_SIZE \in Nat \ {0} /\ PTRS_PER_SECTOR \in Nat \ {0} /\ DIRECT_CNT \in Nat
  /\ DataSector \subseteq Nat /\ Length \subseteq Nat /\ Size \subseteq Nat
  /\ Position \subseteq Nat /\ Gap \subseteq Nat

JUNK == -1                      \* a pointer read from a table nobody cleared
Offset == 0..(PTRS_PER_SECTOR - 1)
INDIRECT_IDX == DIRECT_CNT
DBL_INDIRECT_IDX == DIRECT_CNT + 1
SPAN == DIRECT_CNT + PTRS_PER_SECTOR + PTRS_PER_SECTOR * PTRS_PER_SECTOR
INODE_SPAN == SPAN * BLOCK_SECTOR_SIZE
Zeroed == [b \in 0..(BLOCK_SECTOR_SIZE - 1) |-> 0]

VARIABLES
  inode,   \* [File -> struct inode_disk: exists, length, sectors]
  table,   \* [DataSector -> the sector read as a table of pointers]
  data,    \* [DataSector -> the sector read as bytes]
  used,    \* the free map: sectors in use
  made,    \* bound: files created so far
  stopped  \* "no", "panic", or "stray" after a write outside the file

ivars == <<inode, table, data, used, made, stopped>>

NoInode == [exists |-> FALSE, length |-> 0, sectors |-> [i \in 0..DBL_INDIRECT_IDX |-> 0]]

InodeInit ==
  /\ inode = [f \in File |-> NoInode]
  /\ table = [s \in DataSector |-> [o \in Offset |-> JUNK]]
  /\ data = [s \in DataSector |-> Zeroed]
  /\ used = {}
  /\ made = 0
  /\ stopped = "no"

-----------------------------------------------------------------------------
(* The index.                                                              *)

\* Division that truncates toward 0: the last sector of a file of length 0,
\* and of one not yet made (-1), is sector 0.
LastSector(length) == IF length < 1 THEN 0 ELSE (length - 1) \div BLOCK_SECTOR_SIZE

\* calculate_indices(): the slots that lead from the inode to sector idx.
calculate_indices(idx) ==
  LET rel == idx - DIRECT_CNT - PTRS_PER_SECTOR IN
  IF idx < DIRECT_CNT THEN <<idx>>
  ELSE IF rel < 0 THEN <<INDIRECT_IDX, idx - DIRECT_CNT>>
  ELSE <<DBL_INDIRECT_IDX, rel \div PTRS_PER_SECTOR, rel % PTRS_PER_SECTOR>>

\* The tables and the data sector on that path; a pointer that is 0 or junk
\* leads to a sector that is no table of this file.
PathOf(d, tab, idx) ==
  LET o == calculate_indices(idx)
      Follow(s, i) == IF s \in DataSector THEN tab[s][o[i]] ELSE JUNK
      first == d.sectors[o[1]]
  IN  IF Len(o) = 1 THEN <<first>>
      ELSE IF Len(o) = 2 THEN <<first, Follow(first, 2)>>
      ELSE <<first, Follow(first, 2), Follow(Follow(first, 2), 3)>>

\* byte_to_sector() and get_data_block(): neither asks whether idx is allocated.
get_data_block(d, tab, idx) == LET p == PathOf(d, tab, idx) IN p[Len(p)]

SectorsOf(d) == IF d.length = 0 THEN {} ELSE 0..LastSector(d.length)

-----------------------------------------------------------------------------
(* extend_file(): one sector at a time, data sector first, then the tables *)
(* it needs.  st is what has been done so far; nothing is undone.          *)

\* Mutant: the sector is not marked in the free map.
free_map_allocate_unmarked(st) ==
  LET left == DataSector \ st.used IN
  IF ~ st.ok \/ left = {} THEN [st EXCEPT !.ok = FALSE] ELSE [st EXCEPT !.new = least(left)]

free_map_allocate(st) ==
  LET left == DataSector \ st.used IN
  IF ~ st.ok \/ left = {} THEN [st EXCEPT !.ok = FALSE]
  ELSE [st EXCEPT !.used = @ \cup {least(left)}, !.new = least(left)]

\* What each allocation is for: the data, the table the inode names, the table
\* of the double indirect block, and the entry for the data.
ZeroData(st) ==
  IF st.ok THEN [st EXCEPT !.data[st.new] = Zeroed, !.block = st.new] ELSE st
NameTable(st, o) ==
  IF st.ok THEN [st EXCEPT !.d.sectors[o[1]] = st.new] ELSE st
NameSubTable(st, o) ==
  IF st.ok THEN [st EXCEPT !.table[st.d.sectors[o[1]]][o[2]] = st.new] ELSE st
NameData(st, o) ==
  IF ~ st.ok THEN st
  ELSE IF Len(o) = 1 THEN [st EXCEPT !.d.sectors[o[1]] = st.block]
  ELSE IF Len(o) = 2 THEN [st EXCEPT !.table[st.d.sectors[o[1]]][o[2]] = st.block]
  ELSE [st EXCEPT !.table[st.table[st.d.sectors[o[1]]][o[2]]][o[3]] = st.block]

TopTable(st, o) ==
  IF Len(o) > 1 /\ \A i \in 2..Len(o) : o[i] = 0
    THEN NameTable(free_map_allocate(st), o) ELSE st
SubTable(st, o) ==
  IF Len(o) = 3 /\ o[3] = 0 THEN NameSubTable(free_map_allocate(st), o) ELSE st
Place(st, o) == NameData(SubTable(TopTable(ZeroData(free_map_allocate(st)), o), o), o)

AddSector(st, idx) == Place(st, calculate_indices(idx))

\* The result: what is on disk afterwards; d is the inode, stored only if ok.
extend_file(d, length) ==
  LET now == [d |-> d, table |-> table, data |-> data, used |-> used, new |-> 0,
          block |-> 0, ok |-> TRUE]
      from == IF d.length = -1 THEN 0 ELSE LastSector(d.length) + 1
      to == LastSector(length)
      grown[i \in 0..(to + 1 - from)] ==
        IF i = 0 THEN now ELSE AddSector(grown[i - 1], from + i - 1)
      all == grown[to + 1 - from]
  IN  IF length > INODE_SPAN THEN [now EXCEPT !.ok = FALSE]
      ELSE IF to < from
        THEN IF to = LastSector(d.length) /\ d.length < length
               THEN [now EXCEPT !.d.length = length] ELSE now
      ELSE IF all.ok THEN [all EXCEPT !.d.length = length] ELSE all

-----------------------------------------------------------------------------
(* The operations.                                                         *)

\* A failure deallocates whatever inode the sector held before, and panics.
inode_create(f, length) ==
  LET r == extend_file([NoInode EXCEPT !.exists = TRUE, !.length = -1], length) IN
  /\ stopped = "no" /\ ~ inode[f].exists /\ made < MaxFiles
  /\ table' = r.table /\ data' = r.data /\ used' = r.used
  /\ \/ r.ok /\ inode' = [inode EXCEPT ![f] = r.d] /\ UNCHANGED stopped
     \/ ~ r.ok /\ stopped' = "panic" /\ UNCHANGED inode
  /\ made' = made + 1

\* A write that is not denied (inode_deny_write(), module Process): bytes
\* offset..offset + size - 1 as far as INODE_SPAN, whether or not the
\* file could be extended to hold them.
inode_write_at(f, offset, size, v) ==
  LET r == extend_file(inode[f], offset + size)
      d == IF r.ok THEN r.d ELSE inode[f]
      bytes == offset..(least({offset + size, INODE_SPAN}) - 1)
      At(b) == get_data_block(d, r.table, b \div BLOCK_SECTOR_SIZE)
      stray == \E b \in bytes : At(b) \notin DataSector
  IN
  /\ stopped = "no" /\ inode[f].exists
  /\ inode' = [inode EXCEPT ![f] = d]
  /\ table' = r.table /\ used' = r.used
  /\ data' = [s \in DataSector |-> [o \in DOMAIN Zeroed |->
       IF \E b \in bytes : At(b) = s /\ b % BLOCK_SECTOR_SIZE = o THEN v
       ELSE r.data[s][o]]]
  /\ stopped' = IF stray THEN "stray" ELSE "no"
  /\ UNCHANGED made

\* deallocate_inode() when a removed file is last closed.  The buffer of the
\* indirect table is freed after its first entry: the second entry read from it
\* is no sector, and free_map_release() panics.
deallocate_inode(f) ==
  LET d == inode[f]
      n == Cardinality(SectorsOf(d))
      idxs == {i \in SectorsOf(d) : i <= DIRECT_CNT}
      gone == {get_data_block(d, table, i) : i \in idxs}
              \cup IF n > DIRECT_CNT THEN {d.sectors[INDIRECT_IDX]} ELSE {}
  IN
  /\ stopped = "no" /\ d.exists
  /\ \/ /\ n > DIRECT_CNT + 1
        /\ used' = used \ {get_data_block(d, table, i) : i \in idxs}
        /\ stopped' = "panic"
        /\ UNCHANGED inode
     \/ /\ n <= DIRECT_CNT + 1
        /\ used' = used \ gone
        /\ inode' = [inode EXCEPT ![f] = NoInode]
        /\ UNCHANGED stopped
  /\ UNCHANGED <<table, data, made>>

Offsets(f) == Position \cup {inode[f].length + gap : gap \in Gap}

InodeNext ==
  \E f \in File :
    \/ \E length \in Length : inode_create(f, length)
    \/ \E size \in Size, v \in Byte : \E offset \in Offsets(f) :
         inode_write_at(f, offset, size, v)
    \/ deallocate_inode(f)

InodeSpec == InodeInit /\ [][InodeNext]_ivars

-----------------------------------------------------------------------------
(* Properties.                                                             *)

\* Every sector a file needs, tables included, with the place that names it.
Places(f) ==
  UNION {LET p == PathOf(inode[f], table, i) IN
         {<<f, SubSeq(calculate_indices(i), 1, k), p[k]>> : k \in 1..Len(p)}
           : i \in SectorsOf(inode[f])}

\* Through every growth, failed growth, removal and reuse: each sector of a
\* file is in use in the free map and is named by one place of one file only.
IndexSound ==
  LET all == UNION {Places(f) : f \in File} IN
  stopped = "no" =>
  /\ \A p \in all : p[3] \in used
  /\ \A p, q \in all : p[3] = q[3] => p = q

Content(f) ==
  [b \in 0..(inode[f].length - 1) |->
     data[get_data_block(inode[f], table, b \div BLOCK_SECTOR_SIZE)]
         [b % BLOCK_SECTOR_SIZE]]

Written(c, offset, size, v, n) ==
  [b \in 0..(n - 1) |-> IF b \in offset..(offset + size - 1) THEN v
                        ELSE IF b \in DOMAIN c THEN c[b] ELSE 0]

\* To its users a file is an array of bytes: a write stores what it was given
\* and zeros in the gap before it, keeps the rest, and touches no other file.
ByteArrayStep ==
     stopped' # "no" \/ \A f \in File : inode[f].exists /\ inode'[f].exists =>
       \/ Content(f)' = Content(f)
       \/ /\ \E offset \in Offsets(f), size \in Size, v \in Byte :
               \E n \in {inode[f].length, offset + size} :
                 /\ n >= inode[f].length
                 /\ Content(f)' = Written(Content(f), offset, size, v, n)
          /\ \A g \in File \ {f} : inode[g].exists => Content(g)' = Content(g)
ActsAsByteArray == [][ByteArrayStep]_ivars

\* A file that is removed gives back every sector it uses.
ReturnsAllStep ==
     \A f \in File : inode[f].exists /\ ~ inode'[f].exists =>
       \A p \in Places(f) : p[3] \notin used'
RemoveReturnsAll == [][ReturnsAllStep]_ivars

\* inode_write_at() returns "the number of bytes actually written, which may be
\* less than SIZE if an error occurs": it writes nothing outside the file.
WritesStayInside == stopped # "stray"
=============================================================================
