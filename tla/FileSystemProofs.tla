-------------------------- MODULE FileSystemProofs --------------------------
(***************************************************************************)
(* Proofs about the file system calls for any processes, sectors, paths    *)
(* and table lengths: references to inodes are counted, the tree of        *)
(* directories stays sound and no working directory is removed.            *)
(***************************************************************************)
EXTENDS FileSystem, FiniteSetTheorems, WellFoundedInduction, TLAPS

-----------------------------------------------------------------------------
(***************************************************************************)
(* The inductive invariant.                                                *)
(***************************************************************************)

\* A descriptor in a process's list has a file and is in no other list.
FdInv ==
  \A p \in Proc : \A i \in 1..FD_LIST_LEN :
    fd_list[p][i] \in Fd =>
      /\ fd_table[fd_list[p][i]] # NULL
      /\ \A q \in Proc : \A j \in 1..FD_LIST_LEN :
           fd_list[q][j] = fd_list[p][i] => q = p

\* The references to an inode: working directories and listed descriptors.
Within(s) == {p \in Proc : wd[p] = s}
Listed(fd) == \E p \in Proc : \E i \in 1..FD_LIST_LEN : fd_list[p][i] = fd
Using(s) == {fd \in Fd : Listed(fd) /\ fd_table[fd].inode = s}

CountInv ==
  \A s \in Sector : open_cnt[s] >= Cardinality(Within(s)) + Cardinality(Using(s))

RefInv == TypeOK /\ FdInv /\ CountInv

gone == removed \cup freed

\* Sectors that were never allocated.
FreeInv ==
  /\ FREE_MAP_SECTOR \notin free /\ ROOT_DIR_SECTOR \notin free
  /\ \A s \in free : kind[s] = "none" /\ s \notin gone

\* Only directories have entries, and only files are removed while open.
KindInv ==
  /\ kind[ROOT_DIR_SECTOR] = "dir" /\ kind[FREE_MAP_SECTOR] # "dir"
  /\ FREE_MAP_SECTOR \notin gone
  /\ \A s \in Sector : kind[s] # "dir" => entries[s] = <<>>
  /\ \A s \in removed : kind[s] # "dir"

\* What an entry in use leads to, from a directory that was not freed.
EntryInv ==
  \A s \in Sector : \A i \in InUse(s) :
    LET e == entries[s][i] IN
    /\ e.sector \notin free
    /\ s \notin freed /\ e.sector # ROOT_DIR_SECTOR => e.sector \notin gone
    /\ ProperName(e.name) => e.sector # ROOT_DIR_SECTOR
    /\ kind[FREE_MAP_SECTOR] = "map" => e.sector # FREE_MAP_SECTOR

\* A directory has a name once.
NameInv ==
  \A s \in Sector : \A i, j \in InUse(s) :
    entries[s][i].name = entries[s][j].name => i = j

\* One name leads to an inode, "." and ".." aside.
LinkInv ==
  \A s, r \in Sector : \A i \in InUse(s), j \in InUse(r) :
    /\ ProperName(entries[s][i].name) /\ ProperName(entries[r][j].name)
    /\ entries[s][i].sector = entries[r][j].sector
    /\ entries[s][i].sector # FREE_MAP_SECTOR
    => s = r /\ i = j

\* A directory other than the root begins with "." and "..".
DotsInv ==
  ROOT_DIR_SECTOR \notin freed =>
    /\ \A i \in InUse(ROOT_DIR_SECTOR) : ProperName(entries[ROOT_DIR_SECTOR][i].name)
    /\ \A s \in Sector : kind[s] = "dir" /\ s # ROOT_DIR_SECTOR =>
         /\ 1 \in InUse(s) /\ entries[s][1].name = "." /\ entries[s][1].sector = s
         /\ 2 \in InUse(s) /\ entries[s][2].name = ".."

\* ".." leads to the directory that has the name.
Names(r, s) == \E j \in InUse(r) : ProperName(entries[r][j].name) /\ entries[r][j].sector = s
UpInv ==
  ROOT_DIR_SECTOR \notin freed =>
    \A s \in Sector : kind[s] = "dir" /\ s # ROOT_DIR_SECTOR /\ s \notin freed =>
      LET r == entries[s][2].sector IN
      kind[r] = "dir" /\ r \notin freed /\ Names(r, s)

WdInv == \A p \in Proc : kind[wd[p]] = "dir" /\ wd[p] \notin freed

TreeInv == /\ FreeInv /\ KindInv /\ EntryInv /\ NameInv /\ LinkInv
           /\ DotsInv /\ UpInv /\ WdInv

IInv == RefInv /\ TreeInv

-----------------------------------------------------------------------------
(***************************************************************************)
(* Numbers and sets.                                                       *)
(***************************************************************************)

\* A non-empty set of natural numbers has a least element, the one the
\* searches find first.
LEMMA LeastIn ==
    ASSUME NEW T \in SUBSET Nat, T # {}
    PROVE  least(T) \in T /\ \A k \in T : least(T) <= k
<1> DEFINE R == {z \in Nat \X Nat : z[1] < z[2]}
<1>1. IsWellFoundedOn(R, Nat)
  BY NatLessThanWellFounded DEF OpToRel
<1>2. PICK m \in T : \A k \in T : ~ (<<k, m>> \in R)
  BY <1>1, WFMin
<1>3. ASSUME NEW k \in T PROVE m <= k
  <2>1. m \in Nat /\ k \in Nat /\ <<k, m>> \in Nat \X Nat
    OBVIOUS
  <2>2. ~ (k < m)
    BY <1>2, <2>1
  <2>3. QED
    BY <2>1, <2>2
<1>4. QED
  BY <1>3 DEF least

LEMMA Marker == /\ NULL \notin Proc /\ NULL \notin Sector /\ NULL \notin File
                /\ SECTORS \in Nat /\ SECTORS >= 2
                /\ FREE_MAP_SECTOR \in Sector /\ ROOT_DIR_SECTOR \in Sector
                /\ FREE_MAP_SECTOR # ROOT_DIR_SECTOR
                /\ Sector \subseteq Nat /\ Fd \subseteq Nat /\ -1 \notin Fd /\ 0 \notin Fd
  BY FsAssumption DEF FREE_MAP_SECTOR, ROOT_DIR_SECTOR, Sector, Fd

LEMMA RefsFinite == \A s \in Sector : /\ IsFiniteSet(Within(s)) /\ IsFiniteSet(Using(s))
                                      /\ Cardinality(Within(s)) \in Nat
                                      /\ Cardinality(Using(s)) \in Nat
<1>1. IsFiniteSet(Proc) /\ IsFiniteSet(Fd)
  BY FsAssumption, FS_Interval DEF Fd
<1>2. ASSUME NEW s \in Sector
      PROVE  IsFiniteSet(Within(s)) /\ IsFiniteSet(Using(s))
  <2>1. Within(s) \subseteq Proc /\ Using(s) \subseteq Fd
    BY DEF Within, Using
  <2>2. QED
    BY <1>1, <2>1, FS_Subset
<1>3. QED
  BY <1>2, FS_CardinalityType

-----------------------------------------------------------------------------
(***************************************************************************)
(* References.                                                             *)
(***************************************************************************)

\* What a search of the process's list finds.
LEMMA FileIs ==
    ASSUME RefInv, NEW p \in Proc, NEW fd \in Fd
    PROVE  LET f == thread_get_file(p, fd) IN
           \/ f = NULL /\ \A i \in 1..FD_LIST_LEN : fd_list[p][i] # fd
           \/ /\ f # NULL /\ f = fd_table[fd] /\ f \in File
              /\ \E i \in 1..FD_LIST_LEN : fd_list[p][i] = fd
<1>1. DOMAIN fd_list[p] = 1..FD_LIST_LEN /\ fd_table[fd] \in File \cup {NULL}
  BY DEF RefInv, TypeOK
<1>2. ASSUME NEW i \in 1..FD_LIST_LEN, fd_list[p][i] = fd
      PROVE  fd_table[fd] # NULL
  BY <1>2 DEF RefInv, FdInv
<1>3. QED
  BY <1>1, <1>2 DEF thread_get_file

\* The calls that open or close nothing.
LEMMA SameRefs ==
    ASSUME RefInv, TypeOK', UNCHANGED <<fd_list, wd>>,
           \A fd \in Fd : /\ fd_table'[fd] = NULL => fd_table[fd] = NULL
                          /\ fd_table[fd] # NULL =>
                               fd_table'[fd].inode = fd_table[fd].inode,
           \A s \in Sector : open_cnt'[s] >= open_cnt[s]
    PROVE  RefInv'
<1>1. FdInv'
  BY DEF RefInv, FdInv
<1>2. ASSUME NEW s \in Sector
      PROVE  open_cnt'[s] >= Cardinality(Within(s)') + Cardinality(Using(s)')
  <2>1. Within(s)' = Within(s)
    BY DEF Within
  <2>2. ASSUME NEW fd \in Fd, Listed(fd) PROVE fd_table[fd] # NULL
    BY <2>2 DEF RefInv, FdInv, Listed
  <2>3. Using(s)' = Using(s)
    BY <2>2 DEF Using, Listed
  <2>4. open_cnt[s] \in Nat /\ open_cnt'[s] \in Nat
    BY DEF RefInv, TypeOK
  <2>5. open_cnt[s] >= Cardinality(Within(s)) + Cardinality(Using(s))
    BY DEF RefInv, CountInv
  <2>6. QED
    BY <2>1, <2>3, <2>4, <2>5, RefsFinite
<1>3. QED
  BY <1>1, <1>2 DEF RefInv, CountInv

\* thread_get_new_fd() after inode_open().
LEMMA OpenRefs ==
    ASSUME RefInv, TypeOK', NEW p \in Proc, NEW t \in Sector,
           thread_get_new_fd(p, t), UNCHANGED wd,
           open_cnt' = [open_cnt EXCEPT ![t] = @ + 1]
    PROVE  RefInv'
<1> DEFINE empty == {fd \in Fd : fd_table[fd] = NULL}
           fd == IF empty = {} THEN -1 ELSE least(empty)
           slot == {i \in DOMAIN fd_list[p] : fd_list[p][i] = 0}
           k == least(slot)
<1>1. /\ fd_table' = IF fd = -1 THEN fd_table
                     ELSE [fd_table EXCEPT ![fd] = [inode |-> t, pos |-> 0]]
      /\ fd_list' = IF slot = {} THEN fd_list ELSE [fd_list EXCEPT ![p][k] = fd]
  BY DEF thread_get_new_fd
<1>2. fd = -1 \/ (fd \in Fd /\ fd_table[fd] = NULL)
  BY Marker, LeastIn
<1>3. fd \in Fd => fd # -1
  BY Marker
<1>4. slot # {} => k \in 1..FD_LIST_LEN
  <2>1. slot \subseteq 1..FD_LIST_LEN
    BY DEF RefInv, TypeOK
  <2>2. QED
    BY <2>1, LeastIn
<1> HIDE DEF fd, slot, k
<1>5. fd_list \in [Proc -> [1..FD_LIST_LEN -> Fd \cup {0, -1}]] /\ fd_table \in [Fd -> File \cup {NULL}]
  BY DEF RefInv, TypeOK
<1>6. ASSUME NEW q \in Proc, NEW i \in 1..FD_LIST_LEN
      PROVE  fd_list'[q][i] = fd_list[q][i] \/ (fd_list'[q][i] = fd /\ q = p)
  BY <1>1, <1>4, <1>5
<1>7. ASSUME NEW q \in Proc, NEW i \in 1..FD_LIST_LEN
      PROVE  fd \in Fd => fd_list[q][i] # fd
  BY <1>2, <1>3 DEF RefInv, FdInv
<1>8. ASSUME NEW g \in Fd, g # fd PROVE fd_table'[g] = fd_table[g]
  BY <1>1, <1>2, <1>5, <1>8
<1>9. fd \in Fd => fd_table'[fd] = [inode |-> t, pos |-> 0] /\ fd_table'[fd] # NULL
  <2>1. [inode |-> t, pos |-> 0] \in File
    BY DEF File
  <2>2. QED
    BY <1>1, <1>3, <1>5, <2>1, Marker
<1>10. FdInv'
  <2>1. SUFFICES ASSUME NEW q \in Proc, NEW i \in 1..FD_LIST_LEN, fd_list'[q][i] \in Fd
                 PROVE  /\ fd_table'[fd_list'[q][i]] # NULL
                        /\ \A r \in Proc : \A j \in 1..FD_LIST_LEN :
                             fd_list'[r][j] = fd_list'[q][i] => r = q
    BY DEF FdInv
  <2>2. CASE fd_list'[q][i] = fd
    <3>1. q = p
      BY <1>6, <1>7, <2>1, <2>2
    <3>2. QED
      BY <1>6, <1>7, <1>9, <2>1, <2>2, <3>1
  <2>3. CASE fd_list'[q][i] # fd
    <3>1. fd_list'[q][i] = fd_list[q][i]
      BY <1>6, <2>3
    <3>2. fd_table[fd_list[q][i]] # NULL
      BY <2>1, <3>1 DEF RefInv, FdInv
    <3>3. ASSUME NEW r \in Proc, NEW j \in 1..FD_LIST_LEN, fd_list'[r][j] = fd_list'[q][i]
          PROVE  r = q
      <4>1. fd_list[r][j] = fd_list[q][i]
        BY <1>6, <2>3, <3>1, <3>3
      <4>2. QED
        BY <2>1, <3>1, <4>1 DEF RefInv, FdInv
    <3>4. QED
      BY <1>8, <2>1, <2>3, <3>1, <3>2, <3>3
  <2>4. QED
    BY <2>2, <2>3
<1>11. ASSUME NEW s \in Sector
       PROVE  open_cnt'[s] >= Cardinality(Within(s)') + Cardinality(Using(s)')
  <2>1. Within(s)' = Within(s)
    BY DEF Within
  <2>2. open_cnt[s] \in Nat /\ open_cnt'[s] = (IF s = t THEN open_cnt[s] + 1 ELSE open_cnt[s])
    BY DEF RefInv, TypeOK
  <2>3. open_cnt[s] >= Cardinality(Within(s)) + Cardinality(Using(s))
    BY DEF RefInv, CountInv
  <2>4. ASSUME NEW g \in Fd, g # fd, Listed(g)' PROVE Listed(g)
    BY <1>6, <2>4 DEF Listed
  <2>5. CASE s = t
    <3>1. Using(s)' \subseteq Using(s) \cup {fd}
      BY <1>8, <2>4 DEF Using
    <3>2. /\ IsFiniteSet(Using(s) \cup {fd})
          /\ Cardinality(Using(s) \cup {fd}) <= Cardinality(Using(s)) + 1
          /\ Cardinality(Using(s) \cup {fd}) \in Nat
      <4>1. IsFiniteSet(Using(s)) /\ Cardinality(Using(s)) \in Nat
        BY RefsFinite
      <4>2. /\ IsFiniteSet(Using(s) \cup {fd})
            /\ Cardinality(Using(s) \cup {fd}) = IF fd \in Using(s) THEN Cardinality(Using(s))
                                                 ELSE Cardinality(Using(s)) + 1
        BY <4>1, FS_AddElement
      <4>3. QED
        BY <4>1, <4>2
    <3>3. /\ Cardinality(Using(s)') <= Cardinality(Using(s) \cup {fd})
          /\ Cardinality(Using(s)') \in Nat
      BY <3>1, <3>2, FS_Subset, FS_CardinalityType
    <3>4. QED
      BY <2>1, <2>2, <2>3, <2>5, <3>2, <3>3, RefsFinite
  <2>6. CASE s # t
    <3>1. fd \in Using(s)' => FALSE
      BY <1>9, <2>6 DEF Using
    <3>2. Using(s)' \subseteq Using(s)
      BY <1>8, <2>4, <3>1 DEF Using
    <3>3. Cardinality(Using(s)') <= Cardinality(Using(s)) /\ Cardinality(Using(s)') \in Nat
      BY <3>2, RefsFinite, FS_Subset, FS_CardinalityType
    <3>4. QED
      BY <2>1, <2>2, <2>3, <2>6, <3>3, RefsFinite
  <2>7. QED
    BY <2>5, <2>6
<1>12. QED
  BY <1>10, <1>11 DEF RefInv, CountInv

\* thread_close_fd() with inode_close().
LEMMA CloseRefs ==
    ASSUME RefInv, NEW p \in Proc, NEW fd \in Fd,
           thread_get_file(p, fd) # NULL,
           thread_close_fd(p, fd), UNCHANGED wd,
           open_cnt' = [open_cnt EXCEPT ![thread_get_file(p, fd).inode] = @ - 1],
           open_cnt' \in [Sector -> Nat] => TypeOK'
    PROVE  RefInv'
<1>1. fd_list \in [Proc -> [1..FD_LIST_LEN -> Fd \cup {0, -1}]] /\ fd_table' = fd_table
  BY DEF RefInv, TypeOK, thread_close_fd
<1>2. fd_list' = [fd_list EXCEPT ![p] = [i \in DOMAIN @ |-> IF @[i] = fd THEN 0 ELSE @[i]]]
  BY DEF thread_close_fd
<1>3. ASSUME NEW q \in Proc, NEW i \in 1..FD_LIST_LEN
      PROVE  fd_list'[q][i] = IF q = p /\ fd_list[q][i] = fd THEN 0 ELSE fd_list[q][i]
  BY <1>1, <1>2
<1> DEFINE t == fd_table[fd].inode
<1>4. /\ t \in Sector /\ fd \in Using(t)
      /\ open_cnt' = [open_cnt EXCEPT ![t] = @ - 1]
      /\ \E i \in 1..FD_LIST_LEN : fd_list[p][i] = fd
  BY FileIs DEF Using, Listed, File
<1> HIDE DEF t
<1>5. ~ Listed(fd)'
  <2>1. SUFFICES ASSUME NEW q \in Proc, NEW i \in 1..FD_LIST_LEN, fd_list'[q][i] = fd
                 PROVE  FALSE
    BY DEF Listed
  <2>2. fd # 0
    BY Marker
  <2>3. fd_list[q][i] = fd /\ q # p
    BY <1>3, <2>1, <2>2
  <2>4. QED
    BY <1>4, <2>3 DEF RefInv, FdInv
<1>6. FdInv'
  <2>1. 0 \notin Fd
    BY Marker
  <2>2. SUFFICES ASSUME NEW q \in Proc, NEW i \in 1..FD_LIST_LEN, fd_list'[q][i] \in Fd
                 PROVE  /\ fd_table'[fd_list'[q][i]] # NULL
                        /\ \A r \in Proc : \A j \in 1..FD_LIST_LEN :
                             fd_list'[r][j] = fd_list'[q][i] => r = q
    BY DEF FdInv
  <2>3. fd_list'[q][i] = fd_list[q][i]
    BY <1>3, <2>1, <2>2
  <2>4. ASSUME NEW r \in Proc, NEW j \in 1..FD_LIST_LEN, fd_list'[r][j] = fd_list'[q][i]
        PROVE  r = q
    <3>1. fd_list[r][j] = fd_list[q][i]
      BY <1>3, <2>1, <2>2, <2>3, <2>4
    <3>2. QED
      BY <2>2, <2>3, <3>1 DEF RefInv, FdInv
  <2>5. fd_table[fd_list[q][i]] # NULL
    BY <2>2, <2>3 DEF RefInv, FdInv
  <2>6. QED
    BY <1>1, <2>3, <2>4, <2>5
<1>7. ASSUME NEW s \in Sector
      PROVE  /\ open_cnt'[s] \in Nat
             /\ open_cnt'[s] >= Cardinality(Within(s)') + Cardinality(Using(s)')
  <2>1. Within(s)' = Within(s)
    BY DEF Within
  <2>2. open_cnt[s] \in Nat /\ open_cnt'[s] = (IF s = t THEN open_cnt[s] - 1 ELSE open_cnt[s])
    BY <1>4 DEF RefInv, TypeOK
  <2>3. open_cnt[s] >= Cardinality(Within(s)) + Cardinality(Using(s))
    BY DEF RefInv, CountInv
  <2>4. ASSUME NEW g \in Fd, Listed(g)' PROVE Listed(g) /\ g # fd
    <3>1. 0 \notin Fd
      BY Marker
    <3>2. QED
      BY <1>3, <1>5, <2>4, <3>1 DEF Listed
  <2>5. Using(s)' \subseteq Using(s) \ {fd}
    BY <1>1, <2>4 DEF Using
  <2>6. /\ IsFiniteSet(Using(s) \ {fd})
        /\ Cardinality(Using(s) \ {fd}) = IF fd \in Using(s) THEN Cardinality(Using(s)) - 1
                                          ELSE Cardinality(Using(s))
    BY RefsFinite, FS_RemoveElement
  <2>7. Cardinality(Using(s)') <= Cardinality(Using(s) \ {fd}) /\ Cardinality(Using(s)') \in Nat
    BY <2>5, <2>6, FS_Subset, FS_CardinalityType
  <2>8. QED
    BY <1>4, <2>1, <2>2, <2>3, <2>6, <2>7, RefsFinite
<1>8. open_cnt' \in [Sector -> Nat]
  <2>1. open_cnt \in [Sector -> Nat]
    BY DEF RefInv, TypeOK
  <2>2. DOMAIN open_cnt' = Sector /\ open_cnt' = [s \in Sector |-> open_cnt'[s]]
    BY <1>4, <2>1
  <2>3. QED
    BY <1>7, <2>2
<1>9. QED
  BY <1>6, <1>7, <1>8 DEF RefInv, CountInv

\* sys_chdir() opens the new working directory and closes the old one.
LEMMA ChdirRefs ==
    ASSUME RefInv, NEW p \in Proc, NEW t \in Sector,
           wd' = [wd EXCEPT ![p] = t], UNCHANGED fds,
           open_cnt' = [[open_cnt EXCEPT ![t] = @ + 1] EXCEPT ![wd[p]] = @ - 1],
           open_cnt' \in [Sector -> Nat] => TypeOK'
    PROVE  RefInv'
<1>1. wd \in [Proc -> Sector] /\ open_cnt \in [Sector -> Nat]
  BY DEF RefInv, TypeOK
<1>2. FdInv'
  BY DEF RefInv, FdInv, fds
<1>3. ASSUME NEW s \in Sector
      PROVE  /\ open_cnt'[s] \in Nat
             /\ open_cnt'[s] >= Cardinality(Within(s)') + Cardinality(Using(s)')
  <2>1. Using(s)' = Using(s)
    BY DEF Using, Listed, fds
  <2>2. open_cnt[s] >= Cardinality(Within(s)) + Cardinality(Using(s)) /\ open_cnt[s] \in Nat
    BY <1>1 DEF RefInv, CountInv
  <2>3. IsFiniteSet(Within(s)) /\ Cardinality(Within(s)) \in Nat /\ Cardinality(Using(s)) \in Nat
    BY RefsFinite
  <2>4. CASE s = t /\ s = wd[p]
    <3>1. open_cnt'[s] = open_cnt[s]
      BY <1>1, <2>4
    <3>2. Within(s)' = Within(s)
      BY <1>1, <2>4 DEF Within
    <3>3. QED
      BY <2>1, <2>2, <2>3, <3>1, <3>2
  <2>5. CASE s = t /\ s # wd[p]
    <3>1. open_cnt'[s] = open_cnt[s] + 1
      BY <1>1, <2>5
    <3>2. Within(s)' = Within(s) \cup {p} /\ p \notin Within(s)
      BY <1>1, <2>5 DEF Within
    <3>3. Cardinality(Within(s)') = Cardinality(Within(s)) + 1
      BY <2>3, <3>2, FS_AddElement
    <3>4. QED
      BY <2>1, <2>2, <2>3, <3>1, <3>3
  <2>6. CASE s # t /\ s = wd[p]
    <3>1. open_cnt'[s] = open_cnt[s] - 1
      BY <1>1, <2>6
    <3>2. Within(s)' = Within(s) \ {p} /\ p \in Within(s)
      BY <1>1, <2>6 DEF Within
    <3>3. /\ Cardinality(Within(s)') = Cardinality(Within(s)) - 1
          /\ Cardinality(Within(s)') \in Nat
      BY <2>3, <3>2, FS_RemoveElement, FS_CardinalityType
    <3>4. QED
      BY <2>1, <2>2, <2>3, <3>1, <3>3
  <2>7. CASE s # t /\ s # wd[p]
    <3>1. open_cnt'[s] = open_cnt[s]
      BY <1>1, <2>7
    <3>2. Within(s)' = Within(s)
      BY <1>1, <2>7 DEF Within
    <3>3. QED
      BY <2>1, <2>2, <2>3, <3>1, <3>2
  <2>8. QED
    BY <2>4, <2>5, <2>6, <2>7
<1>4. open_cnt' \in [Sector -> Nat]
  <2>1. DOMAIN open_cnt' = Sector /\ open_cnt' = [s \in Sector |-> open_cnt'[s]]
    BY <1>1
  <2>2. QED
    BY <1>3, <2>1
<1>5. QED
  BY <1>2, <1>3, <1>4 DEF RefInv, CountInv

-----------------------------------------------------------------------------
(***************************************************************************)
(* Directories.                                                            *)
(***************************************************************************)

\* What a lookup answers.
LEMMA LookupIs ==
    ASSUME TypeOK, NEW d \in Sector, NEW name
    PROVE  \/ /\ lookup(d, name) = NULL
              /\ \A i \in InUse(d) : entries[d][i].name # name
           \/ /\ lookup(d, name) \in Sector
              /\ \E i \in InUse(d) : /\ entries[d][i].name = name
                                     /\ entries[d][i].sector = lookup(d, name)
<1> DEFINE hit == {i \in DOMAIN entries[d] : entries[d][i].in_use /\ entries[d][i].name = name}
<1>1. entries[d] \in Seq(DirEntry)
  BY DEF TypeOK
<1>2. hit \subseteq InUse(d) /\ InUse(d) \subseteq DOMAIN entries[d]
  BY DEF InUse
<1>3. DOMAIN entries[d] \subseteq Nat
  BY <1>1
<1>4. lookup(d, name) = IF hit = {} THEN NULL ELSE entries[d][least(hit)].sector
  BY DEF lookup
<1>5. CASE hit = {}
  BY <1>4, <1>5 DEF InUse
<1>6. CASE hit # {}
  <2>1. least(hit) \in hit
    BY <1>2, <1>3, <1>6, LeastIn
  <2>2. entries[d][least(hit)] \in DirEntry
    <3>1. ASSUME NEW i \in DOMAIN entries[d] PROVE entries[d][i] \in DirEntry
      BY <1>1
    <3>2. least(hit) \in DOMAIN entries[d]
      BY <1>2, <2>1
    <3>3. QED
      BY <3>1, <3>2
  <2>3. entries[d][least(hit)].sector \in Sector
    BY <2>2 DEF DirEntry
  <2>4. entries[d][least(hit)].name = name
    BY <2>1
  <2>5. lookup(d, name) = entries[d][least(hit)].sector
    BY <1>4, <1>6
  <2>6. QED
    BY <1>2, <2>1, <2>3, <2>4, <2>5
<1>7. QED
  BY <1>5, <1>6

LEMMA EntryIs ==
    ASSUME TypeOK, NEW d \in Sector, NEW i \in InUse(d)
    PROVE  entries[d][i].sector \in Sector
<1>1. entries[d] \in Seq(DirEntry) /\ i \in DOMAIN entries[d]
  BY DEF TypeOK, InUse
<1>2. ASSUME NEW es \in Seq(DirEntry), NEW k \in DOMAIN es PROVE es[k] \in DirEntry
  OBVIOUS
<1>3. entries[d][i] \in DirEntry
  BY <1>1, <1>2
<1>4. QED
  BY <1>3 DEF DirEntry

\* dir_add() fills a slot that is not in use, or one behind the last.
LEMMA AddedEntry ==
    ASSUME NEW es \in Seq(DirEntry), NEW name \in Name, NEW s \in Sector
    PROVE  /\ WithEntry(es, name, s) \in Seq(DirEntry)
           /\ \E k \in 1..(Len(es) + 1) :
                /\ DOMAIN WithEntry(es, name, s) = DOMAIN es \cup {k}
                /\ k \in DOMAIN es => ~ es[k].in_use
                /\ WithEntry(es, name, s)[k] = [name |-> name, sector |-> s, in_use |-> TRUE]
                /\ \A i \in DOMAIN es \ {k} : WithEntry(es, name, s)[i] = es[i]
<1> DEFINE unused == {i \in DOMAIN es : ~ es[i].in_use}
           e == [name |-> name, sector |-> s, in_use |-> TRUE]
<1>1. e \in DirEntry
  BY DEF DirEntry
<1>2. DOMAIN es = 1..Len(es) /\ Len(es) \in Nat /\ DOMAIN es \subseteq Nat
  OBVIOUS
<1>3. WithEntry(es, name, s) = IF unused = {} THEN Append(es, e)
                               ELSE [es EXCEPT ![least(unused)] = e]
  BY DEF WithEntry
<1>4. unused # {} => least(unused) \in DOMAIN es /\ ~ es[least(unused)].in_use
  BY <1>2, LeastIn
<1> HIDE DEF unused, e
<1>5. CASE unused = {}
  <2>1. /\ Append(es, e) \in Seq(DirEntry) /\ Len(Append(es, e)) = Len(es) + 1
        /\ Append(es, e)[Len(es) + 1] = e
        /\ \A i \in 1..Len(es) : Append(es, e)[i] = es[i]
    BY <1>1
  <2>2. DOMAIN Append(es, e) = DOMAIN es \cup {Len(es) + 1} /\ Len(es) + 1 \notin DOMAIN es
    BY <1>2, <2>1
  <2>3. QED
    BY <1>2, <1>3, <1>5, <2>1, <2>2 DEF e
<1>6. CASE unused # {}
  <2> DEFINE k == least(unused)
  <2>1. k \in DOMAIN es /\ ~ es[k].in_use /\ k \in 1..(Len(es) + 1)
    BY <1>2, <1>4, <1>6
  <2> HIDE DEF k
  <2>2. /\ [es EXCEPT ![k] = e] \in Seq(DirEntry)
        /\ DOMAIN [es EXCEPT ![k] = e] = DOMAIN es
        /\ [es EXCEPT ![k] = e][k] = e
        /\ \A i \in DOMAIN es \ {k} : [es EXCEPT ![k] = e][i] = es[i]
    BY <1>1, <2>1
  <2>3. WithEntry(es, name, s) = [es EXCEPT ![k] = e]
    BY <1>3, <1>6 DEF k
  <2>4. DOMAIN es \cup {k} = DOMAIN es
    BY <2>1
  <2>5. WithEntry(es, name, s)[k] = [name |-> name, sector |-> s, in_use |-> TRUE]
    BY <2>2, <2>3 DEF e
  <2>6. DOMAIN WithEntry(es, name, s) = DOMAIN es \cup {k}
    BY <2>2, <2>3, <2>4
  <2>7. /\ WithEntry(es, name, s) \in Seq(DirEntry)
        /\ \A i \in DOMAIN es \ {k} : WithEntry(es, name, s)[i] = es[i]
    BY <2>2, <2>3
  <2>8. QED
    BY <2>1, <2>5, <2>6, <2>7, Zenon
<1>7. QED
  BY <1>5, <1>6

\* dir_remove() only clears in_use.
LEMMA ErasedEntry ==
    ASSUME NEW es \in Seq(DirEntry), NEW name
    PROVE  /\ WithoutEntry(es, name) \in Seq(DirEntry)
           /\ DOMAIN WithoutEntry(es, name) = DOMAIN es
           /\ \A i \in DOMAIN es :
                /\ es[i].name # name => WithoutEntry(es, name)[i] = es[i]
                /\ es[i].name = name => ~ WithoutEntry(es, name)[i].in_use
<1> DEFINE f(i) == IF es[i].name = name THEN [es[i] EXCEPT !.in_use = FALSE] ELSE es[i]
<1>1. ASSUME NEW i \in DOMAIN es
      PROVE  /\ f(i) \in DirEntry
             /\ es[i].name # name => f(i) = es[i]
             /\ es[i].name = name => ~ f(i).in_use
  <2>1. es[i] \in DirEntry
    OBVIOUS
  <2>2. [es[i] EXCEPT !.in_use = FALSE] \in DirEntry /\ ~ [es[i] EXCEPT !.in_use = FALSE].in_use
    BY <2>1 DEF DirEntry
  <2>3. QED
    BY <2>1, <2>2
<1>2. WithoutEntry(es, name) = [i \in DOMAIN es |-> f(i)]
  BY DEF WithoutEntry
<1> HIDE DEF f
<1>3. DOMAIN es = 1..Len(es) /\ Len(es) \in Nat
  OBVIOUS
<1>4. [i \in DOMAIN es |-> f(i)] \in Seq(DirEntry)
  BY <1>1, <1>3
<1>5. QED
  BY <1>1, <1>2, <1>4


\* An inode that is neither removed nor freed.
Linked(s) == s \in Sector /\ s \notin gone

\* A name of a linked directory leads to a linked inode.
LEMMA LookupLinked ==
    ASSUME TypeOK, TreeInv, ROOT_DIR_SECTOR \notin freed, NEW d, Linked(d), NEW name
    PROVE  lookup(d, name) = NULL \/ Linked(lookup(d, name))
<1>1. d \in Sector /\ d \notin freed
  BY DEF Linked, gone
<1>2. Linked(ROOT_DIR_SECTOR)
  BY Marker DEF TreeInv, KindInv, Linked, gone
<1>3. CASE lookup(d, name) # NULL
  <2>1. PICK i \in InUse(d) : entries[d][i].sector = lookup(d, name)
    BY <1>1, <1>3, LookupIs
  <2>2. lookup(d, name) # ROOT_DIR_SECTOR => lookup(d, name) \notin gone
    BY <1>1, <2>1 DEF TreeInv, EntryInv
  <2>3. lookup(d, name) \in Sector
    BY <1>1, <1>3, LookupIs
  <2>4. QED
    BY <1>2, <2>2, <2>3 DEF Linked
<1>4. QED
  BY <1>3

\* A path leads through linked directories only.
LEMMA WalkLinked ==
    ASSUME TypeOK, TreeInv, ROOT_DIR_SECTOR \notin freed,
           NEW p \in Proc, NEW path, NEW n \in Nat, NEW skipDot \in BOOLEAN
    PROVE  Walk(p, path, n, skipDot) = NULL \/ Linked(Walk(p, path, n, skipDot))
<1> DEFINE base == IF path.abs THEN ROOT_DIR_SECTOR ELSE wd[p]
           hop(d, i) == Hop(d, path.names[i], skipDot)
           Steps(f, m) == f = [i \in 0..m |-> IF i = 0 THEN base ELSE hop(f[i - 1], i)]
           Fine(d) == d = NULL \/ Linked(d)
<1>1. Walk(p, path, n, skipDot) = (CHOOSE f : Steps(f, n))[n]
  BY DEF Walk
<1>2. Fine(base)
  <2>1. Linked(ROOT_DIR_SECTOR)
    BY Marker DEF TreeInv, KindInv, Linked, gone
  <2>2. Linked(wd[p])
    BY DEF TypeOK, TreeInv, KindInv, WdInv, Linked, gone
  <2>3. QED
    BY <2>1, <2>2
<1>3. ASSUME NEW d, NEW i, Fine(d) PROVE Fine(hop(d, i))
  BY <1>3, LookupLinked DEF Hop
<1> HIDE DEF base, hop, Fine
<1>4. \E f : Steps(f, n)
  <2> DEFINE bad == {m \in Nat : ~ \E f : Steps(f, m)}
  <2>1. SUFFICES ASSUME bad # {} PROVE FALSE
    OBVIOUS
  <2>2. PICK m \in bad : \A k \in bad : m <= k
    BY <2>1, LeastIn
  <2>3. m \in Nat /\ ~ \E f : Steps(f, m)
    OBVIOUS
  <2>4. CASE m = 0
    <3>1. Steps([i \in 0..0 |-> base], 0)
      OBVIOUS
    <3>2. QED
      BY <2>3, <2>4, <3>1
  <2>5. CASE m > 0
    <3>1. m - 1 \in Nat /\ ~ (m <= m - 1)
      BY <2>3, <2>5
    <3>2. PICK f : Steps(f, m - 1)
      BY <2>2, <3>1
    <3> DEFINE g == [i \in 0..m |-> IF i < m THEN f[i] ELSE hop(f[m - 1], m)]
    <3>3. ASSUME NEW i \in 0..m
          PROVE  g[i] = IF i = 0 THEN base ELSE hop(g[i - 1], i)
      <4>1. CASE i = 0
        BY <2>3, <2>5, <3>2, <4>1
      <4>2. CASE i > 0 /\ i < m
        <5>1. i \in 0..(m - 1) /\ i - 1 \in 0..m /\ i - 1 < m /\ i # 0
          BY <2>3, <4>2
        <5>2. f[i] = hop(f[i - 1], i)
          BY <3>2, <5>1
        <5>3. g[i] = f[i] /\ g[i - 1] = f[i - 1]
          BY <4>2, <5>1
        <5>4. QED
          BY <5>1, <5>2, <5>3
      <4>3. CASE i = m
        <5>1. m - 1 \in 0..m /\ m - 1 < m /\ m # 0
          BY <2>3, <2>5
        <5>2. g[m] = hop(f[m - 1], m) /\ g[m - 1] = f[m - 1]
          BY <2>3, <5>1
        <5>3. QED
          BY <4>3, <5>1, <5>2
      <4>4. QED
        BY <2>3, <4>1, <4>2, <4>3
    <3>4. Steps(g, m)
      <4>1. DOMAIN g = 0..m /\ g = [i \in 0..m |-> g[i]]
        OBVIOUS
      <4> HIDE DEF g
      <4>2. [i \in 0..m |-> g[i]] = [i \in 0..m |-> IF i = 0 THEN base ELSE hop(g[i - 1], i)]
        BY <3>3
      <4>3. QED
        BY <4>1, <4>2
    <3>5. QED
      BY <2>3, <3>4
  <2>6. QED
    BY <2>3, <2>4, <2>5
<1>5. PICK f : f = (CHOOSE g : Steps(g, n)) /\ Steps(f, n)
  BY <1>4
<1>6. ASSUME NEW i \in 0..n PROVE Fine(f[i])
  <2> DEFINE bad == {k \in 0..n : ~ Fine(f[k])}
  <2>1. SUFFICES ASSUME bad # {} PROVE FALSE
    OBVIOUS
  <2>2. bad \subseteq Nat
    OBVIOUS
  <2>3. PICK k \in bad : \A j \in bad : k <= j
    BY <2>1, <2>2, LeastIn
  <2>4. k \in 0..n /\ ~ Fine(f[k])
    OBVIOUS
  <2>5. CASE k = 0
    BY <1>2, <1>5, <2>4, <2>5
  <2>6. CASE k > 0
    <3>1. k - 1 \in 0..n /\ ~ (k <= k - 1)
      BY <2>4, <2>6
    <3>2. Fine(f[k - 1])
      BY <2>3, <3>1
    <3>3. f[k] = hop(f[k - 1], k)
      <4>1. f = [x \in 0..n |-> IF x = 0 THEN base ELSE hop(f[x - 1], x)]
        BY <1>5
      <4>2. f[k] = IF k = 0 THEN base ELSE hop(f[k - 1], k)
        BY <2>4, <4>1
      <4>3. k # 0
        BY <2>4, <2>6
      <4>4. QED
        BY <4>2, <4>3
    <3>4. QED
      BY <1>3, <2>4, <3>2, <3>3
  <2>7. QED
    BY <2>4, <2>5, <2>6
<1>7. QED
  BY <1>1, <1>5, <1>6 DEF Fine


\* The calls that change no directory; a close may turn removed into freed.
LEMMA TreeKept ==
    ASSUME TypeOK, TreeInv, UNCHANGED disk,
           removed' \cup freed' = removed \cup freed,
           removed' \subseteq removed, freed \subseteq freed',
           \A p \in Proc : kind[wd'[p]] = "dir" /\ wd'[p] \notin gone
    PROVE  TreeInv'
<1>1. kind' = kind /\ entries' = entries /\ free' = free
  BY DEF disk
<1>2. \A s \in Sector : InUse(s)' = InUse(s)
  BY <1>1 DEF InUse
<1>3. gone' = gone
  BY DEF gone
<1>4. ASSUME NEW s, kind[s] = "dir", s \in freed' PROVE s \in freed
  BY <1>4 DEF TreeInv, KindInv
<1>5. ROOT_DIR_SECTOR \in freed' <=> ROOT_DIR_SECTOR \in freed
  BY <1>4 DEF TreeInv, KindInv
<1>6. FreeInv' /\ KindInv'
  BY <1>1, <1>3 DEF TreeInv, FreeInv, KindInv
<1>7. EntryInv'
  BY <1>1, <1>2, <1>3 DEF TreeInv, EntryInv
<1>8. NameInv' /\ LinkInv'
  BY <1>1, <1>2 DEF TreeInv, NameInv, LinkInv
<1>9. DotsInv'
  BY <1>1, <1>2, <1>5, Marker DEF TreeInv, DotsInv
<1>10. UpInv'
  <2>1. ASSUME NEW s \in Sector, kind[s] = "dir", s # ROOT_DIR_SECTOR, s \notin freed',
               ROOT_DIR_SECTOR \notin freed
        PROVE  LET r == entries[s][2].sector IN
               kind[r] = "dir" /\ r \notin freed' /\ Names(r, s)'
    <3> DEFINE r == entries[s][2].sector
    <3>1. kind[r] = "dir" /\ r \notin freed /\ Names(r, s)
      BY <2>1 DEF TreeInv, UpInv
    <3>2. InUse(r)' = InUse(r)
      BY <1>1 DEF InUse
    <3>3. QED
      BY <1>1, <1>4, <3>1, <3>2 DEF Names
  <2>2. CASE ROOT_DIR_SECTOR \in freed'
    BY <2>2 DEF UpInv
  <2>3. CASE ROOT_DIR_SECTOR \notin freed'
    <3>1. ASSUME NEW s \in Sector, kind'[s] = "dir", s # ROOT_DIR_SECTOR, s \notin freed'
          PROVE  LET r == entries'[s][2].sector IN
                 kind'[r] = "dir" /\ r \notin freed' /\ Names(entries[s][2].sector, s)'
      BY <1>1, <1>5, <2>1, <2>3, <3>1
    <3>2. QED
      BY <3>1 DEF UpInv
  <2>4. QED
    BY <2>2, <2>3
<1>11. WdInv'
  BY <1>1, <1>3 DEF WdInv, gone
<1>12. QED
  BY <1>6, <1>7, <1>8, <1>9, <1>10, <1>11 DEF TreeInv


\* A new inode s and its name in directory d.
Dots(s, d) == <<[name |-> ".", sector |-> s, in_use |-> TRUE],
                [name |-> "..", sector |-> d, in_use |-> TRUE]>>

Added(d, name, s, k) ==
  /\ k \notin InUse(d) /\ InUse(d)' = InUse(d) \cup {k}
  /\ entries'[d][k] = [name |-> name, sector |-> s, in_use |-> TRUE]
  /\ \A i \in InUse(d) : entries'[d][i] = entries[d][i]

LEMMA AddedIs ==
    ASSUME TypeOK, NEW d \in Sector, NEW name \in Name, NEW s \in Sector,
           entries'[d] = WithEntry(entries[d], name, s)
    PROVE  \E k : Added(d, name, s, k)
<1> DEFINE es == entries[d]
           ws == WithEntry(es, name, s)
<1>1. es \in Seq(DirEntry)
  BY DEF TypeOK
<1> HIDE DEF es
<1>2. PICK k \in 1..(Len(es) + 1) :
                /\ DOMAIN ws = DOMAIN es \cup {k}
                /\ k \in DOMAIN es => ~ es[k].in_use
                /\ ws[k] = [name |-> name, sector |-> s, in_use |-> TRUE]
                /\ \A i \in DOMAIN es \ {k} : ws[i] = es[i]
  BY <1>1, AddedEntry
<1>3. InUse(d) = {i \in DOMAIN es : es[i].in_use} /\ InUse(d)' = {i \in DOMAIN ws : ws[i].in_use}
  BY DEF InUse, es
<1> HIDE DEF ws
<1>4. k \notin InUse(d) /\ ws[k].in_use
  BY <1>2, <1>3
<1>5. InUse(d)' = InUse(d) \cup {k}
  BY <1>2, <1>3, <1>4
<1>6. \A i \in InUse(d) : ws[i] = es[i]
  BY <1>2, <1>3, <1>4
<1>7. QED
  BY <1>2, <1>4, <1>5, <1>6 DEF Added, es, ws

NewInode(d, name, s, type) ==
  /\ kind' = [kind EXCEPT ![s] = type] /\ free' = free \ {s}
  /\ entries'[d] = WithEntry(entries[d], name, s)
  /\ entries'[s] = IF type = "dir" THEN Dots(s, d) ELSE <<>>
  /\ \A r \in Sector \ {d, s} : entries'[r] = entries[r]

LEMMA AddTree ==
    ASSUME TypeOK, TreeInv, ROOT_DIR_SECTOR \notin freed, kind[FREE_MAP_SECTOR] = "map",
           NEW d, Linked(d), kind[d] = "dir",
           NEW name \in Name, ProperName(name), lookup(d, name) = NULL,
           NEW s \in Sector, NEW type \in {"file", "dir"},
           s \in free \/ (s = FREE_MAP_SECTOR /\ type = "file"),
           NewInode(d, name, s, type), UNCHANGED <<mem, wd>>
    PROVE  TreeInv'
<1>0. /\ kind' = [kind EXCEPT ![s] = type] /\ free' = free \ {s}
      /\ entries'[d] = WithEntry(entries[d], name, s)
      /\ entries'[s] = IF type = "dir" THEN Dots(s, d) ELSE <<>>
      /\ \A r \in Sector \ {d, s} : entries'[r] = entries[r]
  BY DEF NewInode
<1>1. removed' = removed /\ freed' = freed /\ wd' = wd /\ gone' = gone
  BY DEF mem, gone
<1>2. /\ d \in Sector /\ d \notin freed /\ d \notin gone /\ d # FREE_MAP_SECTOR
      /\ s # d /\ s # ROOT_DIR_SECTOR /\ s \notin gone /\ kind[s] # "dir" /\ entries[s] = <<>>
      /\ d \notin free /\ (s = FREE_MAP_SECTOR => type = "file")
  BY Marker DEF Linked, gone, TreeInv, FreeInv, KindInv
<1>3. PICK k : Added(d, name, s, k)
  BY <1>0, <1>2, AddedIs
<1>4. InUse(s) = {} /\ \A r \in Sector \ {d, s} : InUse(r)' = InUse(r)
  BY <1>0, <1>2 DEF InUse
<1>5. InUse(s)' = IF type = "dir" THEN {1, 2} ELSE {}
  <2>1. CASE type = "dir"
    <3>1. entries'[s] = Dots(s, d)
      BY <1>0, <2>1
    <3>2. /\ DOMAIN Dots(s, d) = {1, 2}
          /\ Dots(s, d)[1].in_use /\ Dots(s, d)[2].in_use
      BY DEF Dots
    <3>3. QED
      BY <2>1, <3>1, <3>2 DEF InUse
  <2>2. CASE type = "file"
    BY <1>0, <2>2 DEF InUse
  <2>3. QED
    BY <2>1, <2>2
<1>6. type = "dir" => /\ entries'[s][1].name = "." /\ entries'[s][1].sector = s
                      /\ entries'[s][2].name = ".." /\ entries'[s][2].sector = d
  BY <1>0 DEF Dots
<1>7. \A r \in Sector : kind'[r] = IF r = s THEN type ELSE kind[r]
  BY <1>0 DEF TypeOK
\* Old entries stay as they were.
<1>8. ASSUME NEW r \in Sector, NEW i \in InUse(r)
      PROVE  r # s /\ i \in InUse(r)' /\ entries'[r][i] = entries[r][i]
  BY <1>0, <1>3, <1>4 DEF Added
\* The entries are the old ones, the new name, and the two of a new directory.
<1>9. ASSUME NEW r \in Sector, NEW i \in InUse(r)'
      PROVE  \/ r # s /\ i \in InUse(r) /\ entries'[r][i] = entries[r][i]
             \/ r = d /\ i = k /\ entries'[r][i].name = name /\ entries'[r][i].sector = s
             \/ /\ r = s /\ type = "dir" /\ i = 1
                /\ entries'[r][i].name = "." /\ entries'[r][i].sector = s
             \/ /\ r = s /\ type = "dir" /\ i = 2
                /\ entries'[r][i].name = ".." /\ entries'[r][i].sector = d
  <2>1. CASE r = s
    BY <1>5, <1>6, <2>1
  <2>2. CASE r = d
    <3>1. entries'[d][k].name = name /\ entries'[d][k].sector = s
      BY <1>3 DEF Added
    <3>2. i \in InUse(d) \/ i = k
      BY <1>3, <2>2 DEF Added
    <3>3. QED
      BY <1>2, <1>8, <2>2, <3>1, <3>2
  <2>3. CASE r \notin {d, s}
    BY <1>4, <1>8, <2>3
  <2>4. QED
    BY <2>1, <2>2, <2>3
<1>10. ~ ProperName(".") /\ ~ ProperName("..") /\ "." # ".."
  BY DEF ProperName
<1>11. FreeInv'
  BY <1>0, <1>1, <1>7 DEF TreeInv, TypeOK, FreeInv
<1>12. KindInv'
  <2>1. ASSUME NEW r \in Sector, kind'[r] # "dir" PROVE entries'[r] = <<>>
    BY <1>0, <1>2, <1>7, <2>1 DEF TreeInv, KindInv
  <2>2. ASSUME NEW r \in removed PROVE kind'[r] # "dir"
    <3>1. r \in Sector /\ r # s
      BY <1>2 DEF gone, TypeOK
    <3>2. QED
      BY <1>7, <3>1 DEF TreeInv, KindInv
  <2>3. kind'[ROOT_DIR_SECTOR] = "dir" /\ kind'[FREE_MAP_SECTOR] # "dir"
    BY <1>2, <1>7, Marker DEF TreeInv, KindInv
  <2>4. QED
    BY <1>1, <2>1, <2>2, <2>3 DEF TreeInv, KindInv
<1>13. EntryInv'
  <2>1. ASSUME NEW r \in Sector, NEW i \in InUse(r)'
        PROVE  /\ entries'[r][i].sector \notin free'
               /\ r \notin freed' /\ entries'[r][i].sector # ROOT_DIR_SECTOR =>
                    entries'[r][i].sector \notin gone'
               /\ ProperName(entries'[r][i].name) => entries'[r][i].sector # ROOT_DIR_SECTOR
               /\ kind'[FREE_MAP_SECTOR] = "map" => entries'[r][i].sector # FREE_MAP_SECTOR
    <3>1. CASE r # s /\ i \in InUse(r) /\ entries'[r][i] = entries[r][i]
      BY <1>0, <1>1, <1>2, <3>1 DEF TreeInv, EntryInv
    <3>2. CASE entries'[r][i].sector = s
      <4>1. (s = FREE_MAP_SECTOR) => kind'[FREE_MAP_SECTOR] # "map"
        BY <1>2, <1>7
      <4>2. QED
        BY <1>0, <1>1, <1>2, <3>2, <4>1
    <3>3. CASE entries'[r][i].name = ".." /\ entries'[r][i].sector = d
      BY <1>0, <1>1, <1>2, <1>10, <3>3
    <3>4. QED
      BY <1>9, <3>1, <3>2, <3>3
  <2>2. QED
    BY <2>1 DEF EntryInv
<1>14. NameInv'
  <2>1. ASSUME NEW r \in Sector, NEW i \in InUse(r)', NEW j \in InUse(r)',
               entries'[r][i].name = entries'[r][j].name
        PROVE  i = j
    <3>1. ASSUME NEW h \in InUse(d) PROVE entries[d][h].name # name
      BY <1>2, LookupIs, Marker
    <3>2. CASE i \in InUse(r) /\ j \in InUse(r)
      BY <1>8, <2>1, <3>2 DEF TreeInv, NameInv
    <3>3. CASE r = s
      BY <1>5, <1>6, <2>1, <3>3, <1>10
    <3>4. CASE r = d /\ i = k /\ entries'[r][i].name = name /\ j \in InUse(d)
      BY <1>2, <1>8, <2>1, <3>1, <3>4
    <3>5. CASE r = d /\ j = k /\ entries'[r][j].name = name /\ i \in InUse(d)
      BY <1>2, <1>8, <2>1, <3>1, <3>5
    <3>6. QED
      BY <1>9, <3>2, <3>3, <3>4, <3>5
  <2>2. QED
    BY <2>1 DEF NameInv
<1>15. LinkInv'
  <2>1. ASSUME NEW r \in Sector, NEW q \in Sector, NEW i \in InUse(r)', NEW j \in InUse(q)',
               ProperName(entries'[r][i].name), ProperName(entries'[q][j].name),
               entries'[r][i].sector = entries'[q][j].sector,
               entries'[r][i].sector # FREE_MAP_SECTOR
        PROVE  r = q /\ i = j
    <3>1. ASSUME NEW u \in Sector, NEW h \in InUse(u) PROVE entries[u][h].sector # s
      BY DEF TreeInv, EntryInv
    <3>2. CASE i \in InUse(r) /\ j \in InUse(q)
      BY <1>8, <2>1, <3>2 DEF TreeInv, LinkInv
    <3>3. CASE r = d /\ i = k /\ entries'[r][i].sector = s
      <4>1. q = d /\ j = k
        BY <1>8, <1>9, <1>10, <2>1, <3>1, <3>3
      <4>2. QED
        BY <3>3, <4>1
    <3>4. CASE q = d /\ j = k /\ entries'[q][j].sector = s
      <4>1. r = d /\ i = k
        BY <1>8, <1>9, <1>10, <2>1, <3>1, <3>4
      <4>2. QED
        BY <3>4, <4>1
    <3>5. QED
      BY <1>9, <1>10, <2>1, <3>2, <3>3, <3>4
  <2>2. QED
    BY <2>1 DEF LinkInv
<1>16. DotsInv'
  <2>1. ASSUME NEW i \in InUse(ROOT_DIR_SECTOR)'
        PROVE  ProperName(entries'[ROOT_DIR_SECTOR][i].name)
    <3>1. \/ i \in InUse(ROOT_DIR_SECTOR) /\ entries'[ROOT_DIR_SECTOR][i] = entries[ROOT_DIR_SECTOR][i]
          \/ entries'[ROOT_DIR_SECTOR][i].name = name
      BY <1>2, <1>9, Marker
    <3>2. QED
      BY <3>1 DEF TreeInv, DotsInv
  <2>2. ASSUME NEW r \in Sector, kind'[r] = "dir", r # ROOT_DIR_SECTOR
        PROVE  /\ 1 \in InUse(r)' /\ entries'[r][1].name = "." /\ entries'[r][1].sector = r
               /\ 2 \in InUse(r)' /\ entries'[r][2].name = ".."
    <3>1. CASE r = s
      BY <1>5, <1>6, <1>7, <2>2, <3>1
    <3>2. CASE r # s
      <4>1. /\ 1 \in InUse(r) /\ entries[r][1].name = "." /\ entries[r][1].sector = r
            /\ 2 \in InUse(r) /\ entries[r][2].name = ".."
        BY <1>7, <2>2, <3>2 DEF TreeInv, DotsInv
      <4>2. QED
        BY <1>8, <4>1
    <3>3. QED
      BY <3>1, <3>2
  <2>3. QED
    BY <2>1, <2>2 DEF DotsInv
<1>17. UpInv'
  <2>1. ASSUME NEW r \in Sector, kind'[r] = "dir", r # ROOT_DIR_SECTOR, r \notin freed,
               NEW u, u = entries'[r][2].sector
        PROVE  kind'[u] = "dir" /\ u \notin freed /\ Names(u, r)'
    <3>1. CASE r = s
      <4>1. u = d /\ kind'[d] = "dir" /\ d \notin freed
        BY <1>2, <1>6, <1>7, <2>1, <3>1
      <4>2. k \in InUse(d)' /\ entries'[d][k].name = name /\ entries'[d][k].sector = s
        BY <1>3 DEF Added
      <4>3. Names(d, s)'
        BY <4>2 DEF Names
      <4>4. QED
        BY <3>1, <4>1, <4>3
    <3>2. CASE r # s
      <4>1. kind[r] = "dir"
        BY <1>7, <2>1, <3>2
      <4>2. 2 \in InUse(r)
        BY <2>1, <4>1 DEF TreeInv, DotsInv
      <4>3. entries[r][2].sector = u
        BY <1>8, <2>1, <4>2
      <4>4. kind[u] = "dir" /\ u \notin freed /\ Names(u, r)
        BY <2>1, <4>1, <4>3 DEF TreeInv, UpInv
      <4>5. u \in Sector
        BY <4>2, <4>3, EntryIs
      <4>6. kind'[u] = "dir"
        BY <1>2, <1>7, <4>4, <4>5
      <4>7. PICK j \in InUse(u) : ProperName(entries[u][j].name) /\ entries[u][j].sector = r
        BY <4>4 DEF Names
      <4>8. j \in InUse(u)' /\ entries'[u][j] = entries[u][j]
        BY <1>8, <4>5
      <4>9. Names(u, r)'
        BY <4>7, <4>8 DEF Names
      <4>10. QED
        BY <4>4, <4>6, <4>9
    <3>3. QED
      BY <3>1, <3>2
  <2>2. QED
    BY <1>1, <2>1 DEF UpInv, Names
<1>18. WdInv'
  <2>1. ASSUME NEW p \in Proc PROVE kind'[wd[p]] = "dir" /\ wd[p] \notin freed
    <3>1. wd[p] \in Sector /\ kind[wd[p]] = "dir" /\ wd[p] \notin freed
      BY DEF TypeOK, TreeInv, WdInv
    <3>2. QED
      BY <1>2, <1>7, <3>1
  <2>2. QED
    BY <1>1, <2>1 DEF WdInv
<1>19. QED
  BY <1>11, <1>12, <1>13, <1>14, <1>15, <1>16, <1>17, <1>18 DEF TreeInv


\* What three entries in use mean for the test of sys_remove().
LEMMA CountEntries ==
    ASSUME TypeOK, NEW t \in Sector
    PROVE  /\ Cardinality(InUse(t)) \in Nat
           /\ \A i \in InUse(t) : Cardinality(InUse(t)) >= 1
           /\ \A i, j \in InUse(t) : i # j => Cardinality(InUse(t)) >= 2
           /\ \A i, j, k \in InUse(t) : i # j /\ i # k /\ j # k => Cardinality(InUse(t)) >= 3
<1>1. IsFiniteSet(InUse(t))
  <2>1. entries[t] \in Seq(DirEntry)
    BY DEF TypeOK
  <2>2. DOMAIN entries[t] = 1..Len(entries[t]) /\ Len(entries[t]) \in Nat
    BY <2>1
  <2>3. IsFiniteSet(1..Len(entries[t]))
    <3>1. \A n \in Nat : IsFiniteSet(1..n)
      BY FS_Interval
    <3>2. QED
      BY <2>2, <3>1
  <2>4. InUse(t) \subseteq 1..Len(entries[t])
    BY <2>2 DEF InUse
  <2>5. QED
    BY <2>3, <2>4, FS_Subset
<1>2. Cardinality(InUse(t)) \in Nat
  BY <1>1, FS_CardinalityType
<1>3. ASSUME NEW i \in InUse(t)
      PROVE  /\ Cardinality(InUse(t)) >= 1
             /\ IsFiniteSet(InUse(t) \ {i})
             /\ Cardinality(InUse(t)) = Cardinality(InUse(t) \ {i}) + 1
             /\ Cardinality(InUse(t) \ {i}) \in Nat
  <2>1. /\ IsFiniteSet(InUse(t) \ {i})
        /\ Cardinality(InUse(t) \ {i}) = Cardinality(InUse(t)) - 1
    BY <1>1, FS_RemoveElement
  <2>2. Cardinality(InUse(t) \ {i}) \in Nat
    BY <2>1, FS_CardinalityType
  <2>3. QED
    BY <1>2, <2>1, <2>2
<1>4. ASSUME NEW i \in InUse(t), NEW j \in InUse(t), i # j
      PROVE  /\ Cardinality(InUse(t)) >= 2
             /\ IsFiniteSet((InUse(t) \ {i}) \ {j})
             /\ Cardinality(InUse(t)) = Cardinality((InUse(t) \ {i}) \ {j}) + 2
             /\ Cardinality((InUse(t) \ {i}) \ {j}) \in Nat
  <2>1. j \in InUse(t) \ {i} /\ IsFiniteSet(InUse(t) \ {i})
    BY <1>3, <1>4
  <2>2. /\ IsFiniteSet((InUse(t) \ {i}) \ {j})
        /\ Cardinality((InUse(t) \ {i}) \ {j}) = Cardinality(InUse(t) \ {i}) - 1
    BY <2>1, FS_RemoveElement
  <2>3. Cardinality((InUse(t) \ {i}) \ {j}) \in Nat
    BY <2>2, FS_CardinalityType
  <2>4. /\ Cardinality(InUse(t)) = Cardinality(InUse(t) \ {i}) + 1
        /\ Cardinality(InUse(t) \ {i}) \in Nat
    BY <1>3
  <2>5. Cardinality(InUse(t)) = Cardinality((InUse(t) \ {i}) \ {j}) + 2
    BY <2>2, <2>3, <2>4
  <2>6. QED
    BY <2>2, <2>3, <2>5
<1>5. ASSUME NEW i \in InUse(t), NEW j \in InUse(t), NEW k \in InUse(t), i # j, i # k, j # k
      PROVE  Cardinality(InUse(t)) >= 3
  <2> DEFINE rest == (InUse(t) \ {i}) \ {j}
  <2>1. k \in rest /\ IsFiniteSet(rest) /\ Cardinality(rest) \in Nat
    BY <1>4, <1>5
  <2>2. IsFiniteSet(rest \ {k}) /\ Cardinality(rest \ {k}) = Cardinality(rest) - 1
    BY <2>1, FS_RemoveElement
  <2>3. Cardinality(rest \ {k}) \in Nat
    BY <2>2, FS_CardinalityType
  <2>4. QED
    BY <1>2, <1>4, <1>5, <2>1, <2>2, <2>3
<1>6. QED
  BY <1>2, <1>3, <1>4, <1>5

\* Nobody works in a directory that nobody has open.
LEMMA NobodyWithin ==
    ASSUME RefInv, NEW t \in Sector, open_cnt[t] = 0
    PROVE  \A p \in Proc : wd[p] # t
<1>1. Cardinality(Within(t)) = 0
  BY RefsFinite DEF RefInv, CountInv
<1>2. Within(t) = {}
  BY <1>1, RefsFinite, FS_EmptySet
<1>3. QED
  BY <1>2 DEF Within

\* What sys_remove() takes out of the tree: the root, by way of "..", a file, or
\* a directory without entries of its own that nobody has open.
LEMMA RemoveCases ==
    ASSUME IInv, ROOT_DIR_SECTOR \notin freed, NEW d, Linked(d), kind[d] = "dir",
           NEW name, NEW t, t = lookup(d, name), t # NULL,
           NEW n \in IF kind[t] = "dir" THEN {Cardinality(InUse(t))} ELSE 0..3,
           n = 0 \/ (n < 3 /\ open_cnt[t] + (IF t = d THEN 2 ELSE 1) = 1)
    PROVE  \/ t = ROOT_DIR_SECTOR /\ open_cnt[t] = 0
           \/ /\ ProperName(name)
              /\ kind[t] = "dir" => open_cnt[t] = 0 /\ \A s : ~ Names(t, s)
<1>1. TypeOK /\ TreeInv /\ d \in Sector /\ d \notin freed
  BY DEF IInv, RefInv, Linked, gone
<1>2. t \in Sector
  BY <1>1, LookupIs
<1>3. PICK i \in InUse(d) : entries[d][i].name = name /\ entries[d][i].sector = t
  BY <1>1, LookupIs
<1>4. open_cnt[t] \in Nat
  BY <1>1, <1>2 DEF TypeOK
<1>5. ASSUME kind[t] = "dir", t # ROOT_DIR_SECTOR
      PROVE  /\ 1 \in InUse(t) /\ 2 \in InUse(t)
             /\ ~ ProperName(entries[t][1].name) /\ ~ ProperName(entries[t][2].name)
             /\ n = Cardinality(InUse(t)) /\ n >= 2 /\ n \in Nat
             /\ \A s : Names(t, s) => n >= 3
  <2>1. /\ 1 \in InUse(t) /\ 2 \in InUse(t)
        /\ entries[t][1].name = "." /\ entries[t][2].name = ".."
    BY <1>1, <1>2, <1>5 DEF TreeInv, DotsInv
  <2>2. n = Cardinality(InUse(t)) /\ n >= 2 /\ n \in Nat
    BY <1>1, <1>2, <1>5, <2>1, CountEntries
  <2>3. ASSUME NEW s, Names(t, s) PROVE n >= 3
    <3>1. PICK j \in InUse(t) : ProperName(entries[t][j].name)
      BY <2>3 DEF Names
    <3>2. j # 1 /\ j # 2
      BY <2>1, <3>1 DEF ProperName
    <3>3. QED
      BY <1>1, <1>2, <2>1, <2>2, <3>2, CountEntries
  <2>4. QED
    BY <2>1, <2>2, <2>3 DEF ProperName
<1>6. CASE ProperName(name)
  <2>1. t # ROOT_DIR_SECTOR
    BY <1>1, <1>3, <1>6 DEF TreeInv, EntryInv
  <2>2. ASSUME kind[t] = "dir" PROVE open_cnt[t] = 0 /\ \A s : ~ Names(t, s)
    <3>1. n < 3 /\ open_cnt[t] + (IF t = d THEN 2 ELSE 1) = 1
      BY <1>5, <2>1, <2>2
    <3>2. open_cnt[t] = 0
      BY <1>4, <3>1
    <3>3. QED
      BY <1>5, <2>1, <2>2, <3>1, <3>2
  <2>3. QED
    BY <1>6, <2>2
<1>7. CASE name \in {".", ".."}
  <2>1. ~ ProperName(name)
    BY <1>7 DEF ProperName
  <2>2. d # ROOT_DIR_SECTOR
    BY <1>1, <1>3, <2>1 DEF TreeInv, DotsInv
  <2>3. /\ 1 \in InUse(d) /\ entries[d][1].name = "." /\ entries[d][1].sector = d
        /\ 2 \in InUse(d) /\ entries[d][2].name = ".."
    BY <1>1, <2>2 DEF TreeInv, DotsInv
  <2>4. CASE name = "."
    <3>1. t = d
      BY <1>1, <1>3, <2>3, <2>4 DEF TreeInv, NameInv
    <3>2. n >= 2 /\ n \in Nat
      BY <1>5, <2>2, <3>1
    <3>3. QED
      BY <1>4, <3>1, <3>2
  <2>5. CASE name = ".."
    <3>1. i = 2
      BY <1>1, <1>3, <2>3, <2>5 DEF TreeInv, NameInv
    <3>2. kind[t] = "dir" /\ Names(t, d)
      BY <1>1, <1>3, <2>2, <3>1 DEF TreeInv, UpInv
    <3>3. CASE t # ROOT_DIR_SECTOR
      <4>1. n >= 3 /\ n \in Nat
        BY <1>5, <3>2, <3>3
      <4>2. QED
        BY <4>1
    <3>4. CASE t = ROOT_DIR_SECTOR
      <4>1. n = Cardinality(InUse(t))
        BY <3>2
      <4>2. PICK j : j \in InUse(t)
        BY <3>2 DEF Names
      <4>3. n >= 1 /\ n \in Nat
        BY <1>1, <1>2, <4>1, <4>2, CountEntries
      <4>4. open_cnt[t] = 0
        BY <1>4, <4>3
      <4>5. QED
        BY <3>4, <4>4
    <3>5. QED
      BY <3>3, <3>4
  <2>6. QED
    BY <1>7, <2>4, <2>5
<1>8. QED
  BY <1>6, <1>7 DEF ProperName


\* The name that sys_remove() clears.
Erased(d, i) == /\ InUse(d)' = InUse(d) \ {i}
                /\ \A j \in InUse(d)' : entries'[d][j] = entries[d][j]

LEMMA ErasedIs ==
    ASSUME TypeOK, TreeInv, NEW d \in Sector, NEW i \in InUse(d), NEW name,
           entries[d][i].name = name,
           entries'[d] = WithoutEntry(entries[d], name)
    PROVE  Erased(d, i)
<1> DEFINE es == entries[d]
           ws == WithoutEntry(es, name)
<1>1. es \in Seq(DirEntry)
  BY DEF TypeOK
<1>2. /\ DOMAIN ws = DOMAIN es
      /\ \A j \in DOMAIN es : /\ es[j].name # name => ws[j] = es[j]
                              /\ es[j].name = name => ~ ws[j].in_use
  BY <1>1, ErasedEntry
<1>3. InUse(d) = {j \in DOMAIN es : es[j].in_use} /\ InUse(d)' = {j \in DOMAIN ws : ws[j].in_use}
  BY DEF InUse
<1>4. \A j \in InUse(d) : es[j].name = name => j = i
  BY DEF TreeInv, NameInv
<1>5. entries'[d] = ws /\ es[i].name = name
  OBVIOUS
<1> HIDE DEF ws
<1>6. InUse(d)' = InUse(d) \ {i}
  <2>1. ASSUME NEW j \in InUse(d)' PROVE j \in InUse(d) /\ j # i
    BY <1>2, <1>3, <1>5, <2>1
  <2>2. ASSUME NEW j \in InUse(d), j # i PROVE j \in InUse(d)'
    BY <1>2, <1>3, <1>4, <2>2
  <2>3. QED
    BY <2>1, <2>2
<1>7. ASSUME NEW j \in InUse(d)' PROVE entries'[d][j] = entries[d][j]
  BY <1>2, <1>3, <1>5
<1>8. QED
  BY <1>6, <1>7 DEF Erased

LEMMA RemoveTree ==
    ASSUME IInv, ROOT_DIR_SECTOR \notin freed, kind[FREE_MAP_SECTOR] = "map",
           NEW d, Linked(d), kind[d] = "dir",
           NEW name, NEW t, t = lookup(d, name), t # NULL,
           NEW n \in IF kind[t] = "dir" THEN {Cardinality(InUse(t))} ELSE 0..3,
           n = 0 \/ (n < 3 /\ open_cnt[t] + (IF t = d THEN 2 ELSE 1) = 1),
           entries' = [entries EXCEPT ![d] = WithoutEntry(@, name)],
           IF open_cnt[t] = 0 THEN freed' = freed \cup {t} /\ UNCHANGED removed
                              ELSE removed' = removed \cup {t} /\ UNCHANGED freed,
           UNCHANGED <<kind, free, wd>>
    PROVE  TreeInv'
<1>1. TypeOK /\ TreeInv /\ RefInv /\ d \in Sector /\ d \notin freed
  BY DEF IInv, RefInv, Linked, gone
<1>2. t \in Sector
  BY <1>1, LookupIs
<1>3. PICK i \in InUse(d) : entries[d][i].name = name /\ entries[d][i].sector = t
  BY <1>1, LookupIs
<1>4. /\ entries'[d] = WithoutEntry(entries[d], name)
      /\ \A r \in Sector \ {d} : entries'[r] = entries[r] /\ InUse(r)' = InUse(r)
  BY <1>1 DEF TypeOK, InUse
<1>5. Erased(d, i)
  BY <1>1, <1>3, <1>4, ErasedIs
\* Every entry in use was in use, and all but one still are.
<1>6. ASSUME NEW r \in Sector, NEW j \in InUse(r)'
      PROVE  j \in InUse(r) /\ entries'[r][j] = entries[r][j] /\ ~ (r = d /\ j = i)
  BY <1>4, <1>5 DEF Erased
<1>7. ASSUME NEW r \in Sector, NEW j \in InUse(r), ~ (r = d /\ j = i)
      PROVE  j \in InUse(r)' /\ entries'[r][j] = entries[r][j]
  BY <1>4, <1>5, <1>7 DEF Erased
<1>8. gone' = gone \cup {t} /\ freed \subseteq freed' /\ freed' \subseteq freed \cup {t}
  BY DEF gone
<1>9. kind' = kind /\ free' = free /\ wd' = wd
  OBVIOUS
<1>10. t \notin free /\ t # FREE_MAP_SECTOR
  BY <1>1, <1>3 DEF TreeInv, EntryInv
<1>11. NameInv' /\ LinkInv'
  BY <1>1, <1>6 DEF TreeInv, NameInv, LinkInv
<1>12. FreeInv'
  BY <1>1, <1>8, <1>9, <1>10 DEF TreeInv, FreeInv
<1>13. ASSUME NEW r \in Sector, kind[r] # "dir" PROVE entries'[r] = <<>>
  <2>1. r # d
    BY <1>13
  <2>2. QED
    BY <1>1, <1>4, <1>13, <2>1 DEF TreeInv, KindInv
<1>14. CASE t = ROOT_DIR_SECTOR /\ open_cnt[t] = 0
  <2>1. freed' = freed \cup {ROOT_DIR_SECTOR} /\ removed' = removed
    BY <1>14
  <2>2. KindInv'
    BY <1>1, <1>8, <1>9, <1>10, <1>13, <2>1 DEF TreeInv, KindInv
  <2>3. EntryInv'
    <3>1. ASSUME NEW r \in Sector, NEW j \in InUse(r)'
          PROVE  /\ entries'[r][j].sector \notin free'
                 /\ r \notin freed' /\ entries'[r][j].sector # ROOT_DIR_SECTOR =>
                      entries'[r][j].sector \notin gone'
                 /\ ProperName(entries'[r][j].name) => entries'[r][j].sector # ROOT_DIR_SECTOR
                 /\ kind'[FREE_MAP_SECTOR] = "map" => entries'[r][j].sector # FREE_MAP_SECTOR
      BY <1>1, <1>6, <1>8, <1>9, <1>14 DEF TreeInv, EntryInv
    <3>2. QED
      BY <3>1 DEF EntryInv
  <2>4. DotsInv' /\ UpInv'
    BY <2>1 DEF DotsInv, UpInv
  <2>5. WdInv'
    BY <1>1, <1>2, <1>9, <1>14, <2>1, NobodyWithin DEF TreeInv, WdInv
  <2>6. QED
    BY <1>11, <1>12, <2>2, <2>3, <2>4, <2>5 DEF TreeInv
<1>15. CASE /\ ProperName(name)
            /\ kind[t] = "dir" => open_cnt[t] = 0 /\ \A s : ~ Names(t, s)
  <2>1. t # ROOT_DIR_SECTOR
    BY <1>1, <1>3, <1>15 DEF TreeInv, EntryInv
  <2>2. kind[t] = "dir" => t \in freed' /\ removed' = removed
    BY <1>15
  <2>3. ROOT_DIR_SECTOR \notin freed'
    BY <1>8, <2>1
  <2>4. ~ ProperName(".") /\ ~ ProperName("..")
    BY DEF ProperName
  <2>5. ASSUME NEW r \in Sector, kind[r] = "dir", r # ROOT_DIR_SECTOR
        PROVE  /\ 1 \in InUse(r) /\ entries[r][1].name = "." /\ entries[r][1].sector = r
               /\ 2 \in InUse(r) /\ entries[r][2].name = ".."
    BY <1>1, <2>5 DEF TreeInv, DotsInv
  <2>6. ASSUME NEW r \in Sector, kind[r] = "dir", r # ROOT_DIR_SECTOR
        PROVE  /\ 1 \in InUse(r)' /\ entries'[r][1] = entries[r][1]
               /\ 2 \in InUse(r)' /\ entries'[r][2] = entries[r][2]
    <3>1. ~ (r = d /\ 1 = i) /\ ~ (r = d /\ 2 = i)
      BY <1>3, <1>15, <2>4, <2>5, <2>6
    <3>2. QED
      BY <1>7, <2>5, <2>6, <3>1
  <2>7. KindInv'
    <3>1. \A s \in removed' : kind[s] # "dir"
      BY <1>1, <1>15 DEF TreeInv, KindInv
    <3>2. QED
      BY <1>1, <1>8, <1>9, <1>10, <1>13, <3>1 DEF TreeInv, KindInv
  <2>8. ASSUME NEW r \in Sector, NEW j \in InUse(r), ~ (r = d /\ j = i), r \notin freed'
        PROVE  entries[r][j].sector # t
    <3>1. SUFFICES ASSUME entries[r][j].sector = t PROVE FALSE
      OBVIOUS
    <3>2. CASE ProperName(entries[r][j].name)
      BY <1>1, <1>3, <1>10, <1>15, <2>8, <3>1, <3>2 DEF TreeInv, LinkInv
    <3>3. CASE ~ ProperName(entries[r][j].name)
      <4>1. r # ROOT_DIR_SECTOR
        BY <1>1, <3>3 DEF TreeInv, DotsInv
      <4>2. kind[r] = "dir"
        <5>1. entries[r] # <<>>
          BY DEF InUse
        <5>2. QED
          BY <1>1, <5>1 DEF TreeInv, KindInv
      <4>3. entries[r][j].name = "." \/ entries[r][j].name = ".."
        BY <3>3 DEF ProperName
      <4>4. CASE entries[r][j].name = "."
        <5>1. j = 1
          BY <1>1, <2>5, <4>1, <4>2, <4>4 DEF TreeInv, NameInv
        <5>2. t = r
          BY <2>5, <3>1, <4>1, <4>2, <5>1
        <5>3. QED
          BY <2>2, <2>8, <4>2, <5>2
      <4>5. CASE entries[r][j].name = ".."
        <5>1. j = 2
          BY <1>1, <2>5, <4>1, <4>2, <4>5 DEF TreeInv, NameInv
        <5>2. r \notin freed
          BY <1>8, <2>8
        <5>3. kind[t] = "dir" /\ Names(t, r)
          BY <1>1, <3>1, <4>1, <4>2, <5>1, <5>2 DEF TreeInv, UpInv
        <5>4. QED
          BY <1>15, <5>3
      <4>6. QED
        BY <4>3, <4>4, <4>5
    <3>4. QED
      BY <3>2, <3>3
  <2>9. EntryInv'
    <3>1. ASSUME NEW r \in Sector, NEW j \in InUse(r)'
          PROVE  /\ entries'[r][j].sector \notin free'
                 /\ r \notin freed' /\ entries'[r][j].sector # ROOT_DIR_SECTOR =>
                      entries'[r][j].sector \notin gone'
                 /\ ProperName(entries'[r][j].name) => entries'[r][j].sector # ROOT_DIR_SECTOR
                 /\ kind'[FREE_MAP_SECTOR] = "map" => entries'[r][j].sector # FREE_MAP_SECTOR
      <4>1. j \in InUse(r) /\ entries'[r][j] = entries[r][j] /\ ~ (r = d /\ j = i)
        BY <1>6
      <4>2. r \notin freed' => r \notin freed /\ entries[r][j].sector # t
        BY <1>8, <2>8, <4>1
      <4>3. QED
        BY <1>1, <1>8, <1>9, <4>1, <4>2 DEF TreeInv, EntryInv
    <3>2. QED
      BY <3>1 DEF EntryInv
  <2>10. DotsInv'
    <3>1. ASSUME NEW j \in InUse(ROOT_DIR_SECTOR)'
          PROVE  ProperName(entries'[ROOT_DIR_SECTOR][j].name)
      BY <1>1, <1>6, Marker DEF TreeInv, DotsInv
    <3>2. QED
      BY <1>9, <2>5, <2>6, <3>1 DEF DotsInv
  <2>11. UpInv'
    <3>1. ASSUME NEW r \in Sector, kind[r] = "dir", r # ROOT_DIR_SECTOR, r \notin freed',
                 NEW u, u = entries'[r][2].sector
          PROVE  kind[u] = "dir" /\ u \notin freed' /\ Names(u, r)'
      <4>1. r \notin freed /\ u = entries[r][2].sector /\ 2 \in InUse(r)
        BY <1>8, <2>5, <2>6, <3>1
      <4>2. kind[u] = "dir" /\ u \notin freed /\ Names(u, r)
        BY <1>1, <3>1, <4>1 DEF TreeInv, UpInv
      <4>3. u # t
        BY <1>15, <4>2
      <4>4. u \in Sector
        BY <1>1, <4>1, EntryIs
      <4>5. PICK j \in InUse(u) : ProperName(entries[u][j].name) /\ entries[u][j].sector = r
        BY <4>2 DEF Names
      <4>6. ~ (u = d /\ j = i)
        BY <1>3, <2>2, <3>1, <4>5
      <4>7. j \in InUse(u)' /\ entries'[u][j] = entries[u][j]
        BY <1>7, <4>4, <4>6
      <4>8. Names(u, r)'
        BY <4>5, <4>7 DEF Names
      <4>9. QED
        BY <1>8, <4>2, <4>3, <4>8
    <3>2. QED
      BY <1>9, <3>1 DEF UpInv, Names
  <2>12. WdInv'
    <3>1. ASSUME NEW p \in Proc PROVE wd[p] # t
      <4>1. kind[wd[p]] = "dir"
        BY <1>1 DEF TreeInv, WdInv
      <4>2. QED
        BY <1>1, <1>2, <1>15, <4>1, NobodyWithin
    <3>2. QED
      BY <1>1, <1>8, <1>9, <3>1 DEF TreeInv, WdInv
  <2>13. QED
    BY <1>11, <1>12, <2>7, <2>9, <2>10, <2>11, <2>12 DEF TreeInv
<1>16. QED
  BY <1>14, <1>15, RemoveCases


-----------------------------------------------------------------------------
(***************************************************************************)
(* The calls.                                                              *)
(***************************************************************************)

LEMMA PathIs ==
    ASSUME NEW path \in Path
    PROVE  /\ Last(path.names) \in Name
           /\ Len(path.names) \in Nat /\ Len(path.names) - 1 \in Nat
<1>1. path.names \in Seq(Name) /\ path.names # <<>>
  BY FsAssumption
<1>2. QED
  BY <1>1 DEF Last

\* The directory a call works on.
LEMMA ParentLinked ==
    ASSUME IInv, NEW p \in Proc, Calls(p), NEW path \in Path, NEW skipDot \in BOOLEAN,
           UsesDir(Parent(p, path, skipDot))
    PROVE  /\ Linked(Parent(p, path, skipDot))
           /\ kind[Parent(p, path, skipDot)] = "dir"
           /\ Parent(p, path, skipDot) \in Sector
<1>1. TypeOK /\ TreeInv /\ ROOT_DIR_SECTOR \notin freed
  BY DEF IInv, RefInv, Calls, Intact
<1>2. /\ Parent(p, path, skipDot) \in Sector /\ Parent(p, path, skipDot) # NULL
      /\ kind[Parent(p, path, skipDot)] = "dir"
  BY Marker DEF UsesDir
<1>3. Len(path.names) - 1 \in Nat
  BY PathIs
<1>4. Parent(p, path, skipDot) = NULL \/ Linked(Parent(p, path, skipDot))
  BY <1>1, <1>3, WalkLinked DEF Parent
<1>5. QED
  BY <1>2, <1>4

\* The working directories stay linked.
LEMMA WdLinked ==
    ASSUME IInv, NEW p \in Proc
    PROVE  kind[wd[p]] = "dir" /\ wd[p] \notin gone /\ wd[p] \in Sector
  BY DEF IInv, RefInv, TypeOK, TreeInv, WdInv, KindInv, gone

\* inode_close(): an inode that was removed becomes freed.
LEMMA CloseMoves ==
    ASSUME TypeOK, NEW cnt, NEW s \in Sector, AfterClose(cnt, s)
    PROVE  /\ removed' \cup freed' = removed \cup freed
           /\ removed' \subseteq removed /\ freed \subseteq freed'
           /\ removed' \subseteq Sector /\ freed' \subseteq Sector
           /\ open_cnt' = [cnt EXCEPT ![s] = @ - 1]
  BY DEF AfterClose, TypeOK

\* Calls that leave the tree, the counts and the lists alone.
LEMMA QuietStep ==
    ASSUME IInv, UNCHANGED <<disk, mem, fd_list, wd>>,
           fd_table' \in [Fd -> File \cup {NULL}],
           \A fd \in Fd : /\ fd_table'[fd] = NULL => fd_table[fd] = NULL
                          /\ fd_table[fd] # NULL =>
                               fd_table'[fd].inode = fd_table[fd].inode,
           fs_lock' \in Proc \cup {NULL}, alive' \subseteq Proc, halted' \in BOOLEAN
    PROVE  IInv'
<1>1. /\ kind' = kind /\ entries' = entries /\ free' = free /\ open_cnt' = open_cnt
      /\ removed' = removed /\ freed' = freed /\ fd_list' = fd_list /\ wd' = wd
  BY DEF disk, mem
<1>2. TypeOK'
  BY <1>1 DEF IInv, RefInv, TypeOK
<1>3. \A s \in Sector : open_cnt'[s] >= open_cnt[s]
  BY <1>1 DEF IInv, RefInv, TypeOK
<1>4. RefInv'
  BY <1>1, <1>2, <1>3, SameRefs DEF IInv
<1>5. TreeInv'
  BY <1>1, TreeKept, WdLinked DEF IInv, RefInv
<1>6. QED
  BY <1>4, <1>5 DEF IInv

LEMMA CreateStep ==
    ASSUME IInv, NEW p \in Proc, NEW path \in Path, sys_create(p, path)
    PROVE  IInv'
<1> DEFINE d == Parent(p, path, FALSE)
           name == Last(path.names)
           s == IF free = {} THEN FREE_MAP_SECTOR ELSE least(free)
           new == lookup(d, name) = NULL
<1>1. /\ Calls(p) /\ UsesDir(d) /\ ProperName(name)
      /\ kind' = IF new \/ s = FREE_MAP_SECTOR THEN [kind EXCEPT ![s] = "file"] ELSE kind
      /\ entries' = IF new THEN [entries EXCEPT ![d] = WithEntry(@, name, s)] ELSE entries
      /\ free' = IF new THEN free \ {s} ELSE free
      /\ fs_lock' = NULL /\ UNCHANGED <<mem, fds, wd, alive, halted>>
  BY DEF sys_create, filesys_create_with_dir, unlock
<1>2. Linked(d) /\ kind[d] = "dir" /\ d \in Sector
  BY <1>1, ParentLinked
<1>3. name \in Name
  BY PathIs
<1>4. ROOT_DIR_SECTOR \notin freed /\ kind[FREE_MAP_SECTOR] = "map"
  BY <1>1 DEF Calls, Intact
<1>5. TypeOK /\ TreeInv /\ RefInv
  BY DEF IInv, RefInv
<1>6. s \in Sector /\ (s \in free \/ s = FREE_MAP_SECTOR)
  <2>1. free \subseteq Nat /\ free \subseteq Sector
    BY <1>5, Marker DEF TypeOK
  <2>2. QED
    BY <2>1, LeastIn, Marker
<1> HIDE DEF d, name, s
<1>7. /\ open_cnt' = open_cnt /\ removed' = removed /\ freed' = freed
      /\ fd_table' = fd_table /\ fd_list' = fd_list
  BY <1>1 DEF mem, fds
<1>8. TypeOK'
  <2>1. kind' \in [Sector -> {"none", "file", "dir", "map"}]
    BY <1>1, <1>5, <1>6 DEF TypeOK
  <2>2. entries' \in [Sector -> Seq(DirEntry)]
    <3>1. WithEntry(entries[d], name, s) \in Seq(DirEntry)
      BY <1>2, <1>3, <1>5, <1>6, AddedEntry DEF TypeOK
    <3>2. QED
      BY <1>1, <1>2, <1>5, <3>1 DEF TypeOK
  <2>3. QED
    BY <1>1, <1>5, <1>7, <2>1, <2>2 DEF TypeOK
<1>9. RefInv'
  <2>1. \A r \in Sector : open_cnt'[r] >= open_cnt[r]
    BY <1>5, <1>7 DEF TypeOK
  <2>2. QED
    BY <1>1, <1>5, <1>7, <1>8, <2>1, SameRefs
<1>10. CASE new
  <2>1. kind' = [kind EXCEPT ![s] = "file"] /\ free' = free \ {s}
    BY <1>1, <1>10
  <2>2. s # d /\ entries[s] = <<>>
    BY <1>2, <1>5, <1>6 DEF TreeInv, FreeInv, KindInv
  <2>3. /\ entries'[d] = WithEntry(entries[d], name, s) /\ entries'[s] = <<>>
        /\ \A r \in Sector \ {d, s} : entries'[r] = entries[r]
    BY <1>1, <1>2, <1>5, <1>6, <1>10, <2>2 DEF TypeOK
  <2>4. lookup(d, name) = NULL
    BY <1>10
  <2>5. UNCHANGED <<mem, wd>>
    BY <1>1
  <2>6. TreeInv'
    <3>1. NewInode(d, name, s, "file")
      BY <2>1, <2>3 DEF NewInode
    <3>2. "file" \in {"file", "dir"}
      OBVIOUS
    <3>3. QED
      BY <1>1, <1>2, <1>3, <1>4, <1>5, <1>6, <2>4, <2>5, <3>1, <3>2, AddTree
  <2>7. QED
    BY <1>9, <2>6 DEF IInv
<1>11. CASE ~ new
  <2>1. entries' = entries /\ free' = free /\ wd' = wd
    BY <1>1, <1>11
  <2>2. CASE s # FREE_MAP_SECTOR
    <3>1. kind' = kind
      BY <1>1, <1>11, <2>2
    <3>2. TreeInv'
      BY <1>5, <1>7, <2>1, <3>1, TreeKept, WdLinked DEF disk
    <3>3. QED
      BY <1>9, <3>2 DEF IInv
  <2>3. CASE s = FREE_MAP_SECTOR
    <3>1. kind' = [kind EXCEPT ![FREE_MAP_SECTOR] = "file"]
      BY <1>1, <2>3
    <3>2. /\ \A r \in Sector : kind'[r] = IF r = FREE_MAP_SECTOR THEN "file" ELSE kind[r]
          /\ \A r \in Sector : kind'[r] = "dir" <=> kind[r] = "dir"
      BY <1>4, <1>5, <3>1 DEF TypeOK
    <3>3. gone' = gone /\ (\A r : InUse(r)' = InUse(r)) /\ (\A r, q : Names(r, q)' <=> Names(r, q))
      BY <1>7, <2>1 DEF gone, InUse, Names
    <3>4. TreeInv'
      <4>1. FreeInv'
        BY <1>5, <1>7, <2>1, <3>2, <3>3 DEF TreeInv, FreeInv, TypeOK
      <4>2. KindInv'
        BY <1>5, <1>7, <2>1, <3>2, <3>3, Marker DEF TreeInv, KindInv, TypeOK
      <4>3. EntryInv'
        BY <1>4, <1>5, <1>7, <2>1, <3>3 DEF TreeInv, EntryInv
      <4>4. NameInv' /\ LinkInv'
        BY <1>5, <2>1, <3>3 DEF TreeInv, NameInv, LinkInv
      <4>5. DotsInv'
        BY <1>5, <1>7, <2>1, <3>2, <3>3 DEF TreeInv, DotsInv
      <4>6. UpInv'
        <5>1. ASSUME NEW r \in Sector, kind[r] = "dir", r # ROOT_DIR_SECTOR, r \notin freed
              PROVE  /\ entries[r][2].sector \in Sector
                     /\ kind[entries[r][2].sector] = "dir"
                     /\ entries[r][2].sector \notin freed
                     /\ Names(entries[r][2].sector, r)
          <6>1. 2 \in InUse(r)
            BY <1>4, <1>5, <5>1 DEF TreeInv, DotsInv
          <6>2. entries[r][2].sector \in Sector
            BY <1>5, <6>1, EntryIs
          <6>3. QED
            BY <1>4, <1>5, <5>1, <6>2 DEF TreeInv, UpInv
        <5>2. QED
          BY <1>7, <2>1, <3>2, <3>3, <5>1 DEF UpInv
      <4>7. WdInv'
        BY <1>5, <1>7, <2>1, <3>2 DEF TreeInv, WdInv, TypeOK
      <4>8. QED
        BY <4>1, <4>2, <4>3, <4>4, <4>5, <4>6, <4>7 DEF TreeInv
    <3>5. QED
      BY <1>9, <3>4 DEF IInv
  <2>4. QED
    BY <2>2, <2>3
<1>12. QED
  BY <1>10, <1>11


LEMMA MkdirStep ==
    ASSUME IInv, NEW p \in Proc, NEW path \in Path, sys_mkdir(p, path)
    PROVE  IInv'
<1> DEFINE d == Parent(p, path, FALSE)
           name == Last(path.names)
           t == lookup(d, name)
           s == least(free)
<1>1. /\ Calls(p) /\ UsesDir(d) /\ ProperName(name)
      /\ UNCHANGED <<fds, wd, fs_lock, alive, halted>>
      /\ \/ t # NULL /\ inode_open(t) /\ UNCHANGED disk
         \/ /\ t = NULL /\ free # {}
            /\ kind' = [kind EXCEPT ![s] = "dir"]
            /\ entries' = [entries EXCEPT ![d] = WithEntry(@, name, s), ![s] = Dots(s, d)]
            /\ free' = free \ {s}
            /\ UNCHANGED mem
  BY DEF sys_mkdir, Dots
<1>2. Linked(d) /\ kind[d] = "dir" /\ d \in Sector
  BY <1>1, ParentLinked
<1>3. name \in Name
  BY PathIs
<1>4. ROOT_DIR_SECTOR \notin freed /\ kind[FREE_MAP_SECTOR] = "map"
  BY <1>1 DEF Calls, Intact
<1>5. TypeOK /\ TreeInv /\ RefInv
  BY DEF IInv, RefInv
<1>6. t = NULL \/ t \in Sector
  BY <1>2, <1>5, LookupIs
<1>7. free # {} => s \in free /\ s \in Sector
  <2>1. free \subseteq Nat /\ free \subseteq Sector
    BY <1>5, Marker DEF TypeOK
  <2>2. QED
    BY <2>1, LeastIn
<1> HIDE DEF d, name, t, s
<1>8. /\ fd_table' = fd_table /\ fd_list' = fd_list /\ wd' = wd /\ fs_lock' = fs_lock
      /\ alive' = alive /\ halted' = halted
  BY <1>1 DEF fds
<1>9. CASE t # NULL /\ inode_open(t) /\ UNCHANGED disk
  <2>1. /\ open_cnt' = [open_cnt EXCEPT ![t] = @ + 1] /\ removed' = removed /\ freed' = freed
        /\ kind' = kind /\ entries' = entries /\ free' = free
    BY <1>9 DEF inode_open, disk
  <2>2. TypeOK'
    BY <1>5, <1>6, <1>8, <1>9, <2>1 DEF TypeOK
  <2>3. \A r \in Sector : open_cnt'[r] >= open_cnt[r]
    BY <1>5, <1>6, <2>1 DEF TypeOK
  <2>4. RefInv'
    BY <1>5, <1>8, <2>2, <2>3, SameRefs
  <2>5. TreeInv'
    BY <1>5, <1>8, <1>9, <2>1, TreeKept, WdLinked
  <2>6. QED
    BY <2>4, <2>5 DEF IInv
<1>10. CASE /\ t = NULL /\ free # {}
            /\ kind' = [kind EXCEPT ![s] = "dir"]
            /\ entries' = [entries EXCEPT ![d] = WithEntry(@, name, s), ![s] = Dots(s, d)]
            /\ free' = free \ {s}
            /\ UNCHANGED mem
  <2>1. s \in free /\ s \in Sector /\ s # d
    BY <1>2, <1>5, <1>7, <1>10 DEF TreeInv, FreeInv
  <2>2. WithEntry(entries[d], name, s) \in Seq(DirEntry)
    BY <1>2, <1>3, <1>5, <2>1, AddedEntry DEF TypeOK
  <2>3. Dots(s, d) \in Seq(DirEntry)
    <3>1. /\ [name |-> ".", sector |-> s, in_use |-> TRUE] \in DirEntry
          /\ [name |-> "..", sector |-> d, in_use |-> TRUE] \in DirEntry
      <4>1. ASSUME NEW x \in Sector, NEW y \in Name
            PROVE  [name |-> y, sector |-> x, in_use |-> TRUE] \in DirEntry
        BY DEF DirEntry
      <4>2. "." \in Name /\ ".." \in Name
        BY DEF Name
      <4>3. QED
        BY <1>2, <2>1, <4>1, <4>2
    <3>2. ASSUME NEW a \in DirEntry, NEW b \in DirEntry PROVE <<a, b>> \in Seq(DirEntry)
      OBVIOUS
    <3>3. QED
      BY <3>1, <3>2 DEF Dots
  <2>4. /\ entries'[d] = WithEntry(entries[d], name, s) /\ entries'[s] = Dots(s, d)
        /\ \A r \in Sector \ {d, s} : entries'[r] = entries[r]
        /\ entries' \in [Sector -> Seq(DirEntry)]
    BY <1>2, <1>5, <1>10, <2>1, <2>2, <2>3 DEF TypeOK
  <2>5. open_cnt' = open_cnt /\ removed' = removed /\ freed' = freed
    BY <1>10 DEF mem
  <2>6. TypeOK'
    BY <1>5, <1>8, <1>10, <2>1, <2>4, <2>5 DEF TypeOK
  <2>7. \A r \in Sector : open_cnt'[r] >= open_cnt[r]
    BY <1>5, <2>5 DEF TypeOK
  <2>8. RefInv'
    BY <1>5, <1>8, <2>6, <2>7, SameRefs
  <2>9. TreeInv'
    <3>1. NewInode(d, name, s, "dir")
      BY <1>10, <2>4 DEF NewInode
    <3>2. "dir" \in {"file", "dir"} /\ lookup(d, name) = NULL
      BY <1>10 DEF t
    <3>3. UNCHANGED <<mem, wd>>
      BY <1>8, <1>10
    <3>4. QED
      BY <1>1, <1>2, <1>3, <1>4, <1>5, <2>1, <3>1, <3>2, <3>3, AddTree
  <2>10. QED
    BY <2>8, <2>9 DEF IInv
<1>11. QED
  BY <1>1, <1>9, <1>10

LEMMA OpenStep ==
    ASSUME IInv, NEW p \in Proc, NEW path \in Path, sys_open(p, path)
    PROVE  IInv'
<1> DEFINE d == Parent(p, path, TRUE)
           t == IF d = NULL THEN NULL ELSE IF Last(path.names) = "." THEN d
                ELSE lookup(d, Last(path.names))
<1>1. /\ Calls(p) /\ UsesDir(d) /\ fs_lock' = NULL
      /\ IF t = NULL THEN UNCHANGED <<mem, fds>> ELSE inode_open(t) /\ thread_get_new_fd(p, t)
      /\ UNCHANGED <<disk, wd, alive, halted>>
  BY DEF sys_open, unlock
<1>2. d \in Sector
  BY <1>1, ParentLinked
<1>3. TypeOK /\ TreeInv /\ RefInv
  BY DEF IInv, RefInv
<1>4. t = NULL \/ t \in Sector
  BY <1>2, <1>3, LookupIs
<1> HIDE DEF d, t
<1>5. CASE t = NULL
  <2>1. UNCHANGED <<mem, fds>>
    BY <1>1, <1>5
  <2>2. UNCHANGED <<disk, mem, fd_list, wd>> /\ fd_table' = fd_table
    BY <1>1, <2>1 DEF fds
  <2>3. fd_table' \in [Fd -> File \cup {NULL}] /\ alive' \subseteq Proc /\ halted' \in BOOLEAN
    BY <1>1, <1>3, <2>2 DEF TypeOK
  <2>4. QED
    BY <1>1, <2>2, <2>3, QuietStep
<1>6. CASE t \in Sector
  <2>1. inode_open(t) /\ thread_get_new_fd(p, t)
    BY <1>1, <1>6, Marker
  <2>2. open_cnt' = [open_cnt EXCEPT ![t] = @ + 1] /\ removed' = removed /\ freed' = freed
    BY <2>1 DEF inode_open
  <2>3. kind' = kind /\ entries' = entries /\ free' = free /\ wd' = wd
    BY <1>1 DEF disk
  <2>4. /\ fd_table' \in [Fd -> File \cup {NULL}]
        /\ fd_list' \in [Proc -> [1..FD_LIST_LEN -> Fd \cup {0, -1}]]
    <3> DEFINE empty == {fd \in Fd : fd_table[fd] = NULL}
               fd == IF empty = {} THEN -1 ELSE least(empty)
               slot == {i \in DOMAIN fd_list[p] : fd_list[p][i] = 0}
    <3>1. /\ fd_table' = IF fd = -1 THEN fd_table
                         ELSE [fd_table EXCEPT ![fd] = [inode |-> t, pos |-> 0]]
          /\ fd_list' = IF slot = {} THEN fd_list ELSE [fd_list EXCEPT ![p][least(slot)] = fd]
      BY <2>1 DEF thread_get_new_fd
    <3>2. fd = -1 \/ fd \in Fd
      BY Marker, LeastIn
    <3>3. slot # {} => least(slot) \in 1..FD_LIST_LEN
      <4>1. slot \subseteq 1..FD_LIST_LEN
        BY <1>3 DEF TypeOK
      <4>2. QED
        BY <4>1, LeastIn
    <3>4. [inode |-> t, pos |-> 0] \in File
      BY <1>6 DEF File
    <3> HIDE DEF fd, slot
    <3>5. QED
      BY <1>3, <3>1, <3>2, <3>3, <3>4 DEF TypeOK
  <2>5. TypeOK'
    BY <1>1, <1>3, <1>6, <2>2, <2>3, <2>4 DEF TypeOK
  <2>6. RefInv'
    BY <1>3, <1>6, <2>1, <2>2, <2>3, <2>5, OpenRefs
  <2>7. TreeInv'
    BY <1>1, <1>3, <2>2, <2>3, TreeKept, WdLinked
  <2>8. QED
    BY <2>6, <2>7 DEF IInv
<1>7. QED
  BY <1>4, <1>5, <1>6

LEMMA FaultIs ==
    ASSUME TypeOK, NEW p \in Proc, Fault(p)
    PROVE  alive' \subseteq Proc /\ halted' \in BOOLEAN
  BY DEF Fault, TypeOK

LEMMA CloseStep ==
    ASSUME IInv, NEW p \in Proc, NEW fd \in Fd, sys_close(p, fd)
    PROVE  IInv'
<1> DEFINE f == thread_get_file(p, fd)
<1>1. /\ fs_lock' = NULL /\ UNCHANGED <<disk, wd>>
      /\ \/ f = NULL /\ Fault(p) /\ UNCHANGED <<mem, fds>>
         \/ /\ f # NULL /\ thread_close_fd(p, fd) /\ AfterClose(open_cnt, f.inode)
            /\ UNCHANGED <<alive, halted>>
  BY DEF sys_close, unlock
<1>2. TypeOK /\ TreeInv /\ RefInv
  BY DEF IInv, RefInv
<1>3. CASE f = NULL /\ Fault(p) /\ UNCHANGED <<mem, fds>>
  <2>1. UNCHANGED <<disk, mem, fd_list, wd>> /\ fd_table' = fd_table
    BY <1>1, <1>3 DEF fds
  <2>2. fd_table' \in [Fd -> File \cup {NULL}] /\ alive' \subseteq Proc /\ halted' \in BOOLEAN
    BY <1>2, <1>3, <2>1, FaultIs DEF TypeOK
  <2>3. QED
    BY <1>1, <2>1, <2>2, QuietStep
<1>4. CASE /\ f # NULL /\ thread_close_fd(p, fd) /\ AfterClose(open_cnt, f.inode)
           /\ UNCHANGED <<alive, halted>>
  <2>1. f \in File /\ f.inode \in Sector
    BY <1>2, <1>4, FileIs DEF File
  <2>2. /\ removed' \cup freed' = removed \cup freed
        /\ removed' \subseteq removed /\ freed \subseteq freed'
        /\ removed' \subseteq Sector /\ freed' \subseteq Sector
        /\ open_cnt' = [open_cnt EXCEPT ![f.inode] = @ - 1]
    BY <1>2, <1>4, <2>1, CloseMoves
  <2>3. fd_table' = fd_table /\ fd_list' \in [Proc -> [1..FD_LIST_LEN -> Fd \cup {0, -1}]]
    BY <1>2, <1>4 DEF thread_close_fd, TypeOK
  <2>4. kind' = kind /\ entries' = entries /\ free' = free /\ wd' = wd
    BY <1>1 DEF disk
  <2>5. open_cnt' \in [Sector -> Nat] => TypeOK'
    BY <1>1, <1>2, <1>4, <2>2, <2>3, <2>4 DEF TypeOK
  <2>6. RefInv'
    BY <1>2, <1>4, <2>2, <2>4, <2>5, CloseRefs
  <2>7. TreeInv'
    BY <1>1, <1>2, <2>2, <2>4, TreeKept, WdLinked
  <2>8. QED
    BY <2>6, <2>7 DEF IInv
<1>5. QED
  BY <1>1, <1>3, <1>4

LEMMA ChdirStep ==
    ASSUME IInv, NEW p \in Proc, NEW path \in Path, sys_chdir(p, path)
    PROVE  IInv'
<1> DEFINE t == Walk(p, path, Len(path.names), FALSE)
<1>1. /\ Calls(p) /\ UsesDir(t)
      /\ AfterClose([open_cnt EXCEPT ![t] = @ + 1], wd[p])
      /\ wd' = [wd EXCEPT ![p] = t]
      /\ UNCHANGED <<disk, fds, fs_lock, alive, halted>>
  BY DEF sys_chdir
<1>2. TypeOK /\ TreeInv /\ RefInv /\ ROOT_DIR_SECTOR \notin freed
  BY <1>1 DEF IInv, RefInv, Calls, Intact
<1>3. t \in Sector /\ t # NULL /\ kind[t] = "dir"
  BY <1>1, Marker DEF UsesDir
<1>4. Linked(t)
  BY <1>2, <1>3, PathIs, WalkLinked
<1> HIDE DEF t
<1>5. wd[p] \in Sector
  BY <1>2 DEF TypeOK
<1>6. /\ removed' \cup freed' = removed \cup freed
      /\ removed' \subseteq removed /\ freed \subseteq freed'
      /\ removed' \subseteq Sector /\ freed' \subseteq Sector
      /\ open_cnt' = [[open_cnt EXCEPT ![t] = @ + 1] EXCEPT ![wd[p]] = @ - 1]
  BY <1>1, <1>2, <1>5, CloseMoves
<1>7. /\ kind' = kind /\ entries' = entries /\ free' = free
      /\ fd_table' = fd_table /\ fd_list' = fd_list
  BY <1>1 DEF disk, fds
<1>8. open_cnt' \in [Sector -> Nat] => TypeOK'
  BY <1>1, <1>2, <1>3, <1>6, <1>7 DEF TypeOK
<1>9. RefInv'
  BY <1>1, <1>2, <1>3, <1>6, <1>8, ChdirRefs
<1>10. \A q \in Proc : kind[wd'[q]] = "dir" /\ wd'[q] \notin gone
  <2>1. \A q \in Proc : wd'[q] = IF q = p THEN t ELSE wd[q]
    BY <1>1, <1>2 DEF TypeOK
  <2>2. QED
    BY <1>3, <1>4, <2>1, WdLinked DEF Linked
<1>11. TreeInv'
  BY <1>1, <1>2, <1>6, <1>10, TreeKept
<1>12. QED
  BY <1>9, <1>11 DEF IInv

LEMMA RemoveStep ==
    ASSUME IInv, NEW p \in Proc, NEW path \in Path, sys_remove(p, path)
    PROVE  IInv'
<1> DEFINE d == Parent(p, path, FALSE)
           name == Last(path.names)
           t == lookup(d, name)
           openers == open_cnt[t] + (IF t = d THEN 2 ELSE 1)
<1>1. /\ Calls(p) /\ UsesDir(d) /\ fs_lock' = NULL
      /\ UNCHANGED <<kind, free, fds, wd, alive, halted>>
      /\ \/ UNCHANGED <<entries, mem>>
         \/ /\ t # NULL
            /\ \E n \in IF kind[t] = "dir" THEN {Cardinality(InUse(t))} ELSE 0..3 :
                 \/ inode_open(t) /\ UNCHANGED entries
                 \/ /\ n = 0 \/ (n < 3 /\ openers = 1)
                    /\ entries' = [entries EXCEPT ![d] = WithoutEntry(@, name)]
                    /\ IF open_cnt[t] = 0
                         THEN freed' = freed \cup {t} /\ UNCHANGED removed
                         ELSE removed' = removed \cup {t} /\ UNCHANGED freed
                    /\ UNCHANGED open_cnt
  <2>1. /\ Calls(p) /\ UsesDir(d) /\ fs_lock' = NULL
        /\ UNCHANGED <<kind, free, fds, wd, alive, halted>>
    BY DEF sys_remove, unlock
  <2>2. \/ UNCHANGED <<entries, mem>>
        \/ /\ t \notin {NULL, wd[p]}
           /\ \E n \in IF kind[t] = "dir" THEN {Cardinality(InUse(t))} ELSE 0..3 :
                 \/ UNCHANGED <<entries, mem>>
                 \/ inode_open(t) /\ UNCHANGED entries
                 \/ /\ n = 0 \/ (n < 3 /\ openers = 1)
                    /\ entries' = [entries EXCEPT ![d] = WithoutEntry(@, name)]
                    /\ IF open_cnt[t] = 0
                         THEN freed' = freed \cup {t} /\ UNCHANGED removed
                         ELSE removed' = removed \cup {t} /\ UNCHANGED freed
                    /\ UNCHANGED open_cnt
    BY DEF sys_remove
  <2> HIDE DEF d, name, t, openers
  <2>3. QED
    BY <2>1, <2>2
<1>2. Linked(d) /\ kind[d] = "dir" /\ d \in Sector
  BY <1>1, ParentLinked
<1>3. ROOT_DIR_SECTOR \notin freed /\ kind[FREE_MAP_SECTOR] = "map"
  BY <1>1 DEF Calls, Intact
<1>4. TypeOK /\ TreeInv /\ RefInv
  BY DEF IInv, RefInv
<1>5. t = NULL \/ t \in Sector
  BY <1>2, <1>4, LookupIs
<1>6. openers = open_cnt[t] + (IF t = d THEN 2 ELSE 1) /\ t = lookup(d, name)
  OBVIOUS
<1> HIDE DEF d, name, t, openers
<1>7. /\ kind' = kind /\ free' = free /\ fd_table' = fd_table /\ fd_list' = fd_list
      /\ wd' = wd /\ alive' = alive /\ halted' = halted
  BY <1>1 DEF fds
<1>8. CASE UNCHANGED <<entries, mem>>
  <2>1. UNCHANGED <<disk, mem, fd_list, wd>>
    BY <1>7, <1>8 DEF disk
  <2>2. fd_table' \in [Fd -> File \cup {NULL}] /\ alive' \subseteq Proc /\ halted' \in BOOLEAN
    BY <1>4, <1>7 DEF TypeOK
  <2>3. QED
    BY <1>1, <1>7, <2>1, <2>2, QuietStep
<1>9. ASSUME t # NULL, inode_open(t), UNCHANGED entries
      PROVE  IInv'
  <2>1. /\ open_cnt' = [open_cnt EXCEPT ![t] = @ + 1] /\ removed' = removed /\ freed' = freed
        /\ entries' = entries /\ t \in Sector
    BY <1>5, <1>9 DEF inode_open
  <2>2. TypeOK'
    BY <1>1, <1>4, <1>7, <2>1 DEF TypeOK
  <2>3. \A r \in Sector : open_cnt'[r] >= open_cnt[r]
    BY <1>4, <2>1 DEF TypeOK
  <2>4. RefInv'
    BY <1>4, <1>7, <2>2, <2>3, SameRefs
  <2>5. TreeInv'
    BY <1>4, <1>7, <2>1, TreeKept, WdLinked DEF disk
  <2>6. QED
    BY <2>4, <2>5 DEF IInv
<1>10. ASSUME t # NULL,
              NEW n \in IF kind[t] = "dir" THEN {Cardinality(InUse(t))} ELSE 0..3,
              n = 0 \/ (n < 3 /\ openers = 1),
              entries' = [entries EXCEPT ![d] = WithoutEntry(@, name)],
              IF open_cnt[t] = 0 THEN freed' = freed \cup {t} /\ UNCHANGED removed
                                 ELSE removed' = removed \cup {t} /\ UNCHANGED freed,
              UNCHANGED open_cnt
       PROVE  IInv'
  <2>1. t \in Sector
    BY <1>5, <1>10
  <2>2. WithoutEntry(entries[d], name) \in Seq(DirEntry)
    BY <1>2, <1>4, ErasedEntry DEF TypeOK
  <2>3. removed' \subseteq Sector /\ freed' \subseteq Sector
    BY <1>4, <1>10, <2>1 DEF TypeOK
  <2>4. TypeOK'
    BY <1>1, <1>2, <1>4, <1>7, <1>10, <2>2, <2>3 DEF TypeOK
  <2>5. \A r \in Sector : open_cnt'[r] >= open_cnt[r]
    BY <1>4, <1>10 DEF TypeOK
  <2>6. RefInv'
    BY <1>4, <1>7, <2>4, <2>5, SameRefs
  <2>7. n = 0 \/ (n < 3 /\ open_cnt[t] + (IF t = d THEN 2 ELSE 1) = 1)
    BY <1>6, <1>10
  <2>8. UNCHANGED <<kind, free, wd>>
    BY <1>7
  <2>9. TreeInv'
    BY <1>2, <1>3, <1>6, <1>10, <2>7, <2>8, RemoveTree
  <2>10. QED
    BY <2>6, <2>9 DEF IInv
<1>11. QED
  BY <1>1, <1>8, <1>9, <1>10


\* A position may change, the inode of a descriptor does not.
LEMMA SeekTable ==
    ASSUME IInv, NEW p \in Proc, NEW fd \in Fd, thread_get_file(p, fd) # NULL, NEW n \in Nat,
           fd_table' = [fd_table EXCEPT ![fd].pos = n]
    PROVE  /\ fd_table' \in [Fd -> File \cup {NULL}]
           /\ \A g \in Fd : /\ fd_table'[g] = NULL => fd_table[g] = NULL
                            /\ fd_table[g] # NULL => fd_table'[g].inode = fd_table[g].inode
<1>1. fd_table[fd] \in File /\ fd_table \in [Fd -> File \cup {NULL}]
  BY FileIs DEF IInv, RefInv, TypeOK
<1>2. /\ [fd_table[fd] EXCEPT !.pos = n] \in File
      /\ [fd_table[fd] EXCEPT !.pos = n].inode = fd_table[fd].inode
  BY <1>1 DEF File
<1>3. \A g \in Fd : fd_table'[g] = IF g = fd THEN [fd_table[fd] EXCEPT !.pos = n]
                                             ELSE fd_table[g]
  BY <1>1
<1>4. NULL \notin File
  BY Marker
<1>5. fd_table' \in [Fd -> File \cup {NULL}]
  BY <1>1, <1>2
<1>6. QED
  BY <1>2, <1>3, <1>4, <1>5

\* The calls on descriptors, and the end of a process.
LEMMA DescriptorStep ==
    ASSUME IInv, NEW p \in Proc, NEW fd \in Fd,
           \/ sys_seek(p, fd) \/ sys_tell(p, fd) \/ sys_read(p, fd) \/ sys_write(p, fd)
           \/ sys_readdir(p, fd)
    PROVE  IInv'
<1>1. TypeOK
  BY DEF IInv, RefInv
<1>2. fd_table \in [Fd -> File \cup {NULL}] /\ alive \subseteq Proc /\ halted \in BOOLEAN
  BY <1>1 DEF TypeOK
<1>3. CASE sys_seek(p, fd)
  <2>1. /\ UNCHANGED <<disk, mem, fd_list, wd>> /\ alive' = alive /\ halted' = halted
        /\ fs_lock' \in Proc \cup {NULL}
        /\ \/ fd_table' = fd_table
           \/ thread_get_file(p, fd) # NULL /\ fd_table' = [fd_table EXCEPT ![fd].pos = 0]
    BY <1>3 DEF sys_seek, unlock
  <2>2. /\ fd_table' \in [Fd -> File \cup {NULL}]
        /\ \A g \in Fd : /\ fd_table'[g] = NULL => fd_table[g] = NULL
                         /\ fd_table[g] # NULL => fd_table'[g].inode = fd_table[g].inode
    <3>1. CASE fd_table' = fd_table
      BY <1>2, <3>1
    <3>2. CASE thread_get_file(p, fd) # NULL /\ fd_table' = [fd_table EXCEPT ![fd].pos = 0]
      BY <3>2, SeekTable
    <3>3. QED
      BY <2>1, <3>1, <3>2
  <2>3. QED
    BY <1>2, <2>1, <2>2, QuietStep
<1>4. CASE sys_tell(p, fd)
  <2>1. /\ UNCHANGED <<disk, mem, fd_list, wd>> /\ fd_table' = fd_table
        /\ alive' = alive /\ halted' = halted /\ fs_lock' \in Proc \cup {NULL}
    BY <1>4 DEF sys_tell, unlock, fds
  <2>2. QED
    BY <1>2, <2>1, QuietStep
<1>5. CASE sys_read(p, fd)
  <2>1. /\ UNCHANGED <<disk, mem, fd_list, wd>> /\ fd_table' = fd_table
        /\ fs_lock' \in Proc \cup {NULL}
        /\ (alive' = alive /\ halted' = halted) \/ Fault(p)
    BY <1>5 DEF sys_read, unlock, fds
  <2>2. alive' \subseteq Proc /\ halted' \in BOOLEAN
    BY <1>1, <1>2, <2>1, FaultIs
  <2>3. QED
    BY <1>2, <2>1, <2>2, QuietStep
<1>6. CASE sys_write(p, fd)
  <2>1. /\ UNCHANGED <<disk, mem, fd_list, wd>> /\ fd_table' = fd_table
        /\ fs_lock' \in Proc \cup {NULL}
        /\ (alive' \subseteq alive /\ halted' = halted) \/ Fault(p)
    BY <1>6 DEF sys_write, unlock, fds
  <2>2. alive' \subseteq Proc /\ halted' \in BOOLEAN
    BY <1>1, <1>2, <2>1, FaultIs
  <2>3. QED
    BY <1>2, <2>1, <2>2, QuietStep
<1>7. CASE sys_readdir(p, fd)
  <2> DEFINE f == thread_get_file(p, fd)
             es == entries[f.inode]
             left == {i \in InUse(f.inode) : i > f.pos}
             rest == left \ IF left # {} /\ es[least(left)].name = "."
                            THEN {i \in left : i = least(left) \/ es[i].name = ".."} ELSE {}
  <2>1. /\ f # NULL /\ fs_lock' = NULL
        /\ fd_table' = IF rest = {} THEN fd_table ELSE [fd_table EXCEPT ![fd].pos = least(rest)]
        /\ UNCHANGED <<disk, mem, fd_list, wd, alive, halted>>
    BY <1>7 DEF sys_readdir, unlock
  <2>2. f.inode \in Sector
    BY <2>1, FileIs DEF IInv, File
  <2>3. InUse(f.inode) \subseteq Nat
    <3>1. entries[f.inode] \in Seq(DirEntry)
      BY <1>1, <2>2 DEF TypeOK
    <3>2. DOMAIN entries[f.inode] \subseteq Nat
      BY <3>1
    <3>3. QED
      BY <3>2 DEF InUse
  <2>4. rest \subseteq Nat
    BY <2>3
  <2> HIDE DEF rest
  <2>5. /\ fd_table' \in [Fd -> File \cup {NULL}]
        /\ \A g \in Fd : /\ fd_table'[g] = NULL => fd_table[g] = NULL
                         /\ fd_table[g] # NULL => fd_table'[g].inode = fd_table[g].inode
    <3>1. CASE rest = {}
      BY <1>2, <2>1, <3>1
    <3>2. CASE rest # {}
      <4>1. least(rest) \in Nat
        BY <2>4, <3>2, LeastIn
      <4>2. QED
        BY <2>1, <3>2, <4>1, SeekTable
    <3>3. QED
      BY <3>1, <3>2
  <2>6. QED
    BY <1>2, <2>1, <2>5, QuietStep
<1>8. QED
  BY <1>3, <1>4, <1>5, <1>6, <1>7

LEMMA ProcessStep ==
    ASSUME IInv, NEW p \in Proc, Inspect(p) \/ sys_exit(p)
    PROVE  IInv'
<1>1. /\ fd_table \in [Fd -> File \cup {NULL}] /\ alive \subseteq Proc /\ halted \in BOOLEAN
      /\ fs_lock \in Proc \cup {NULL}
  BY DEF IInv, RefInv, TypeOK
<1>2. /\ UNCHANGED <<disk, mem, fd_list, wd>> /\ fd_table' = fd_table
      /\ alive' \subseteq alive /\ halted' = halted
      /\ fs_lock' = NULL \/ fs_lock' = fs_lock
  BY DEF Inspect, sys_exit, unlock, fds
<1>3. QED
  BY <1>1, <1>2, QuietStep

-----------------------------------------------------------------------------
(***************************************************************************)
(* The theorems.                                                           *)
(***************************************************************************)

LEMMA InitHolds == Init => IInv
<1> SUFFICES ASSUME Init PROVE IInv
  OBVIOUS
<1>1. TypeOK
  <2>1. Cardinality(Proc) \in Nat
    BY FsAssumption, FS_CardinalityType
  <2>2. entries \in [Sector -> Seq(DirEntry)]
    BY DEF Init
  <2>3. open_cnt \in [Sector -> Nat]
    BY <2>1 DEF Init
  <2>4. wd \in [Proc -> Sector]
    BY Marker DEF Init
  <2>5. QED
    BY <2>2, <2>3, <2>4 DEF Init, TypeOK
<1>2. FdInv
  BY Marker DEF Init, FdInv
<1>3. CountInv
  <2>1. SUFFICES ASSUME NEW s \in Sector
                 PROVE  open_cnt[s] >= Cardinality(Within(s)) + Cardinality(Using(s))
    BY DEF CountInv
  <2>2. Using(s) = {}
    BY Marker DEF Init, Using, Listed
  <2>3. Cardinality(Using(s)) = 0
    BY <2>2, FS_EmptySet
  <2>4. CASE s = ROOT_DIR_SECTOR
    <3>1. Within(s) = Proc /\ open_cnt[s] = Cardinality(Proc)
      BY <2>4, Marker DEF Init, Within
    <3>2. QED
      BY <2>3, <3>1, FsAssumption, FS_CardinalityType
  <2>5. CASE s # ROOT_DIR_SECTOR
    <3>1. Within(s) = {} /\ open_cnt[s] \in Nat
      BY <1>1, <2>5 DEF Init, Within, TypeOK
    <3>2. Cardinality(Within(s)) = 0
      BY <3>1, FS_EmptySet
    <3>3. QED
      BY <2>3, <3>1, <3>2
  <2>6. QED
    BY <2>4, <2>5
<1>4. \A s \in Sector : entries[s] = <<>> /\ InUse(s) = {}
  BY DEF Init, InUse
<1>5. gone = {} /\ freed = {} /\ removed = {}
  BY DEF Init, gone
<1>6. \A s \in Sector : kind[s] = "dir" <=> s = ROOT_DIR_SECTOR
  BY Marker DEF Init
<1>7. FreeInv
  BY <1>5 DEF Init, FreeInv
<1>8. KindInv
  BY <1>4, <1>5, <1>6, Marker DEF KindInv
<1>9. EntryInv /\ NameInv /\ LinkInv
  BY <1>4 DEF EntryInv, NameInv, LinkInv
<1>10. DotsInv /\ UpInv
  BY <1>4, <1>6, Marker DEF DotsInv, UpInv
<1>11. WdInv
  BY <1>5, <1>6, Marker DEF Init, WdInv
<1>12. QED
  BY <1>1, <1>2, <1>3, <1>7, <1>8, <1>9, <1>10, <1>11 DEF IInv, RefInv, TreeInv

LEMMA StutterKeeps == IInv /\ UNCHANGED vars => IInv'
<1> SUFFICES ASSUME IInv, UNCHANGED vars PROVE IInv'
  OBVIOUS
<1>1. /\ UNCHANGED <<disk, mem, fd_list, wd>> /\ fd_table' = fd_table
      /\ alive' = alive /\ halted' = halted /\ fs_lock' = fs_lock
  BY DEF vars, disk, mem
<1>2. /\ fd_table \in [Fd -> File \cup {NULL}] /\ alive \subseteq Proc /\ halted \in BOOLEAN
      /\ fs_lock \in Proc \cup {NULL}
  BY DEF IInv, RefInv, TypeOK
<1>3. QED
  BY <1>1, <1>2, QuietStep

LEMMA NextKeeps == IInv /\ [Next]_vars => IInv'
<1> SUFFICES ASSUME IInv, Next PROVE IInv'
  BY StutterKeeps
<1>1. PICK p \in Proc : syscall_handler(p)
  BY DEF Next
<1>2. CASE \E path \in Path : sys_create(p, path)
  BY <1>2, CreateStep
<1>3. CASE \E path \in Path : sys_mkdir(p, path)
  BY <1>3, MkdirStep
<1>4. CASE \E path \in Path : sys_open(p, path)
  BY <1>4, OpenStep
<1>5. CASE \E path \in Path : sys_remove(p, path)
  BY <1>5, RemoveStep
<1>6. CASE \E path \in Path : sys_chdir(p, path)
  BY <1>6, ChdirStep
<1>7. CASE \E fd \in Fd : sys_close(p, fd)
  BY <1>7, CloseStep
<1>8. CASE \E fd \in Fd : \/ sys_seek(p, fd) \/ sys_tell(p, fd) \/ sys_read(p, fd)
                          \/ sys_write(p, fd) \/ sys_readdir(p, fd)
  BY <1>8, DescriptorStep
<1>9. CASE Inspect(p) \/ sys_exit(p)
  BY <1>9, ProcessStep
<1>10. QED
  BY <1>1, <1>2, <1>3, <1>4, <1>5, <1>6, <1>7, <1>8, <1>9 DEF syscall_handler

\* The inductive invariant holds: references are counted and the tree below the
\* root is a tree, whatever the calls of the processes do to it.
THEOREM FileSystemInvariant == Spec => []IInv
<1>1. QED
  BY InitHolds, NextKeeps, PTL DEF Spec

\* Every open descriptor and working directory is counted in open_cnt, and no
\* two processes have a descriptor of the shared fd_table open: inode_close()
\* never frees an inode under its users.
THEOREM CountsReferences == Spec => []ReferencesCounted
<1>1. ASSUME IInv PROVE ReferencesCounted
  <2>1. RefInv
    BY <1>1 DEF IInv
  <2>2. ASSUME NEW p \in Proc, NEW fd \in Fd
        PROVE  fd \in OpenFds(p) <=> \E i \in 1..FD_LIST_LEN : fd_list[p][i] = fd
    BY <2>1, FileIs DEF OpenFds
  <2>3. ASSUME NEW s \in Sector
        PROVE  open_cnt[s] >= Cardinality({p \in Proc : wd[p] = s})
                              + Cardinality({fd \in Fd : \E p \in Proc :
                                  fd \in OpenFds(p) /\ fd_table[fd].inode = s})
    <3>1. Using(s) = {fd \in Fd : \E p \in Proc : fd \in OpenFds(p) /\ fd_table[fd].inode = s}
      BY <2>2 DEF Using, Listed
    <3>2. Within(s) = {p \in Proc : wd[p] = s}
      BY DEF Within
    <3>3. open_cnt[s] >= Cardinality(Within(s)) + Cardinality(Using(s))
      BY <2>1 DEF RefInv, CountInv
    <3>4. QED
      BY <3>1, <3>2, <3>3
  <2>4. ASSUME NEW p \in Proc, NEW q \in Proc, p # q PROVE OpenFds(p) \cap OpenFds(q) = {}
    <3>1. ASSUME NEW fd \in Fd, fd \in OpenFds(p), fd \in OpenFds(q) PROVE FALSE
      BY <2>1, <2>2, <2>4, <3>1 DEF RefInv, FdInv
    <3>2. OpenFds(p) \subseteq Fd
      BY DEF OpenFds
    <3>3. QED
      BY <3>1, <3>2
  <2>5. QED
    BY <2>3, <2>4 DEF ReferencesCounted
<1>2. QED
  BY <1>1, FileSystemInvariant, PTL

\* A name leads to an inode that exists, to no other name's inode, and a
\* directory has a name once.
THEOREM TreeAlwaysSound == Spec => []TreeSound
<1>1. ASSUME IInv PROVE TreeSound
  <2>1. TreeInv
    BY <1>1 DEF IInv
  <2>2. SUFFICES ASSUME NEW s \in Sector, NEW i \in InUse(s)
                 PROVE  LET e == entries[s][i] IN
                        /\ e.sector \notin free
                        /\ s \notin freed /\ e.sector # ROOT_DIR_SECTOR =>
                             e.sector \notin freed \cup removed
                        /\ e.name \notin {".", ".."} /\ e.sector # FREE_MAP_SECTOR =>
                             \A r \in Sector : \A j \in InUse(r) :
                               /\ entries[r][j].sector = e.sector
                               /\ entries[r][j].name \notin {".", ".."}
                               => <<r, j>> = <<s, i>>
                        /\ \A j \in InUse(s) : entries[s][j].name = e.name => i = j
    BY DEF TreeSound
  <2>3. /\ entries[s][i].sector \notin free
        /\ s \notin freed /\ entries[s][i].sector # ROOT_DIR_SECTOR =>
             entries[s][i].sector \notin freed \cup removed
    BY <2>1 DEF TreeInv, EntryInv, gone
  <2>4. ASSUME entries[s][i].name \notin {".", ".."}, entries[s][i].sector # FREE_MAP_SECTOR,
               NEW r \in Sector, NEW j \in InUse(r),
               entries[r][j].sector = entries[s][i].sector,
               entries[r][j].name \notin {".", ".."}
        PROVE  <<r, j>> = <<s, i>>
    BY <2>1, <2>4 DEF TreeInv, LinkInv, ProperName
  <2>5. \A j \in InUse(s) : entries[s][j].name = entries[s][i].name => i = j
    BY <2>1 DEF TreeInv, NameInv
  <2>6. QED
    BY <2>3, <2>4, <2>5
<1>2. QED
  BY <1>1, FileSystemInvariant, PTL

\* No process loses its working directory to another one's remove.
THEOREM WorkingDirsKept == Spec => []WorkingDirKept
<1>1. ASSUME IInv PROVE WorkingDirKept
  BY <1>1, WdLinked DEF WorkingDirKept, gone
<1>2. QED
  BY <1>1, FileSystemInvariant, PTL
=============================================================================
