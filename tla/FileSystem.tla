----------------------------- MODULE FileSystem -----------------------------
(***************************************************************************)
(* The file system calls of userprog/syscall.c with the directories, open  *)
(* inodes and file descriptors they work on (filesys/directory.c,          *)
(* filesys.c, file.c, inode.c, and the descriptor tables of                *)
(* threads/thread.c).                                                      *)
(*                                                                         *)
(* Each call is one action: calls of different processes follow each other *)
(* in any order, and fs_lock may stay held between them.  An inode is its  *)
(* sector; the sectors of its data are module InodeIndex, and allocating   *)
(* them succeeds here.  A path is a sequence of names.                     *)
(***************************************************************************)
EXTENDS Integers, Sequences, FiniteSets

CONSTANTS
  Proc, NULL,
  SECTORS,       \* sectors that hold inodes are 0..SECTORS - 1
  FD_TABLE_LEN, FD_LIST_LEN, \* lengths of fd_table and of thread->fd_list
  Path,          \* [abs : BOOLEAN, names : nonempty sequences of names]
  MaxOpen        \* bound: openers of one inode

FREE_MAP_SECTOR == 0
ROOT_DIR_SECTOR == 1
Sector == 0..(SECTORS - 1)
Fd == 2..(FD_TABLE_LEN - 1)
File == [inode : Sector, pos : Nat]
Name == {".", ".."} \cup UNION {{path.names[i] : i \in DOMAIN path.names} : path \in Path}
DirEntry == [name : Name, sector : Sector, in_use : BOOLEAN]

ASSUME FsAssumption ==
  /\ IsFiniteSet(Proc) /\ NULL \notin Proc \cup Sector \cup File
  /\ SECTORS \in Nat /\ SECTORS >= 2
  /\ FD_TABLE_LEN \in Nat /\ FD_LIST_LEN \in Nat /\ MaxOpen \in Nat
  /\ \A path \in Path : path.names \in Seq(Name) /\ path.names # <<>>

least(S) == CHOOSE m \in S : \A k \in S : m <= k
Last(seq) == seq[Len(seq)]

VARIABLES
  kind,      \* type of the inode on disk: "none", "file", "dir", "map"
  entries,   \* [Sector -> sequence of directory entries]
  free,      \* the free map
  open_cnt,  \* openers; 0 for an inode that is not in open_inodes
  removed,   \* open inodes marked removed
  freed,     \* inodes whose blocks deallocate_inode() has released
  fd_table,  \* [Fd -> struct file, or NULL]
  fd_list,   \* [Proc -> thread->fd_list]
  wd,        \* [Proc -> sector of thread->wd]
  fs_lock, alive, halted

vars == <<kind, entries, free, open_cnt, removed, freed, fd_table, fd_list, wd,
          fs_lock, alive, halted>>
disk == <<kind, entries, free>>
mem  == <<open_cnt, removed, freed>>
fds  == <<fd_table, fd_list>>

\* do_format() and free_map_open(), then the first processes, in the root.
Init ==
  /\ kind = [s \in Sector |-> IF s = FREE_MAP_SECTOR THEN "map"
                              ELSE IF s = ROOT_DIR_SECTOR THEN "dir" ELSE "none"]
  /\ entries = [s \in Sector |-> <<>>]
  /\ free = Sector \ {FREE_MAP_SECTOR, ROOT_DIR_SECTOR}
  /\ open_cnt = [s \in Sector |-> IF s = FREE_MAP_SECTOR THEN 1
                 ELSE IF s = ROOT_DIR_SECTOR THEN Cardinality(Proc) ELSE 0]
  /\ removed = {} /\ freed = {}
  /\ fd_table = [fd \in Fd |-> NULL]
  /\ fd_list = [p \in Proc |-> [i \in 1..FD_LIST_LEN |-> 0]]
  /\ wd = [p \in Proc |-> ROOT_DIR_SECTOR]
  /\ fs_lock = NULL /\ alive = Proc /\ halted = FALSE

-----------------------------------------------------------------------------
(* Directories.                                                            *)

\* The sector of NAME in directory d, or NULL; a file has no entries.
lookup(d, name) ==
  LET hit == {i \in DOMAIN entries[d] : entries[d][i].in_use /\ entries[d][i].name = name}
  IN  IF hit = {} THEN NULL ELSE entries[d][least(hit)].sector

\* dir_add()'s slot: the first that is free, else the end of the directory.
WithEntry(es, name, s) ==
  LET unused == {i \in DOMAIN es : ~ es[i].in_use}
      e == [name |-> name, sector |-> s, in_use |-> TRUE]
  IN  IF unused = {} THEN Append(es, e) ELSE [es EXCEPT ![least(unused)] = e]

WithoutEntry(es, name) ==
  [i \in DOMAIN es |-> IF es[i].name = name THEN [es[i] EXCEPT !.in_use = FALSE]
                                            ELSE es[i]]

InUse(d) == {i \in DOMAIN entries[d] : entries[d][i].in_use}

\* One name of a path.  sys_open() takes "." as no step; the other calls look it
\* up.
Hop(d, name, skipDot) ==
  IF d = NULL THEN NULL ELSE IF skipDot /\ name = "." THEN d ELSE lookup(d, name)

\* The directory a path leads to after its first n names, or NULL.
Walk(p, path, n, skipDot) ==
  LET step[i \in 0..n] ==
        IF i = 0 THEN IF path.abs THEN ROOT_DIR_SECTOR ELSE wd[p]
        ELSE Hop(step[i - 1], path.names[i], skipDot)
  IN  step[n]

\* Bounds of the model: programs take only directories for directories, and do
\* not make names "." and ".." (the code checks neither).
UsesDir(d) == d \in Sector /\ kind[d] = "dir"
ProperName(name) == name \notin {".", ".."}

Parent(p, path, skipDot) == Walk(p, path, Len(path.names) - 1, skipDot)

-----------------------------------------------------------------------------
(* Open inodes: inode_open(), inode_reopen(), inode_close().               *)

\* The last close of a removed inode deallocates its blocks, not its sector.
AfterClose(cnt, s) ==
  LET last == cnt[s] = 1 IN
  /\ open_cnt' = [cnt EXCEPT ![s] = @ - 1]
  /\ freed' = IF last /\ s \in removed THEN freed \cup {s} ELSE freed
  /\ removed' = IF last THEN removed \ {s} ELSE removed

inode_open(s) == /\ open_cnt[s] < MaxOpen
                 /\ open_cnt' = [open_cnt EXCEPT ![s] = @ + 1]
                 /\ UNCHANGED <<removed, freed>>

-----------------------------------------------------------------------------
(* Descriptors and fs_lock.                                                *)

\* The model stops once the root or the free map has been overwritten.
Intact == ~ halted /\ ROOT_DIR_SECTOR \notin freed /\ kind[FREE_MAP_SECTOR] = "map"
Calls(p) == Intact /\ p \in alive
CanLock(p) == fs_lock \in {NULL, p}
unlock == fs_lock' = NULL

thread_get_file(p, fd) ==
  IF \E i \in DOMAIN fd_list[p] : fd_list[p][i] = fd THEN fd_table[fd] ELSE NULL

\* The new descriptor, -1 when the table is full, goes into the first free slot
\* of the process's list either way.
thread_get_new_fd(p, s) ==
  LET empty == {fd \in Fd : fd_table[fd] = NULL}
      fd == IF empty = {} THEN -1 ELSE least(empty)
      slot == {i \in DOMAIN fd_list[p] : fd_list[p][i] = 0}
  IN  /\ fd_table' = IF fd = -1 THEN fd_table
                     ELSE [fd_table EXCEPT ![fd] = [inode |-> s, pos |-> 0]]
      /\ fd_list' = IF slot = {} THEN fd_list
                    ELSE [fd_list EXCEPT ![p][least(slot)] = fd]

\* Mutant: the slot of the process's list is not cleared.
thread_close_fd_kept(p, fd) == UNCHANGED <<fd_table, fd_list>>

\* The slot of the process's list is cleared, the entry of the table is not.
thread_close_fd(p, fd) ==
  /\ fd_list' = [fd_list EXCEPT ![p] =
       [i \in DOMAIN @ |-> IF @[i] = fd THEN 0 ELSE @[i]]]
  /\ UNCHANGED fd_table

\* A null pointer read in the kernel: page_fault() ends the process or panics.
Fault(p) == \/ alive' = alive \ {p} /\ UNCHANGED halted
            \/ halted' = TRUE /\ UNCHANGED alive

-----------------------------------------------------------------------------
(* The calls.                                                              *)

\* Mutant: dir_add() does not look for an entry of the same name.
filesys_create_with_dir_twice(d, name) ==
  LET s == IF free = {} THEN FREE_MAP_SECTOR ELSE least(free) IN
  /\ kind' = [kind EXCEPT ![s] = "file"]
  /\ entries' = [entries EXCEPT ![d] = WithEntry(@, name, s)]
  /\ free' = free \ {s}

\* The steps are joined with &=, so without a free sector inode_create() and
\* dir_add() still run, on sector 0.
filesys_create_with_dir(d, name) ==
  LET s == IF free = {} THEN FREE_MAP_SECTOR ELSE least(free)
      new == lookup(d, name) = NULL
  IN
  /\ kind' = IF new \/ s = FREE_MAP_SECTOR THEN [kind EXCEPT ![s] = "file"] ELSE kind
  /\ entries' = IF new THEN [entries EXCEPT ![d] = WithEntry(@, name, s)] ELSE entries
  /\ free' = IF new THEN free \ {s} ELSE free

sys_create(p, path) ==
  LET d == Parent(p, path, FALSE) IN
  /\ Calls(p) /\ CanLock(p) /\ UsesDir(d) /\ ProperName(Last(path.names))
  /\ filesys_create_with_dir(d, Last(path.names))
  /\ unlock
  /\ UNCHANGED <<mem, fds, wd, alive, halted>>

\* A name that exists is looked up and its inode never closed.
sys_mkdir(p, path) ==
  LET d == Parent(p, path, FALSE)
      name == Last(path.names)
      t == lookup(d, name)
      s == least(free)
  IN
  /\ Calls(p) /\ UsesDir(d) /\ ProperName(name)
  /\ \/ /\ t # NULL
        /\ inode_open(t)
        /\ UNCHANGED disk
     \/ /\ t = NULL /\ free # {}
        /\ kind' = [kind EXCEPT ![s] = "dir"]
        /\ entries' = [entries EXCEPT
             ![d] = WithEntry(@, name, s),
             ![s] = <<[name |-> ".", sector |-> s, in_use |-> TRUE],
                      [name |-> "..", sector |-> d, in_use |-> TRUE]>>]
        /\ free' = free \ {s}
        /\ UNCHANGED mem
  /\ UNCHANGED <<fds, wd, fs_lock, alive, halted>>

sys_open(p, path) ==
  LET d == Parent(p, path, TRUE)
      t == IF d = NULL THEN NULL ELSE IF Last(path.names) = "." THEN d
           ELSE lookup(d, Last(path.names))
  IN
  /\ Calls(p) /\ CanLock(p) /\ UsesDir(d)
  /\ IF t = NULL THEN UNCHANGED <<mem, fds>>
                 ELSE inode_open(t) /\ thread_get_new_fd(p, t)
  /\ unlock
  /\ UNCHANGED <<disk, wd, alive, halted>>

\* A descriptor that is not open: fs_lock is released, then the null file read.
sys_close(p, fd) ==
  LET f == thread_get_file(p, fd) IN
  /\ Calls(p) /\ CanLock(p)
  /\ unlock
  /\ \/ /\ f = NULL
        /\ Fault(p)
        /\ UNCHANGED <<mem, fds>>
     \/ /\ f # NULL
        /\ thread_close_fd(p, fd)
        /\ AfterClose(open_cnt, f.inode)
        /\ UNCHANGED <<alive, halted>>
  /\ UNCHANGED <<disk, wd>>

\* Mutant: other openers of an empty directory are not looked at.
sys_remove_opened(p, path) ==
  LET d == Parent(p, path, FALSE)
      name == Last(path.names)
      t == lookup(d, name)
  IN
  /\ Calls(p) /\ CanLock(p) /\ UsesDir(d)
  /\ unlock
  /\ IF t \in {NULL, wd[p]} \/ Cardinality(InUse(t)) >= 3 THEN UNCHANGED <<entries, mem>>
     ELSE /\ entries' = [entries EXCEPT ![d] = WithoutEntry(@, name)]
          /\ IF open_cnt[t] = 0
               THEN freed' = freed \cup {t} /\ UNCHANGED removed
               ELSE removed' = removed \cup {t} /\ UNCHANGED freed
          /\ UNCHANGED open_cnt
  /\ UNCHANGED <<kind, free, fds, wd, alive, halted>>

\* sys_remove() reads any inode as a directory to see whether it is empty: a
\* file's bytes may look like up to any number of entries.
sys_remove(p, path) ==
  LET d == Parent(p, path, FALSE)
      name == Last(path.names)
      t == lookup(d, name)
      openers == open_cnt[t] + (IF t = d THEN 2 ELSE 1)
  IN
  /\ Calls(p) /\ CanLock(p) /\ UsesDir(d)
  /\ unlock
  /\ \/ /\ t \in {NULL, wd[p]}
        /\ UNCHANGED <<entries, mem>>
     \/ /\ t \notin {NULL, wd[p]}
        /\ \E n \in IF kind[t] = "dir" THEN {Cardinality(InUse(t))} ELSE 0..3 :
             \/ /\ n >= 1 /\ openers > 1
                /\ UNCHANGED <<entries, mem>>
             \/ /\ n >= 3 /\ openers = 1
                /\ inode_open(t)
                /\ UNCHANGED entries
             \/ /\ n = 0 \/ (n < 3 /\ openers = 1)
                /\ entries' = [entries EXCEPT ![d] = WithoutEntry(@, name)]
                /\ IF open_cnt[t] = 0
                     THEN freed' = freed \cup {t} /\ UNCHANGED removed
                     ELSE removed' = removed \cup {t} /\ UNCHANGED freed
                /\ UNCHANGED open_cnt
  /\ UNCHANGED <<kind, free, fds, wd, alive, halted>>

sys_chdir(p, path) ==
  LET t == Walk(p, path, Len(path.names), FALSE) IN
  /\ Calls(p) /\ UsesDir(t) /\ open_cnt[t] < MaxOpen
  /\ AfterClose([open_cnt EXCEPT ![t] = @ + 1], wd[p])
  /\ wd' = [wd EXCEPT ![p] = t]
  /\ UNCHANGED <<disk, fds, fs_lock, alive, halted>>

\* sys_seek() and sys_tell() return with fs_lock held for a bad descriptor.
sys_seek(p, fd) ==
  LET f == thread_get_file(p, fd) IN
  /\ Calls(p) /\ CanLock(p)
  /\ IF f = NULL THEN fs_lock' = p /\ UNCHANGED fd_table
                 ELSE unlock /\ fd_table' = [fd_table EXCEPT ![fd].pos = 0]
  /\ UNCHANGED <<disk, mem, fd_list, wd, alive, halted>>

sys_tell(p, fd) ==
  /\ Calls(p) /\ CanLock(p)
  /\ IF thread_get_file(p, fd) = NULL THEN fs_lock' = p ELSE unlock
  /\ UNCHANGED <<disk, mem, fds, wd, alive, halted>>

\* A buffer that is not mapped faults with fs_lock held.  Bound of the model:
\* programs read only files.
sys_read(p, fd) ==
  LET f == thread_get_file(p, fd) IN
  /\ Calls(p) /\ CanLock(p) /\ f # NULL /\ kind[f.inode] = "file"
  /\ \/ unlock /\ UNCHANGED <<alive, halted>>
     \/ fs_lock' = p /\ Fault(p)
  /\ UNCHANGED <<disk, mem, fds, wd>>

\* The type of a null file is read with fs_lock held, and copy_in_data() ends
\* the process with fs_lock held if the buffer is bad.
sys_write(p, fd) ==
  LET f == thread_get_file(p, fd) IN
  /\ Calls(p) /\ CanLock(p)
  /\ \/ /\ f = NULL
        /\ fs_lock' = p /\ Fault(p)
     \/ /\ f # NULL
        /\ unlock /\ UNCHANGED <<alive, halted>>
     \/ /\ f # NULL /\ kind[f.inode] = "file"
        /\ fs_lock' = p /\ alive' = alive \ {p} /\ UNCHANGED halted
  /\ UNCHANGED <<disk, mem, fds, wd>>

\* Calls that only look: a bad descriptor is an error result.
Inspect(p) ==
  /\ Calls(p) /\ fs_lock = p /\ unlock
  /\ UNCHANGED <<disk, mem, fds, wd, alive, halted>>

\* The next entry that is neither "." nor ".."; the position is kept unless
\* there is none.
sys_readdir(p, fd) ==
  LET f == thread_get_file(p, fd)
      es == entries[f.inode]
      left == {i \in InUse(f.inode) : i > f.pos}
      rest == left \ IF left # {} /\ es[least(left)].name = "."
                     THEN {i \in left : i = least(left) \/ es[i].name = ".."} ELSE {}
  IN
  /\ Calls(p) /\ CanLock(p) /\ f # NULL /\ kind[f.inode] = "dir"
  /\ unlock
  /\ fd_table' = IF rest = {} THEN fd_table
                 ELSE [fd_table EXCEPT ![fd].pos = least(rest)]
  /\ UNCHANGED <<disk, mem, fd_list, wd, alive, halted>>

\* Neither descriptors nor the working directory nor fs_lock are given back.
sys_exit(p) ==
  /\ Calls(p)
  /\ alive' = alive \ {p}
  /\ UNCHANGED <<disk, mem, fds, wd, fs_lock, halted>>

syscall_handler(p) ==
  \/ \E path \in Path : \/ sys_create(p, path) \/ sys_mkdir(p, path)
                        \/ sys_open(p, path) \/ sys_remove(p, path)
                        \/ sys_chdir(p, path)
  \/ \E fd \in Fd : \/ sys_close(p, fd) \/ sys_seek(p, fd) \/ sys_tell(p, fd)
                    \/ sys_read(p, fd) \/ sys_write(p, fd)
                    \/ sys_readdir(p, fd)
  \/ Inspect(p) \/ sys_exit(p)

Next == \E p \in Proc : syscall_handler(p)
Spec == Init /\ [][Next]_vars

-----------------------------------------------------------------------------
(* Properties.                                                             *)

TypeOK ==
  /\ kind \in [Sector -> {"none", "file", "dir", "map"}]
  /\ entries \in [Sector -> Seq(DirEntry)]
  /\ free \subseteq Sector /\ removed \subseteq Sector /\ freed \subseteq Sector
  /\ open_cnt \in [Sector -> Nat]
  /\ fd_table \in [Fd -> File \cup {NULL}]
  /\ fd_list \in [Proc -> [1..FD_LIST_LEN -> Fd \cup {0, -1}]]
  /\ wd \in [Proc -> Sector]
  /\ fs_lock \in Proc \cup {NULL} /\ alive \subseteq Proc /\ halted \in BOOLEAN

OpenFds(p) == {fd \in Fd : thread_get_file(p, fd) # NULL}

\* Every open descriptor and working directory is counted: the inode behind it
\* has at least that many openers, so it is never freed under its users
\* (inode_close() frees it at 0), and no two processes have a descriptor of the
\* shared fd_table open at once.
ReferencesCounted ==
  /\ \A s \in Sector :
       open_cnt[s] >= Cardinality({p \in Proc : wd[p] = s})
                      + Cardinality({fd \in Fd : \E p \in Proc :
                          fd \in OpenFds(p) /\ fd_table[fd].inode = s})
  /\ \A p, q \in Proc : p # q => OpenFds(p) \cap OpenFds(q) = {}

\* What a name leads to exists: its sector is not free, its blocks were not
\* deallocated, no other name leads to it ("." and ".." aside), and a directory
\* has a name once.
TreeSound ==
  \A s \in Sector : \A i \in InUse(s) :
    LET e == entries[s][i] IN
    /\ e.sector \notin free
    /\ s \notin freed /\ e.sector # ROOT_DIR_SECTOR =>
         e.sector \notin freed \cup removed
    /\ e.name \notin {".", ".."} /\ e.sector # FREE_MAP_SECTOR =>
         \A r \in Sector : \A j \in InUse(r) :
           entries[r][j].sector = e.sector /\ entries[r][j].name \notin {".", ".."}
             => <<r, j>> = <<s, i>>
    /\ \A j \in InUse(s) : entries[s][j].name = e.name => i = j

\* No process loses its working directory to another one's remove.
WorkingDirKept == \A p \in Proc : wd[p] \notin removed \cup freed

\* remove() of a directory "must fail, because that directory is non-empty".
NonEmptyKept ==
  [][\A s \in Sector : kind[s] = "dir" /\ s \notin removed \cup freed
       /\ s \in removed' \cup freed' =>
         \A i \in InUse(s) : entries[s][i].name \in {".", ".."}]_vars

\* A create() that fails, because the disk is full, changes no directory.
CreateNeedsSector ==
  [][free = {} => \A s \in Sector : Cardinality(InUse(s)') <= Cardinality(InUse(s))]_vars
=============================================================================
