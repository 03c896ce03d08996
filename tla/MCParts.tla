------------------------------ MODULE MCParts -------------------------------
(***************************************************************************)
(* The parts of the kernel that share no state, each on a small instance.  *)
(* A behaviour is a behaviour of one part, chosen at the start; the others *)
(* stay in an initial state, or Off.                                       *)
(***************************************************************************)
EXTENDS Memory, InodeIndex, Devices, TLC

VARIABLES
  part,
  bitmap,
  phdrs, lpc, hdr, seg, map, pagedir, tables, user_free, kernel_free,
  heap, contents,
  buckets, hash_elem_cnt

memvars == <<used_map, pool_lock, desc_lock, arena, free_list, pc, req, idx,
  owner>>
ldrvars == <<phdrs, lpc, hdr, seg, map, pagedir, tables, user_free,
  kernel_free>>
inovars == <<inode, table, data, used, made, stopped>>
lstvars == <<heap, contents>>
tabvars == <<buckets, hash_elem_cnt>>
hcivars == <<upc, left, mine, toggle, td, td_used, td_sem, queue, waiting,
  woken, uhci_lock, running, usbint, raced>>
usbvars == <<frame_list, qh_used, chan_addr, usb_dev_addrs, devs, class_list,
  stage, current, pending>>
mscvars == <<spc, sreq, buf, mci_lock, retrying, bounce_buffer, device,
  medium>>
atavars == <<ipc, io, got, chan_lock, completion_wait, expecting_interrupt,
  selected, drive, port, irq, platter>>
blkvars == <<blocks, role, scan, pt, calls, last>>

Off == 0

-----------------------------------------------------------------------------
(* The instances.                                                          *)

\* Memory: 3 pages, blocks of half a page, requests of one block or of 2 pages;
\* the bitmap has elements of 2 bits, so the pool takes two of them.
MCBlocksPerArena == [d \in Desc |-> 2]

\* Every content of up to 5 bits in elements of 2, with any unused bits.
Bitmaps ==
  UNION {{[bit_cnt |-> n, bits |-> f] : f \in [0..(elem_cnt(n) - 1) -> SUBSET Bit]}
           : n \in 1..5}

Header(t, o, v, f, m) ==
  [type |-> t, offset |-> o, vaddr |-> v, filesz |-> f, memsz |-> m]

\* One segment anywhere, in or out of user memory and of the file, also
\* wrapping around the address space; two adjacent or overlapping ones; headers
\* that are ignored or refused.
MCImage ==
  {<<Header("PT_LOAD", o, v, f, m)>> : o \in 0..2, v \in 0..15, f \in {0, 1, 3},
                                       m \in {0, 1, 3, 6, 14}}
  \cup {<<Header("PT_NULL", 0, 0, 0, 0), Header("PT_INTERP", 0, 0, 0, 0)>>}
  \cup {<<Header("PT_LOAD", 0, 2, 2, m), Header("PT_LOAD", 2, v, 1, n)>> :
          m \in 2..4, v \in {4, 6}, n \in 1..2}

\* 16 addresses, pages of 2 bytes, user memory below 10.
INSTANCE Loader WITH pc <- lpc, i <- hdr, W <- 4, PGSIZE <- 2, PHYS_BASE <- 10,
  PTES <- 2, FLEN <- 3, USER_PAGES <- 4, KERNEL_PAGES <- 4,
  CmdBytes <- {1, 3}, Image <- MCImage

\* InodeIndex: sectors of 2 bytes and 2 pointers, one of them direct: files grow
\* through the indirect into the double indirect block, and the disk gets full.
\* Writes start at the first byte, at the end, or one byte past it.

\* Two lists and 4 elements, two of which compare equal.
Lst == INSTANCE List WITH ListId <- {1, 2}, Item <- 1..4, Key <- <<1, 1, 2, 3>>

\* 4 keys: the table grows from one bucket to two and shrinks again.
Tab == INSTANCE Hash WITH HKey <- 0..3, Copy <- {1, 2}, MIN_BUCKETS <- 1

\* Devices: two senders whose transfers together need more descriptors than there
\* are; a disk of 6 sectors, numbered modulo 8, with tables that reach past its end.
Entry ==
  {[type |-> "empty", offset |-> 0, size |-> 0]}
  \cup [type : {"fs", "other"}, offset : {0, 2, 6, 7}, size : {1, 4, 5}]
  \cup [type : {"extended"}, offset : {2, 3, 4}, size : {2}]
MCPartTable == {<<e, f>> : e, f \in Entry}

-----------------------------------------------------------------------------
(* One part runs.                                                          *)

\* Of the initial states of a part that does not run, one is enough.
IdleInit ==
  /\ part # "memory" => used_map = bitmap_create(3, [e \in 0..1 |-> {}])
  /\ part # "loader" => phdrs = <<Header("PT_NULL", 0, 0, 0, 0), Header("PT_INTERP", 0, 0, 0, 0)>>
                        /\ user_free = 0 /\ kernel_free = 0
  /\ part # "storage" => bounce_buffer = "x"
  /\ part # "ide" => port = "x" /\ irq = FALSE

PartsInit ==
  /\ part \in {"memory", "bitmap", "loader", "inode", "list", "hash", "uhci", "usb", "storage",
               "ide", "block"}
  /\ IdleInit
  /\ Init /\ LoadInit /\ InodeInit /\ UhciInit /\ CoreInit /\ StorageInit /\ IdeInit /\ BlockInit
  /\ IF part = "bitmap" THEN bitmap \in Bitmaps ELSE bitmap = Off
  /\ IF part = "list" THEN Lst!ListInit ELSE heap = Off /\ contents = Off
  /\ IF part = "hash" THEN Tab!HashInit ELSE buckets = Off /\ hash_elem_cnt = Off

PartsNext ==
  /\ UNCHANGED <<part, bitmap>>
  /\ IF part = "memory" THEN Next ELSE UNCHANGED memvars
  /\ IF part = "loader" THEN LoadNext ELSE UNCHANGED ldrvars
  /\ IF part = "inode" THEN InodeNext ELSE UNCHANGED inovars
  /\ IF part = "list" THEN Lst!ListNext ELSE UNCHANGED lstvars
  /\ IF part = "hash" THEN Tab!HashNext ELSE UNCHANGED tabvars
  /\ IF part = "uhci" THEN UhciNext ELSE UNCHANGED hcivars
  /\ IF part = "usb" THEN CoreNext ELSE UNCHANGED usbvars
  /\ IF part = "storage" THEN StorageNext ELSE UNCHANGED mscvars
  /\ IF part = "ide" THEN IdeNext ELSE UNCHANGED atavars
  /\ IF part = "block" THEN BlockNext ELSE UNCHANGED blkvars

partsvars == <<part, bitmap, memvars, ldrvars, inovars, lstvars, tabvars, hcivars,
               usbvars, mscvars, atavars, blkvars>>

PartsSpec == PartsInit /\ [][PartsNext]_partsvars

Symmetry == Permutations(File) \cup Permutations(Sender)

-----------------------------------------------------------------------------
(* Properties: MemorySound (module Memory), ImageSound (Loader),           *)
(* IndexSound (InodeIndex), UsbSound and DisksSound (Devices), which hold  *)
(* of a part that does not run too, and those of the other parts.          *)

\* list.c, hash.c and bitmap.c: pointers, buckets and words hold what the
\* operations put there.
StructuresSound ==
  /\ part = "list" => Lst!ListsLinked
  /\ part = "hash" => Tab!TableSound
  /\ part = "bitmap" => ActsAsSet(bitmap)

\* process.c, inode.c, hash.c and usb_storage.c, step by step: loading and
\* tearing down conserve pages, a file acts as an array of bytes and returns its
\* sectors when removed, a rehash loses nothing, and a request to a USB disk that
\* returns was carried out.
StepsExact ==
  [][/\ part = "loader" => ConservesPages
     /\ part = "inode" => ByteArrayStep /\ ReturnsAllStep
     /\ part = "hash" => Tab!OneKeyStep
     /\ part = "storage" => ExactStep]_partsvars
=============================================================================
