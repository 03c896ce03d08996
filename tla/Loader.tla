------------------------------- MODULE Loader -------------------------------
(***************************************************************************)
(* load() and its helpers (userprog/process.c) and the page directory they *)
(* fill (userprog/pagedir.c): one process loads one executable, whose      *)
(* program headers are arbitrary, and exits.  Addresses are W bits wide and *)
(* wrap, as uint32_t does.  Memory may run out at every allocation.        *)
(***************************************************************************)
EXTENDS Integers, Sequences, FiniteSets

CONSTANTS
  W, PGSIZE, PHYS_BASE, \* address width, page size, end of user addresses
  PTES,                 \* entries of a page table
  Image,                \* executables: sequences of program headers
  FLEN,                 \* length of the file
  USER_PAGES, KERNEL_PAGES, \* free pages of the two pools
  CmdBytes              \* bytes setup_stack() needs on the stack page

VARIABLES
  phdrs,        \* the program headers of the file
  pc,
  i,            \* load()'s loop index
  seg,          \* load_segment()'s upage, ofs, read_bytes, zero_bytes
  map,          \* user page -> where its bytes come from
  pagedir,      \* whether the process has a page directory
  tables,       \* its entries that are present: one page table each
  user_free, kernel_free \* pages left in the pools

lvars == <<phdrs, pc, i, seg, map, pagedir, tables, user_free, kernel_free>>

U(x) == x % 2 ^ W
Ofs(a) == a % PGSIZE
PageOf(a) == a \div PGSIZE
ROUND_UP(x) == U((U(x + PGSIZE - 1) \div PGSIZE) * PGSIZE)
is_user_vaddr(a) == a < PHYS_BASE
StackPage == PageOf(PHYS_BASE) - 1
NoSeg == [upage |-> 0, ofs |-> 0, read |-> 0, zero |-> 0]

LoadInit ==
  /\ phdrs \in Image
  /\ pc = "start" /\ i = 1 /\ seg = NoSeg
  /\ map = <<>> /\ pagedir = FALSE /\ tables = {}
  /\ user_free \in 0..USER_PAGES /\ kernel_free \in 0..KERNEL_PAGES

\* pagedir_create(); the executable is opened and its header is good.
pagedir_create ==
  /\ pc = "start"
  /\ IF kernel_free = 0 THEN pc' = "failed" /\ UNCHANGED <<pagedir, kernel_free>>
     ELSE pc' = "header" /\ pagedir' = TRUE /\ kernel_free' = kernel_free - 1
  /\ UNCHANGED <<phdrs, i, seg, map, tables, user_free>>

\* Mutant: no check that the region does not wrap around.
validate_segment_wraps(h) ==
  /\ Ofs(h.offset) = Ofs(h.vaddr)
  /\ h.offset <= FLEN
  /\ h.memsz >= h.filesz
  /\ h.memsz # 0
  /\ is_user_vaddr(h.vaddr)
  /\ is_user_vaddr(U(h.vaddr + h.memsz))
  /\ ~ h.vaddr < PGSIZE

\* The checks of validate_segment(), in order; p_vaddr + p_memsz wraps.
validate_segment(h) ==
  /\ Ofs(h.offset) = Ofs(h.vaddr)
  /\ h.offset <= FLEN
  /\ h.memsz >= h.filesz
  /\ h.memsz # 0
  /\ is_user_vaddr(h.vaddr)
  /\ is_user_vaddr(U(h.vaddr + h.memsz))
  /\ ~ U(h.vaddr + h.memsz) < h.vaddr
  /\ ~ h.vaddr < PGSIZE

\* What load() passes to load_segment().
Segment(h) ==
  LET page_offset == Ofs(h.vaddr)
      all  == ROUND_UP(page_offset + h.memsz)
      read == IF h.filesz > 0 THEN U(page_offset + h.filesz) ELSE 0
  IN  [upage |-> PageOf(h.vaddr), ofs |-> h.offset - Ofs(h.offset),
       read |-> read, zero |-> U(all - read)]

\* One turn of load()'s loop: the header is ignored, refused, or loaded.
ProgramHeader ==
  /\ pc = "header" /\ i <= Len(phdrs)
  /\ LET h == phdrs[i] IN
       \/ /\ h.type = "PT_NULL"
          /\ i' = i + 1 /\ UNCHANGED <<pc, seg>>
       \/ /\ h.type = "PT_INTERP" \/ (h.type = "PT_LOAD" /\ ~ validate_segment(h))
          /\ pc' = "failed" /\ UNCHANGED <<i, seg>>
       \/ /\ h.type = "PT_LOAD" /\ validate_segment(h)
          /\ seg' = Segment(h)
          /\ pc' = "segment" /\ UNCHANGED i
  /\ UNCHANGED <<phdrs, pagedir, map, tables, user_free, kernel_free>>

\* install_page(): fails if the page is mapped or its page table cannot be
\* allocated.
CanInstall(p) ==
  /\ p \notin DOMAIN map
  /\ p \div PTES \in tables \/ kernel_free > 0

install_page(p, content) ==
  LET new == p \div PTES \notin tables IN
  /\ map' = [q \in DOMAIN map \cup {p} |-> IF q = p THEN content ELSE map[q]]
  /\ tables' = tables \cup {p \div PTES}
  /\ kernel_free' = IF new THEN kernel_free - 1 ELSE kernel_free
  /\ user_free' = user_free - 1

\* One turn of load_segment()'s loop: palloc_get_page(), file_read(), memset(),
\* install_page().  A page that is not installed is freed.
LoadPage ==
  LET page_read == IF seg.read < PGSIZE THEN seg.read ELSE PGSIZE
      short     == seg.ofs + page_read > FLEN /\ page_read > 0
  IN
  /\ pc = "segment" /\ (seg.read > 0 \/ seg.zero > 0)
  /\ \/ /\ user_free = 0 \/ short \/ ~ CanInstall(seg.upage)
        /\ pc' = "failed"
        /\ UNCHANGED <<seg, map, tables, user_free, kernel_free>>
     \/ /\ user_free > 0 /\ ~ short /\ CanInstall(seg.upage)
        /\ install_page(seg.upage, [ofs |-> seg.ofs, read |-> page_read])
        /\ seg' = [upage |-> seg.upage + 1, ofs |-> seg.ofs + page_read,
                   read |-> seg.read - page_read,
                   zero |-> U(seg.zero - (PGSIZE - page_read))]
        /\ UNCHANGED pc
  /\ UNCHANGED <<phdrs, pagedir, i>>

SegmentDone ==
  /\ pc = "segment" /\ seg.read = 0 /\ seg.zero = 0
  /\ pc' = "header" /\ i' = i + 1 /\ seg' = NoSeg
  /\ UNCHANGED <<phdrs, pagedir, map, tables, user_free, kernel_free>>

\* setup_stack(): the command line and argv are written below PHYS_BASE without
\* a check against the page; past it the kernel faults and the thread exits.
setup_stack ==
  /\ pc = "header" /\ i = Len(phdrs) + 1
  /\ \/ /\ user_free = 0 \/ ~ CanInstall(StackPage)
        /\ pc' = "failed"
        /\ UNCHANGED <<map, tables, user_free, kernel_free>>
     \/ /\ user_free > 0 /\ CanInstall(StackPage)
        /\ install_page(StackPage, [ofs |-> FLEN, read |-> 0])
        /\ \E n \in CmdBytes : pc' = IF n > PGSIZE THEN "failed" ELSE "loaded"
  /\ UNCHANGED <<phdrs, pagedir, i, seg>>

\* process_exit(): pagedir_destroy() frees every page that is present, the page
\* tables and the directory.
pagedir_destroy ==
  /\ pc \in {"failed", "loaded"}
  /\ user_free' = user_free + Cardinality(DOMAIN map)
  /\ kernel_free' = kernel_free + Cardinality(tables) + (IF pagedir THEN 1 ELSE 0)
  /\ pagedir' = FALSE
  /\ map' = <<>> /\ tables' = {} /\ pc' = "dead"
  /\ UNCHANGED <<phdrs, i, seg>>

LoadNext == pagedir_create \/ ProgramHeader \/ LoadPage \/ SegmentDone
            \/ setup_stack \/ pagedir_destroy

LoadSpec == LoadInit /\ [][LoadNext]_lvars

-----------------------------------------------------------------------------
(* Properties.                                                             *)

\* A process that is loaded sees, at every address of every PT_LOAD segment, the
\* byte of the file that belongs there or zero behind p_filesz.
ImageExact ==
  pc = "loaded" =>
    \A k \in 1..Len(phdrs) : LET h == phdrs[k] IN h.type = "PT_LOAD" =>
      \A a \in h.vaddr..(h.vaddr + h.memsz - 1) :
        /\ PageOf(a) \in DOMAIN map
        /\ LET m == map[PageOf(a)] IN
             IF a - h.vaddr < h.filesz
               THEN Ofs(a) < m.read /\ m.ofs + Ofs(a) = h.offset + (a - h.vaddr)
               ELSE Ofs(a) >= m.read

\* No executable, whatever its headers, maps page 0 or a kernel address, and
\* what is left of a segment is always whole pages (the ASSERTs of
\* load_segment() and pagedir_set_page()).
UserPagesOnly ==
  /\ \A p \in DOMAIN map : p # 0 /\ is_user_vaddr(p * PGSIZE)
  /\ pc = "segment" => U(seg.read + seg.zero) % PGSIZE = 0

ImageSound == ImageExact /\ UserPagesOnly

\* Wherever loading stops, the exit gives back every page: no step loses or
\* doubles a page of either pool, and a dead process holds none.
ConservesPages ==
     LET held(m, t, pd) == <<Cardinality(DOMAIN m), Cardinality(t)
                                                  + IF pd THEN 1 ELSE 0>>
         before == held(map, tables, pagedir)
         after  == held(map', tables', pagedir')
     IN /\ user_free' + after[1] = user_free + before[1]
        /\ kernel_free' + after[2] = kernel_free + before[2]
        /\ pc' = "dead" => after = <<0, 0>>
PagesConserved == [][ConservesPages]_lvars
=============================================================================
