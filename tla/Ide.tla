--------------------------------- MODULE Ide --------------------------------
(***************************************************************************)
(* Reading and writing sectors of ATA disks that share a channel           *)
(* (devices/ide.c).  The disks (Disk...) are external hardware: a disk     *)
(* given a command is busy, asks for the data to be moved, and raises the  *)
(* channel's interrupt when it has read, or stored, the sector.            *)
(***************************************************************************)
EXTENDS Naturals

CONSTANTS User, NULL, Drive, Sector, Word

VARIABLES
  ipc,         \* [User -> where it is in ide_read() or ide_write()]
  io,          \* [User -> drive, sector, data, write]
  got,         \* [User -> what it read last]
  chan_lock, completion_wait, expecting_interrupt,
  selected,    \* drive and sector in the channel's registers
  drive,       \* [Drive -> phase, sector]
  port,        \* the channel's data register
  irq, platter

dvars == <<ipc, io, got, chan_lock, completion_wait, expecting_interrupt, selected,
           drive, port, irq, platter>>

Ready == [phase |-> "idle", sector |-> NULL]

\* The reset of the channel may leave an interrupt pending.
IdeInit ==
  /\ ipc = [u \in User |-> "idle"] /\ io = [u \in User |-> NULL]
  /\ chan_lock = NULL /\ completion_wait = 0 /\ expecting_interrupt = FALSE
  /\ selected = NULL /\ drive = [d \in Drive |-> Ready]
  /\ \E w \in Word : /\ port = w /\ platter = [x \in Drive \X Sector |-> w]
                     /\ got = [u \in User |-> w]
  /\ irq \in BOOLEAN

at(u, from, next) == ipc[u] = from /\ ipc' = [ipc EXCEPT ![u] = next]
Up == \A u \in User : ipc[u] # "panic"

-----------------------------------------------------------------------------
(* ide_read() and ide_write().                                             *)

Call(u) ==
  /\ Up /\ at(u, "idle", "lock")
  /\ \E d \in Drive, s \in Sector, v \in Word, w \in BOOLEAN :
       io' = [io EXCEPT ![u] = [drive |-> d, sector |-> s, data |-> v, write |-> w]]
  /\ UNCHANGED <<got, chan_lock, completion_wait, expecting_interrupt, selected, drive,
                 port, irq, platter>>

LockChannel(u) ==
  /\ Up /\ at(u, "lock", "select")
  /\ chan_lock = NULL /\ chan_lock' = u
  /\ UNCHANGED <<io, got, completion_wait, expecting_interrupt, selected, drive, port,
                 irq, platter>>

\* select_sector() waits until the disk is idle; reading the status register
\* clears a pending interrupt.
select_sector(u) ==
  /\ Up /\ at(u, "select", "issue")
  /\ drive[io[u].drive].phase = "idle"
  /\ selected' = <<io[u].drive, io[u].sector>>
  /\ irq' = FALSE
  /\ UNCHANGED <<io, got, chan_lock, completion_wait, expecting_interrupt, drive, port,
                 platter>>

issue_pio_command(u) ==
  /\ Up /\ at(u, "issue", IF io[u].write THEN "busy" ELSE "sleep")
  /\ expecting_interrupt' = TRUE
  /\ drive' = [drive EXCEPT ![selected[1]] =
       [phase |-> IF io[u].write THEN "getting" ELSE "reading", sector |-> selected[2]]]
  /\ UNCHANGED <<io, got, chan_lock, completion_wait, selected, port, irq, platter>>

\* sema_down (&c->completion_wait)
AwaitCompletion(u) ==
  /\ Up /\ at(u, "sleep", IF io[u].write THEN "done" ELSE "busy")
  /\ completion_wait > 0 /\ completion_wait' = completion_wait - 1
  /\ UNCHANGED <<io, got, chan_lock, expecting_interrupt, selected, drive, port, irq,
                 platter>>

\* wait_while_busy(), then input_sector() or output_sector(); no data: panic.
wait_while_busy(u) ==
  LET d == io[u].drive IN
  /\ Up /\ ipc[u] = "busy"
  /\ \/ /\ drive[d].phase = "data in" /\ ~ io[u].write
        /\ at(u, "busy", "done")
        /\ got' = [got EXCEPT ![u] = port]
        /\ drive' = [drive EXCEPT ![d] = Ready]
        /\ UNCHANGED port
     \/ /\ drive[d].phase = "data out" /\ io[u].write
        /\ at(u, "busy", "sleep")
        /\ port' = io[u].data
        /\ drive' = [drive EXCEPT ![d].phase = "writing"]
        /\ UNCHANGED got
     \/ /\ drive[d].phase \in {"idle", "failed"}
        /\ at(u, "busy", "panic")
        /\ UNCHANGED <<got, drive, port>>
  /\ UNCHANGED <<io, chan_lock, completion_wait, expecting_interrupt, selected, irq, platter>>

Release(u) ==
  /\ Up /\ at(u, "done", "idle")
  /\ chan_lock' = NULL
  /\ UNCHANGED <<io, got, completion_wait, expecting_interrupt, selected, drive, port, irq,
                 platter>>

interrupt_handler ==
  /\ irq /\ irq' = FALSE
  /\ completion_wait' = completion_wait + IF expecting_interrupt THEN 1 ELSE 0
  /\ UNCHANGED <<ipc, io, got, chan_lock, expecting_interrupt, selected, drive, port, platter>>

-----------------------------------------------------------------------------
(* The disks.                                                              *)

DiskAcceptsWrite(d) ==
  /\ drive[d].phase = "getting"
  /\ drive' = [drive EXCEPT ![d].phase = "data out"]
  /\ UNCHANGED <<port, irq, platter>>

DiskReads(d) ==
  /\ drive[d].phase = "reading"
  /\ \/ drive' = [drive EXCEPT ![d].phase = "data in"] /\ port' = platter[<<d, drive[d].sector>>]
     \/ drive' = [drive EXCEPT ![d].phase = "failed"] /\ UNCHANGED port
  /\ irq' = TRUE
  /\ UNCHANGED platter

DiskStores(d) ==
  /\ drive[d].phase = "writing"
  /\ platter' = [platter EXCEPT ![<<d, drive[d].sector>>] = port]
  /\ drive' = [drive EXCEPT ![d] = Ready]
  /\ irq' = TRUE
  /\ UNCHANGED port

Disk(d) ==
  /\ DiskAcceptsWrite(d) \/ DiskReads(d) \/ DiskStores(d)
  /\ UNCHANGED <<ipc, io, got, chan_lock, completion_wait, expecting_interrupt, selected>>

IdeNext ==
  \/ \E u \in User : \/ Call(u) \/ LockChannel(u) \/ select_sector(u)
                     \/ issue_pio_command(u) \/ AwaitCompletion(u)
                     \/ wait_while_busy(u) \/ Release(u)
  \/ interrupt_handler
  \/ \E d \in Drive : Disk(d)

IdeSpec == IdeInit /\ [][IdeNext]_dvars

-----------------------------------------------------------------------------
(* Properties.                                                             *)

\* With two disks on a channel and several threads: a read returns what its
\* sector of its disk holds, and a write returns only after the disk has the
\* data ("Returns after the disk has acknowledged receiving the data").
IdeExact ==
  \A u \in User : ipc[u] = "done" =>
    platter[<<io[u].drive, io[u].sector>>] = IF io[u].write THEN io[u].data ELSE got[u]

\* No completion is left over for the next command, which would take it for
\* its own and return early.
CompletionFresh == chan_lock = NULL => completion_wait = 0 /\ (irq => ~ expecting_interrupt)
=============================================================================
