------------------------------ MODULE Devices -------------------------------
(***************************************************************************)
(* The drivers side by side: the IDE channel, the disk on USB, the UHCI    *)
(* controller, the USB core, and block devices with their partitions.      *)
(* Each has variables of its own: the models share no state.               *)
(***************************************************************************)
EXTENDS Naturals, Null

CONSTANTS
  User, Drive, Sector, Word,        \* Ide
  Client, Lba, Data,              \* UsbStorage
  Sender, TD_ENTRIES, MaxPackets,   \* Uhci
  Class, QH_ENTRIES, ADDRS_PER_HOST, MaxDevs, \* UsbCore
  W, DISK_SIZE, PartTable, Role, MaxDepth     \* BlockDev

VARIABLES
  ipc, io, got, chan_lock, completion_wait, expecting_interrupt, selected, drive,
  port, irq, platter,
  spc, sreq, buf, mci_lock, retrying, bounce_buffer, device, medium,
  upc, left, mine, toggle, td, td_used, td_sem, queue, waiting, woken, uhci_lock,
  running, usbint, raced,
  frame_list, qh_used, chan_addr, usb_dev_addrs, devs, class_list, stage, current, pending,
  blocks, role, scan, pt, calls, last

INSTANCE Ide
INSTANCE UsbStorage
INSTANCE Uhci
INSTANCE UsbCore
INSTANCE BlockDev

-----------------------------------------------------------------------------
(* Properties.                                                             *)

\* usb_uhci.c and usb.c: descriptors are conserved and come back, completions
\* wake their sender, toggles alternate, and channels and interfaces are set up
\* once.
UsbSound ==
  /\ TdConserved /\ NoLostCompletion /\ TogglesAlternate /\ TdComes
  /\ CoreSound

\* ide.c, block.c and partition.c: a transfer moves the right sector's data for
\* its caller, and no access leaves its partition or the disk.
DisksSound == IdeExact /\ CompletionFresh /\ InsideDisk
=============================================================================
