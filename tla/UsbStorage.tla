----------------------------- MODULE UsbStorage -----------------------------
(***************************************************************************)
(* Reading and writing blocks of a USB disk (devices/usb_storage.c): a     *)
(* command, the data and a status, each a bulk transfer that may fail.     *)
(*                                                                         *)
(* The device is external.  It takes a command, moves the data, answers    *)
(* with a status; a transfer it does not expect fails, and clearing its    *)
(* endpoints does not make it forget a command.  A status may come without *)
(* its signature.                                                          *)
(***************************************************************************)
EXTENDS Naturals

CONSTANTS Client, NULL, Lba, Data

VARIABLES
  spc,       \* [Client -> where it is in msc_io()]
  sreq,       \* [Client -> its request: block, data, write]
  buf,       \* [Client -> the caller's buffer]
  mci_lock, retrying, bounce_buffer,
  device,    \* [phase, block, write]
  medium     \* [Lba -> Data]: what the disk holds

svars == <<spc, sreq, buf, mci_lock, retrying, bounce_buffer, device, medium>>

Idle == [phase |-> "command", block |-> NULL, write |-> FALSE]

StorageInit ==
  /\ spc = [c \in Client |-> "idle"] /\ sreq = [c \in Client |-> NULL]
  /\ \E v \in Data : /\ buf = [c \in Client |-> v] /\ bounce_buffer = v
                     /\ medium = [b \in Lba |-> v]
  /\ mci_lock = NULL /\ retrying = FALSE /\ device = Idle

goto(c, from, dest) == spc[c] = from /\ spc' = [spc EXCEPT ![c] = dest]
Running == \A c \in Client : spc[c] # "panic"

-----------------------------------------------------------------------------
\* msc_read() and msc_write() take the lock and call msc_io().
Request(c) ==
  /\ Running /\ goto(c, "idle", "lock")
  /\ \E b \in Lba, v \in Data, w \in BOOLEAN :
       /\ sreq' = [sreq EXCEPT ![c] = [block |-> b, write |-> w, data |-> v]]
       /\ buf' = IF w THEN [buf EXCEPT ![c] = v] ELSE buf
  /\ UNCHANGED <<mci_lock, retrying, bounce_buffer, device, medium>>

Lock(c) ==
  /\ Running /\ goto(c, "lock", "start")
  /\ mci_lock = NULL /\ mci_lock' = c
  /\ UNCHANGED <<sreq, buf, retrying, bounce_buffer, device, medium>>

\* The start of msc_io(); a retry enters here again.
msc_io(c) ==
  /\ Running /\ goto(c, "start", "command")
  /\ bounce_buffer' = IF sreq[c].write THEN buf[c] ELSE bounce_buffer
  /\ UNCHANGED <<sreq, buf, mci_lock, retrying, device, medium>>

Commanded(c) == [phase |-> "data", block |-> sreq[c].block, write |-> sreq[c].write]

\* A command that fails is sent once more, and the second result is not looked at.
Command(c) ==
  /\ Running
  /\ \/ /\ goto(c, "command", "data")
        /\ device.phase = "command" /\ device' = Commanded(c)
     \/ /\ goto(c, "command", "again")
        /\ UNCHANGED device
     \/ /\ goto(c, "again", "data")
        /\ \/ device.phase = "command" /\ device' = Commanded(c)
           \/ UNCHANGED device
  /\ UNCHANGED <<sreq, buf, mci_lock, retrying, bounce_buffer, medium>>

\* A short transfer fails the assertion that all of the block moved.
Transfer(c) ==
  /\ Running
  /\ \/ /\ goto(c, "data", "status")
        /\ device.phase = "data" /\ device.write = sreq[c].write
        /\ device' = [device EXCEPT !.phase = "status"]
        /\ IF device.write
             THEN medium' = [medium EXCEPT ![device.block] = bounce_buffer]
                  /\ UNCHANGED bounce_buffer
             ELSE bounce_buffer' = medium[device.block] /\ UNCHANGED medium
     \/ goto(c, "data", "panic") /\ UNCHANGED <<device, bounce_buffer, medium>>
  /\ UNCHANGED <<sreq, buf, mci_lock, retrying>>

\* Mutant: a request that succeeds leaves the retry of an earlier one spent.
Done_spent(c) ==
  /\ device.phase = "status" /\ device' = Idle
  /\ UNCHANGED retrying
  /\ buf' = IF sreq[c].write THEN buf ELSE [buf EXCEPT ![c] = bounce_buffer]
  /\ mci_lock' = NULL

\* The status: missing, it is asked for once more after clearing the endpoints;
\* failed, the kernel panics; without signature, the device is reset and the
\* whole request done again, once.
Done(c) ==
  /\ device.phase = "status" /\ device' = Idle
  /\ retrying' = FALSE
  /\ buf' = IF sreq[c].write THEN buf ELSE [buf EXCEPT ![c] = bounce_buffer]
  /\ mci_lock' = NULL

\* msc_reset_recovery(): the device forgets the command.
Recover ==
  /\ device' = Idle /\ retrying' = TRUE
  /\ UNCHANGED <<buf, mci_lock>>

Status(c) ==
  /\ Running /\ spc[c] \in {"status", "status again"}
  /\ \/ goto(c, spc[c], "idle") /\ Done(c)
     \/ goto(c, "status", "status again") /\ UNCHANGED <<device, retrying, buf, mci_lock>>
     \/ goto(c, spc[c], "start") /\ ~ retrying /\ Recover
     \/ goto(c, spc[c], "panic") /\ UNCHANGED <<device, retrying, buf, mci_lock>>
  /\ UNCHANGED <<sreq, bounce_buffer, medium>>

Step(c) == msc_io(c) \/ Command(c) \/ Transfer(c) \/ Status(c)
StorageNext == \E c \in Client : Request(c) \/ Lock(c) \/ Step(c)
StorageSpec == StorageInit /\ [][StorageNext]_svars

-----------------------------------------------------------------------------
(* Properties.                                                             *)

\* A request that returns was carried out, through failures and retries and
\* with other threads using the same device: the block read, or written, is the
\* one asked for, the data is its data, and the next request has its retry.
ExactStep ==
     \A c \in Client : spc[c] \in {"status", "status again"} /\ spc'[c] = "idle" =>
       /\ medium[sreq[c].block] = buf'[c]
       /\ sreq[c].write => buf'[c] = sreq[c].data
       /\ ~ retrying'
IoExact == [][ExactStep]_svars
=============================================================================
