------------------------------ MODULE UsbCore -------------------------------
(***************************************************************************)
(* Finding USB devices (devices/usb.c), with the channels the UHCI driver  *)
(* keeps for them (devices/usb_uhci.c).                                    *)
(*                                                                         *)
(* One thread does it all while the system boots: it registers class       *)
(* drivers, and scans the host controllers one after the other.  Every     *)
(* exchange with a device may fail.  A channel is its queue head; the      *)
(* frame list is the sequence of queue heads the controller visits.        *)
(***************************************************************************)
EXTENDS ListOps

CONSTANTS
  Class,           \* ids of class drivers and of interfaces
  QH_ENTRIES, ADDRS_PER_HOST,
  MaxDevs          \* bound: devices on one host

ADDR_DEFAULT == 0
NONE == 0

VARIABLES
  frame_list,    \* queue heads in the order the controller visits them
  qh_used,
  chan_addr,     \* [queue head -> address of the device]
  usb_dev_addrs, \* addresses given out on this host
  devs,          \* usb_dev_list: [chan, addr, ifaces: [Class -> times attached]]
  class_list,    \* registered classes
  stage,         \* where usb_configure_default() is
  current,       \* queue head of the device being configured
  pending        \* its interfaces, once read

cvars == <<frame_list, qh_used, chan_addr, usb_dev_addrs, devs, class_list, stage,
           current, pending>>

QH == 1..QH_ENTRIES

CoreInit ==
  /\ frame_list = <<>> /\ qh_used = {} /\ chan_addr = [q \in QH |-> ADDR_DEFAULT]
  /\ usb_dev_addrs = {} /\ devs = <<>> /\ class_list = <<>>
  /\ stage = "boot" /\ current = NONE /\ pending = {}

to(s) == stage' = s

-----------------------------------------------------------------------------
(* Channels.                                                               *)

\* uhci_create_chan(): the new queue head goes to the front of every frame.
uhci_create_chan ==
  LET q == least(QH \ qh_used) IN
  /\ qh_used # QH
  /\ qh_used' = qh_used \cup {q}
  /\ frame_list' = <<q>> \o frame_list
  /\ chan_addr' = [chan_addr EXCEPT ![q] = ADDR_DEFAULT]
  /\ current' = q

\* uhci_remove_qh(): at the front it is unlinked.  Further back, the search
\* stops one queue head too early, or runs past a second one to the end.
uhci_remove_qh(fl, q) ==
  LET n == Len(fl)
      stop == {i \in 2..n : i = n \/ fl[i + 1] = q}
      i == least(stop)
      pos == CHOOSE j \in DOMAIN fl : fl[j] = q
  IN  IF fl[1] = q THEN Tail(fl)
      ELSE SubSeq(fl, 1, i - 1) \o SubSeq(fl, pos + 1, n)

uhci_destroy_chan(q) ==
  /\ frame_list' = uhci_remove_qh(frame_list, q)
  /\ qh_used' = qh_used \ {q}
  /\ UNCHANGED chan_addr

-----------------------------------------------------------------------------
(* Classes and interfaces.                                                 *)

Registered(c) == c \in Elems(class_list)

\* attached() of the class driver may turn an interface down.
Attach(ifaces, cs) == {[c \in DOMAIN ifaces |-> ifaces[c] + IF c \in yes THEN 1 ELSE 0]
                         : yes \in SUBSET (cs \cap DOMAIN ifaces)}

\* A driver registered later gets the interfaces found so far.
usb_register_class(c) ==
  /\ stage \in {"boot", "idle"}
  /\ class_list' = IF Registered(c) THEN class_list ELSE Append(class_list, c)
  /\ IF Registered(c) THEN UNCHANGED devs
     ELSE \E f \in [DOMAIN devs -> UNION {Attach(devs[i].ifaces, {c}) : i \in DOMAIN devs}] :
            /\ \A i \in DOMAIN devs : f[i] \in Attach(devs[i].ifaces, {c})
            /\ devs' = [i \in DOMAIN devs |-> [devs[i] EXCEPT !.ifaces = f[i]]]
  /\ UNCHANGED <<frame_list, qh_used, chan_addr, usb_dev_addrs, stage, current, pending>>

-----------------------------------------------------------------------------
(* Scanning a host: usb_register_host(), usb_scan_devices().               *)

uhci_init ==
  /\ stage = "boot" /\ to("scan")
  /\ UNCHANGED <<frame_list, qh_used, chan_addr, usb_dev_addrs, devs, class_list,
                 current, pending>>

\* usb_configure_default()
Configure ==
  /\ stage = "scan" /\ Len(devs) < MaxDevs
  /\ uhci_create_chan
  /\ to("head")
  /\ UNCHANGED <<usb_dev_addrs, devs, class_list, pending>>

\* Reading the descriptor: its first 8 bytes, then all of it.  A failed setup or
\* data packet, no device on any port, or an impossible packet size takes the
\* error exit; a failed status packet just returns.  Either ends the scan.
Exchange ==
  /\ stage \in {"head", "whole"}
  /\ \/ /\ to(IF stage = "head" THEN "whole" ELSE "strings")
        /\ UNCHANGED <<frame_list, qh_used, chan_addr, current>>
     \/ /\ uhci_destroy_chan(current)
        /\ to("idle") /\ current' = NONE
     \/ /\ to("idle") /\ current' = NONE
        /\ UNCHANGED <<frame_list, qh_used, chan_addr>>
  /\ UNCHANGED <<usb_dev_addrs, devs, class_list, pending>>

\* usb_get_string() twice, then usb_load_config(): without a descriptor the
\* device has no interfaces, and is configured all the same.
usb_load_config ==
  /\ stage = "strings" /\ to("address")
  /\ \E cs \in SUBSET Class : pending' = cs
  /\ UNCHANGED <<frame_list, qh_used, chan_addr, usb_dev_addrs, devs, class_list, current>>

FreeAddrs == 1..(ADDRS_PER_HOST - 1) \ usb_dev_addrs

usb_setup_dev_addr ==
  /\ stage = "address" /\ FreeAddrs # {}
  /\ \/ /\ usb_dev_addrs' = usb_dev_addrs \cup {least(FreeAddrs)}
        /\ chan_addr' = [chan_addr EXCEPT ![current] = least(FreeAddrs)]
        /\ to("config")
     \/ /\ usb_dev_addrs' = usb_dev_addrs \cup {least(FreeAddrs)}
        /\ to("panic") /\ UNCHANGED chan_addr
  /\ UNCHANGED <<frame_list, qh_used, devs, class_list, current, pending>>

\* usb_config_dev(), then usb_attach_interfaces() for the classes there are.
usb_config_dev ==
  /\ stage = "config"
  /\ \/ to("panic") /\ UNCHANGED <<devs, current, pending>>
     \/ /\ \E f \in Attach([c \in pending |-> 0], Elems(class_list)) :
             devs' = Append(devs, [chan |-> current, addr |-> chan_addr[current],
                                   ifaces |-> f])
        /\ to("scan") /\ current' = NONE /\ pending' = {}
  /\ UNCHANGED <<frame_list, qh_used, chan_addr, usb_dev_addrs, class_list>>

CoreNext ==
  \/ \E c \in Class : usb_register_class(c)
  \/ uhci_init \/ Configure \/ Exchange \/ usb_load_config \/ usb_setup_dev_addr
  \/ usb_config_dev

CoreSpec == CoreInit /\ [][CoreNext]_cvars

-----------------------------------------------------------------------------
(* Properties.                                                             *)

\* Every configured device has an address and a queue head of its own, which
\* the controller visits; no failed attempt unlinks one of them, and at most
\* one channel answers at the default address.
ChannelsSound ==
  /\ \A i, j \in DOMAIN devs : i # j => /\ devs[i].addr # devs[j].addr
                                        /\ devs[i].chan # devs[j].chan
  /\ \A i \in DOMAIN devs : /\ devs[i].addr \in usb_dev_addrs
                            /\ chan_addr[devs[i].chan] = devs[i].addr
                            /\ devs[i].chan \in Elems(frame_list)
  /\ Elems(frame_list) = qh_used /\ Cardinality(qh_used) = Len(frame_list)
  /\ Cardinality({q \in qh_used : chan_addr[q] = ADDR_DEFAULT}) <= 1

\* An interface is handed to its class driver at most once, and only after the
\* driver is registered, whichever of the two comes first.
AttachedOnce ==
  \A i \in DOMAIN devs : \A c \in DOMAIN devs[i].ifaces :
    devs[i].ifaces[c] <= IF Registered(c) THEN 1 ELSE 0

CoreSound == ChannelsSound /\ AttachedOnce
=============================================================================
