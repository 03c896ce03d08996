-------------------------------- MODULE Uhci --------------------------------
(***************************************************************************)
(* Transfers through the UHCI host controller (devices/usb_uhci.c).        *)
(*                                                                         *)
(* A bulk transfer is cut into packets.  All but the last are queued for   *)
(* the device with the controller stopped; the last one starts it and its  *)
(* thread sleeps until the interrupt handler finds the packet finished.    *)
(* Each thread here works on a device, a queue and an endpoint of its own. *)
(* The controller (Execute) is external hardware.                          *)
(***************************************************************************)
EXTENDS ListOps

CONSTANTS Sender, NULL, TD_ENTRIES, MaxPackets

TD == 1..TD_ENTRIES

VARIABLES
  upc,       \* [Sender -> where the thread is in uhci_tx_pkt()]
  left,      \* [Sender -> packets of its transfer not yet queued]
  mine,      \* [Sender -> transfer descriptor it has acquired]
  toggle,    \* [Sender -> ue->toggle]
  td,        \* [TD -> [status, async, toggle]]
  td_used, td_sem,
  queue,     \* [Sender -> descriptors from qh->qelp on]
  waiting,   \* ui->waiting, searched as a whole
  woken,     \* threads whose usb_wait semaphore is up
  uhci_lock, running, usbint,
  raced      \* history: threads that queued with the controller running

uvars == <<upc, left, mine, toggle, td, td_used, td_sem, queue, waiting, woken,
           uhci_lock, running, usbint, raced>>

Unset == [status |-> "unset", async |-> FALSE, toggle |-> 0]

UhciInit ==
  /\ upc = [t \in Sender |-> "idle"] /\ left = [t \in Sender |-> 0]
  /\ mine = [t \in Sender |-> NULL] /\ toggle = [t \in Sender |-> 0]
  /\ td = [d \in TD |-> Unset]
  /\ td_used = {} /\ td_sem = TD_ENTRIES
  /\ queue = [t \in Sender |-> <<>>] /\ waiting = {} /\ woken = {}
  /\ uhci_lock = NULL /\ running = TRUE /\ usbint = FALSE /\ raced = {}

go(t, from, to) == upc[t] = from /\ upc' = [upc EXCEPT ![t] = to]

-----------------------------------------------------------------------------
(* uhci_tx_pkt_bulk(): packets - 1 uhci_tx_pkt_now(), one uhci_tx_pkt_wait(). *)

uhci_tx_pkt_bulk(t) ==
  /\ go(t, "idle", "lock")
  /\ \E n \in 1..MaxPackets : left' = [left EXCEPT ![t] = n]
  /\ UNCHANGED <<mine, toggle, td, td_used, td_sem, queue, waiting, woken,
                 uhci_lock, running, usbint, raced>>

LockHost(t) ==
  /\ go(t, "lock", "td")
  /\ uhci_lock = NULL /\ uhci_lock' = t
  /\ UNCHANGED <<left, mine, toggle, td, td_used, td_sem, queue, waiting, woken,
                 running, usbint, raced>>

\* Waits for a descriptor with uhci_lock held; then uhci_setup_td().
uhci_acquire_td(t) ==
  LET d == least(TD \ td_used) IN
  /\ go(t, "td", "stop")
  /\ td_sem > 0 /\ td_sem' = td_sem - 1
  /\ td_used' = td_used \cup {d}
  /\ mine' = [mine EXCEPT ![t] = d]
  /\ td' = [td EXCEPT ![d] = [status |-> "active", async |-> FALSE, toggle |-> toggle[t]]]
  /\ UNCHANGED <<left, toggle, queue, waiting, woken, uhci_lock, running, usbint, raced>>

uhci_stop(t) ==
  /\ go(t, "stop", "add")
  /\ running' = FALSE
  /\ UNCHANGED <<left, mine, toggle, td, td_used, td_sem, queue, waiting, woken,
                 uhci_lock, usbint, raced>>

\* The interrupt handler may have restarted the controller: then the packet may
\* be linked behind one the controller has just finished with, and be lost.
uhci_add_td_to_qh(t) ==
  /\ \/ queue' = [queue EXCEPT ![t] = Append(@, mine[t])]
     \/ running /\ queue[t] # <<>> /\ UNCHANGED queue
  /\ raced' = IF running THEN raced \cup {t} ELSE raced

\* uhci_tx_pkt_now() leaves the controller stopped.
QueueAsync(t) ==
  /\ go(t, "add", "lock") /\ left[t] > 1
  /\ uhci_add_td_to_qh(t)
  /\ td' = [td EXCEPT ![mine[t]].async = TRUE]
  /\ uhci_lock' = NULL
  /\ toggle' = [toggle EXCEPT ![t] = 1 - @]
  /\ left' = [left EXCEPT ![t] = @ - 1]
  /\ mine' = [mine EXCEPT ![t] = NULL]
  /\ UNCHANGED <<td_used, td_sem, waiting, woken, running, usbint>>

QueueLast(t) ==
  /\ go(t, "add", "run") /\ left[t] = 1
  /\ uhci_add_td_to_qh(t)
  /\ waiting' = waiting \cup {t}
  /\ UNCHANGED <<left, mine, toggle, td, td_used, td_sem, woken, uhci_lock, running, usbint>>

\* With interrupts off: uhci_run(), unlock, sema_down().
RunAndSleep(t) ==
  /\ go(t, "run", "asleep")
  /\ running' = TRUE /\ uhci_lock' = NULL
  /\ UNCHANGED <<left, mine, toggle, td, td_used, td_sem, queue, waiting, woken, usbint, raced>>

uhci_release_td(ds) ==
  /\ td_used' = td_used \ ds /\ td_sem' = td_sem + Cardinality(ds)
  /\ td' = [d \in TD |-> IF d \in ds THEN Unset ELSE td[d]]

\* The rest of uhci_tx_pkt_wait(): the toggle flips unless the packet failed.
Finish(t) ==
  /\ go(t, "asleep", "idle")
  /\ t \in woken /\ woken' = woken \ {t}
  /\ toggle' = [toggle EXCEPT ![t] = IF td[mine[t]].status = "done" THEN 1 - @ ELSE @]
  /\ uhci_release_td({mine[t]})
  /\ mine' = [mine EXCEPT ![t] = NULL]
  /\ raced' = raced \ {t}
  /\ UNCHANGED <<left, queue, waiting, uhci_lock, running, usbint>>

-----------------------------------------------------------------------------
(* The controller and its interrupt.                                       *)

\* The controller runs the first packet of a queue: done, it leaves the queue;
\* failed, it stays there and holds up the others.  Only the last packet of a
\* transfer asks for an interrupt that the handler acts on.
Execute(t) ==
  LET d == Head(queue[t]) IN
  /\ running /\ queue[t] # <<>> /\ td[d].status = "active"
  /\ \/ /\ td' = [td EXCEPT ![d].status = "done"]
        /\ queue' = [queue EXCEPT ![t] = Tail(@)]
     \/ /\ td' = [td EXCEPT ![d].status = "failed"]
        /\ UNCHANGED queue
  /\ usbint' = (usbint \/ ~ td[d].async)
  /\ UNCHANGED <<upc, left, mine, toggle, td_used, td_sem, waiting, woken, uhci_lock,
                 running, raced>>

\* Mutant: the descriptors of waiting packets are given back too.
Reclaimed_all(ended) ==
  IF ended = {} THEN {} ELSE {d \in td_used : td[d].status # "active"}

\* The descriptors uhci_process_completed() gives back: finished asynchronous
\* ones, and only once a waiting packet has completed.
Reclaimed(ended) ==
  IF ended = {} THEN {}
  ELSE {d \in td_used : td[d].async /\ td[d].status # "active"}

\* uhci_irq() and uhci_process_completed(); failed packets are unlinked.
uhci_irq ==
  LET ended == {t \in waiting : td[mine[t]].status # "active"}
      gone == Reclaimed(ended)
      out == gone \cup {mine[t] : t \in ended}
  IN
  /\ usbint /\ usbint' = FALSE
  /\ waiting' = waiting \ ended
  /\ woken' = woken \cup ended
  /\ queue' = [t \in Sender |-> list_without(queue[t], out)]
  /\ uhci_release_td(gone)
  /\ running' = TRUE
  /\ UNCHANGED <<upc, left, mine, toggle, uhci_lock, raced>>

UhciNext ==
  \/ \E t \in Sender : \/ uhci_tx_pkt_bulk(t) \/ LockHost(t) \/ uhci_acquire_td(t)
                       \/ uhci_stop(t) \/ QueueAsync(t) \/ QueueLast(t)
                       \/ RunAndSleep(t) \/ Finish(t) \/ Execute(t)
  \/ uhci_irq

UhciSpec == UhciInit /\ [][UhciNext]_uvars

-----------------------------------------------------------------------------
(* Properties.                                                             *)

\* Descriptors are conserved: td_sem counts the free ones, and one in use is
\* either held by a single thread or waits to be reclaimed.
TdConserved ==
  LET held == {t \in Sender : mine[t] # NULL} IN
  /\ td_sem + Cardinality(td_used) = TD_ENTRIES
  /\ td_used = {mine[t] : t \in held} \cup {d \in TD : td[d].async}
  /\ \A t, u \in held : t # u => mine[t] # mine[u]
  /\ \A t \in held : ~ td[mine[t]].async

\* No completion is missed: a thread asleep has its packet still in its queue,
\* or is about to be woken; unless its packet was queued behind the back of a
\* running controller.
NoLostCompletion ==
  \A t \in Sender : upc[t] = "asleep" /\ t \notin raced \cup woken =>
    /\ t \in waiting
    /\ \/ td[mine[t]].status = "active" /\ mine[t] \in Elems(queue[t])
       \/ usbint

\* Packets reach the device in order, with alternating toggle bits.
TogglesAlternate ==
  \A t \in Sender \ raced : \A i \in 1..(Len(queue[t]) - 1) :
    td[queue[t][i]].toggle # td[queue[t][i + 1]].toggle

\* Descriptors of packets that were linked to no queue: nobody finishes them.
Lost == {d \in TD : /\ td[d].async /\ td[d].status = "active"
                   /\ \A t \in Sender : d \notin Elems(queue[t])}

\* With a descriptor for every packet of every transfer under way, besides the
\* lost ones, no thread waits for one with uhci_lock held: finished ones come back
\* in time.  (With fewer, threads deadlock: the controller is stopped while one of
\* them waits.)
TdComes ==
  TD_ENTRIES >= Cardinality(Sender) * MaxPackets + Cardinality(Lost) =>
    \A t \in Sender : upc[t] = "td" => td_sem > 0
=============================================================================
