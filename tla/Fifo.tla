-------------------------------- MODULE Fifo --------------------------------
(***************************************************************************)
(* A bounded queue of bytes: what an interrupt queue promises.             *)
(***************************************************************************)
EXTENDS Naturals, Sequences

CONSTANTS Capacity, Byte

VARIABLES items, out   \* out: the byte that was removed last

Init == items = <<>> /\ out \in Byte

Put(byte) ==
    /\ Len(items) < Capacity
    /\ items' = Append(items, byte)
    /\ UNCHANGED out

Get ==
    /\ items # <<>>
    /\ out' = Head(items)
    /\ items' = Tail(items)

\* The oldest byte makes room for a new one.
Shift(byte) ==
    /\ items # <<>>
    /\ out' = Head(items)
    /\ items' = Append(Tail(items), byte)

Next == Get \/ \E byte \in Byte : Put(byte) \/ Shift(byte)

Spec == Init /\ [][Next]_<<items, out>>
=============================================================================
