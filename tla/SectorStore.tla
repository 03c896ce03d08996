----------------------------- MODULE SectorStore -----------------------------
(***************************************************************************)
(* What the buffer cache promises its clients: full_read() and             *)
(* full_write() act on the file system's sectors as if there were no       *)
(* cache.  A sector is a function from its parts (ranges of bytes) to      *)
(* values; a call names a sector and the parts it transfers, takes effect  *)
(* once on each of them, and returns when none is left.                    *)
(***************************************************************************)
CONSTANTS Client, Sector, Part, Value, Zero, NULL

VARIABLES
    content,   \* what the sectors hold
    req,       \* each client's call, or NULL
    buffer     \* what each client's call has read so far

Content == [Part -> Value]
Request == [type : {"NON_EXCLUSIVE", "EXCLUSIVE"}, sector : Sector,
            parts : SUBSET Part, value : Value]

Overwrite(d, parts, v) == [p \in Part |-> IF p \in parts THEN v ELSE d[p]]

Call(c, r) ==
    /\ req[c] = NULL
    /\ req' = [req EXCEPT ![c] = r]
    /\ UNCHANGED <<content, buffer>>

Read(c, p) ==
    /\ req[c] # NULL
    /\ req[c].type = "NON_EXCLUSIVE" /\ p \in req[c].parts
    /\ buffer' = [buffer EXCEPT ![c][p] = content[req[c].sector][p]]
    /\ req' = [req EXCEPT ![c].parts = @ \ {p}]
    /\ UNCHANGED content

Write(c) ==
    /\ req[c] # NULL
    /\ req[c].type = "EXCLUSIVE" /\ req[c].parts # {}
    /\ content' = [content EXCEPT ![req[c].sector] =
                     Overwrite(@, req[c].parts, req[c].value)]
    /\ req' = [req EXCEPT ![c].parts = {}]
    /\ UNCHANGED buffer

Return(c) ==
    /\ req[c] # NULL
    /\ req[c].parts = {}
    /\ req' = [req EXCEPT ![c] = NULL]
    /\ buffer' = [buffer EXCEPT ![c] = [p \in Part |-> Zero]]
    /\ UNCHANGED content

Init ==
    /\ content \in [Sector -> Content]
    /\ req = [c \in Client |-> NULL]
    /\ buffer = [c \in Client |-> [p \in Part |-> Zero]]

Next == \E c \in Client :
            \/ \E r \in Request : Call(c, r)
            \/ \E p \in Part : Read(c, p)
            \/ Write(c)
            \/ Return(c)

Spec == Init /\ [][Next]_<<content, req, buffer>>
=============================================================================
