----------------------------- MODULE BlockDevice -----------------------------
(***************************************************************************)
(* What a driver of firmware volumes promises to its callers: volumes made *)
(* of numbered blocks of bytes.  A byte changes only through an operation  *)
(* that was admitted while its volume was write enabled, one operation     *)
(* step touches one block of one volume, the status of a locked volume is  *)
(* settled, and nothing outside the volumes is ever touched.               *)
(***************************************************************************)
CONSTANTS Volume, Allowed(_, _)

VARIABLES
    block,    \* block[v][lba]: the bytes of each block
    other,    \* the memory that belongs to no volume
    status,   \* read enabled, write enabled, locked
    admitted  \* the volumes that an admitted operation is changing

vars == <<block, other, status, admitted>>

Init == admitted = {}

Admit(v) ==
    /\ status[v].write
    /\ admitted' = admitted \cup {v}
    /\ UNCHANGED <<block, other, status>>

Withdraw(v) ==
    /\ admitted' = admitted \ {v}
    /\ UNCHANGED <<block, other, status>>

(* The step that writes the last byte of an operation also withdraws it.   *)
Put(v) ==
    /\ v \in admitted
    /\ \E lba \in DOMAIN block[v] :
         block' = [block EXCEPT ![v][lba] = block'[v][lba]]
    /\ admitted' \in {admitted, admitted \ {v}}
    /\ UNCHANGED <<other, status>>

SetStatus(v, s) ==
    /\ ~status[v].lock
    /\ Allowed(v, s)
    /\ status' = [status EXCEPT ![v] = s]
    /\ UNCHANGED <<block, other, admitted>>

Next ==
    \E v \in Volume :
      \/ Admit(v) \/ Withdraw(v) \/ Put(v)
      \/ \E s \in [read : BOOLEAN, write : BOOLEAN, lock : BOOLEAN] : SetStatus(v, s)

Spec == Init /\ [][Next]_vars
============================================================================
