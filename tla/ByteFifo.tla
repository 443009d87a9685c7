------------------------------ MODULE ByteFifo ------------------------------
(***************************************************************************)
(* What a loopback line promises: bytes come back in the order they were   *)
(* written, each once, and one is refused only while Cap bytes wait.       *)
(***************************************************************************)
EXTENDS Naturals, Sequences

CONSTANTS Cap, Byte

VARIABLES
    line,   \* the bytes waiting, oldest first
    heard   \* the last byte handed to a reader
vars == <<line, heard>>

Put(b) == Len(line) < Cap /\ line' = Append(line, b) /\ UNCHANGED heard
Get == line # <<>> /\ heard' = Head(line) /\ line' = Tail(line)
Restart == line' = <<>> /\ UNCHANGED heard
Init == line = <<>> /\ heard \in Byte

Next == Get \/ Restart \/ \E b \in Byte : Put(b)
Spec == Init /\ [][Next]_vars
=============================================================================
