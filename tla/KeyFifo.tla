------------------------------ MODULE KeyFifo ------------------------------
(***************************************************************************)
(* What a keyboard queue promises: keys leave in the order they were       *)
(* typed, each at most once, and one is lost only if it is typed while the *)
(* queue already holds Cap keys.                                           *)
(***************************************************************************)
EXTENDS Naturals, Sequences

CONSTANT Cap

VARIABLES
    queue,   \* the keys waiting, oldest first
    next,    \* the number of the next key offered; keys are numbered from 1
    taken    \* the last key that left, 0 before the first

vars == <<queue, next, taken>>

Init == queue = <<>> /\ next = 1 /\ taken = 0

Accept ==
    /\ Len(queue) < Cap
    /\ queue' = Append(queue, next)
    /\ next' = next + 1
    /\ UNCHANGED taken

Lose ==
    /\ Len(queue) = Cap
    /\ next' = next + 1
    /\ UNCHANGED <<queue, taken>>

Take ==
    /\ queue # <<>>
    /\ taken' = Head(queue)
    /\ queue' = Tail(queue)
    /\ UNCHANGED next

Next == Accept \/ Lose \/ Take

Spec == Init /\ [][Next]_vars
=============================================================================
