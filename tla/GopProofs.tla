------------------------------ MODULE GopProofs ------------------------------
(***************************************************************************)
(* Proofs about the graphics console.  Of GopInput and GopNotify, for      *)
(* every ring size and however many keys are typed: its types, who owns    *)
(* which critical section, that a signalled key is the one the next read   *)
(* returns, and that each ring implements KeyFifo; and of the list of      *)
(* callbacks, that a walk over it calls every one.  Of GopScreen, for any  *)
(* number of controllers, modes and blocks of the heap: its types, that a  *)
(* Blt sees its own frame buffer, and that the thread-local index outlives *)
(* the windows.                                                            *)
(***************************************************************************)
EXTENDS GopNotify, GopScreen, FiniteSetTheorems, TLAPS

(* The rings: what moving one of the two indices does to the keys of a     *)
(* ring, and where its slots are.                                          *)
Indices == 0 .. MAX_Q - 1

(* A remainder, where the dividend is within one lap of the ring. *)
LEMMA ModSmall == \A n \in 0 .. MAX_Q - 1 : n % MAX_Q = n
BY SizeAssumption
LEMMA ModLarge == \A n \in MAX_Q .. 2 * MAX_Q - 1 : n % MAX_Q = n - MAX_Q
BY SizeAssumption
LEMMA ModNeg == \A n \in 1 - MAX_Q .. -1 : n % MAX_Q = n + MAX_Q
BY SizeAssumption

(* Distance, Slot and Succ without remainders. *)
LEMMA DistanceIs ==
    \A f, r \in Indices : Distance(f, r) = IF f <= r THEN r - f ELSE r - f + MAX_Q
BY ModSmall, ModNeg, SizeAssumption DEF Indices, Distance

LEMMA SuccIs == \A r \in Indices : Succ(r) = IF r = MAX_Q - 1 THEN 0 ELSE r + 1
BY ModSmall, ModLarge, SizeAssumption DEF Indices, Succ

LEMMA SlotIs ==
    \A f \in Indices : \A i \in 1 .. MAX_Q :
        Slot(f, i) = IF f + i - 1 < MAX_Q THEN f + i - 1 ELSE f + i - 1 - MAX_Q
<1> TAKE f \in Indices
<1> TAKE i \in 1 .. MAX_Q
<1>1. CASE f + i - 1 < MAX_Q
  <2>1. f + i - 1 \in 0 .. MAX_Q - 1
    BY <1>1, SizeAssumption DEF Indices
  <2> QED BY <1>1, <2>1, ModSmall DEF Slot
<1>2. CASE ~(f + i - 1 < MAX_Q)
  <2>1. f + i - 1 \in MAX_Q .. 2 * MAX_Q - 1
    BY <1>2, SizeAssumption DEF Indices
  <2>2. Slot(f, i) = (f + i - 1) - MAX_Q
    BY <2>1, ModLarge DEF Slot
  <2> QED BY <1>2, <2>2, SizeAssumption DEF Indices
<1> QED BY <1>1, <1>2

(* They stay inside the ring, and follow a move of one index. *)
LEMMA SuccInside == \A r \in Indices : Succ(r) \in Indices
BY SuccIs, SizeAssumption DEF Indices

LEMMA DistanceInside == \A f, r \in Indices : Distance(f, r) \in Indices
BY DistanceIs, SizeAssumption DEF Indices

LEMMA SlotInside ==
    \A f, r \in Indices : \A i \in 1 .. Distance(f, r) : Slot(f, i) \in Indices /\ Slot(f, i) # r
<1> TAKE f, r \in Indices
<1> TAKE i \in 1 .. Distance(f, r)
<1>1. i \in 1 .. MAX_Q
  BY DistanceInside, SizeAssumption DEF Indices
<1> QED BY <1>1, DistanceIs, SlotIs, SizeAssumption DEF Indices

LEMMA DistanceFull ==
    \A f, r \in Indices : Succ(r) = f <=> Distance(f, r) = MAX_Q - 1
<1> TAKE f, r \in Indices
<1>1. Succ(r) = IF r = MAX_Q - 1 THEN 0 ELSE r + 1
  BY SuccIs
<1>2. Distance(f, r) = IF f <= r THEN r - f ELSE r - f + MAX_Q
  BY DistanceIs
<1> QED BY <1>1, <1>2, SizeAssumption DEF Indices

LEMMA DistanceGrows ==
    \A f, r \in Indices :
        Succ(r) # f => Distance(f, Succ(r)) = Distance(f, r) + 1
<1> SUFFICES ASSUME NEW f \in Indices, NEW r \in Indices, Succ(r) # f
             PROVE  Distance(f, Succ(r)) = Distance(f, r) + 1
  OBVIOUS
<1> DEFINE s == Succ(r)
<1>1. s \in Indices /\ s = IF r = MAX_Q - 1 THEN 0 ELSE r + 1
  BY SuccInside, SuccIs
<1>2. Distance(f, s) = IF f <= s THEN s - f ELSE s - f + MAX_Q
  BY <1>1, DistanceIs
<1>3. Distance(f, r) = IF f <= r THEN r - f ELSE r - f + MAX_Q
  BY DistanceIs
<1>4. s # f
  OBVIOUS
<1> HIDE DEF s
<1>5. Distance(f, s) = Distance(f, r) + 1
  BY <1>1, <1>2, <1>3, <1>4, SizeAssumption DEF Indices
<1> QED BY <1>5 DEF s

LEMMA DistanceShrinks ==
    \A f, r \in Indices :
        f # r => Distance(Succ(f), r) = Distance(f, r) - 1 /\ Distance(f, r) > 0
<1> SUFFICES ASSUME NEW f \in Indices, NEW r \in Indices, f # r
             PROVE  Distance(Succ(f), r) = Distance(f, r) - 1 /\ Distance(f, r) > 0
  OBVIOUS
<1> DEFINE s == Succ(f)
<1>1. s \in Indices /\ s = IF f = MAX_Q - 1 THEN 0 ELSE f + 1
  BY SuccInside, SuccIs
<1>2. Distance(s, r) = IF s <= r THEN r - s ELSE r - s + MAX_Q
  BY <1>1, DistanceIs
<1>3. Distance(f, r) = IF f <= r THEN r - f ELSE r - f + MAX_Q
  BY DistanceIs
<1> HIDE DEF s
<1>4. Distance(s, r) = Distance(f, r) - 1 /\ Distance(f, r) > 0
  BY <1>1, <1>2, <1>3, SizeAssumption DEF Indices
<1> QED BY <1>4 DEF s

LEMMA SlotNext ==
    \A f \in Indices : \A i \in 1 .. MAX_Q - 1 : Slot(Succ(f), i) = Slot(f, i + 1)
<1> TAKE f \in Indices
<1> TAKE i \in 1 .. MAX_Q - 1
<1>1. i \in 1 .. MAX_Q /\ i + 1 \in 1 .. MAX_Q /\ Succ(f) \in Indices
  BY SizeAssumption, SuccInside
<1>2. Slot(Succ(f), i) = IF Succ(f) + i - 1 < MAX_Q THEN Succ(f) + i - 1 ELSE Succ(f) + i - 1 - MAX_Q
  BY <1>1, SlotIs
<1>3. Slot(f, i + 1) = IF f + i < MAX_Q THEN f + i ELSE f + i - MAX_Q
  BY <1>1, SlotIs, SizeAssumption DEF Indices
<1> QED BY <1>2, <1>3, SuccIs, SizeAssumption DEF Indices

LEMMA SlotLast ==
    \A f, r \in Indices : Succ(r) # f => Slot(f, Distance(f, r) + 1) = r
<1> SUFFICES ASSUME NEW f \in Indices, NEW r \in Indices
             PROVE  Slot(f, Distance(f, r) + 1) = r
  OBVIOUS
<1> DEFINE i == Distance(f, r) + 1
<1>1. i = IF f <= r THEN r - f + 1 ELSE r - f + MAX_Q + 1
  BY DistanceIs, SizeAssumption DEF Indices
<1> HIDE DEF i
<1>2. i \in 1 .. MAX_Q
  BY <1>1, SizeAssumption DEF Indices
<1>3. Slot(f, i) = IF f + i - 1 < MAX_Q THEN f + i - 1 ELSE f + i - 1 - MAX_Q
  BY <1>2, SlotIs
<1>4. Slot(f, i) = r
  BY <1>1, <1>2, <1>3, SizeAssumption DEF Indices
<1> QED BY <1>4 DEF i

-----------------------------------------------------------------------------
(* The ring as a sequence. *)
LEMMA RingSeq ==
    ASSUME NEW f \in Indices, NEW r \in Indices, NEW a \in [Indices -> Int]
    PROVE  /\ Ring(f, r, a) \in Seq(Int)
           /\ Len(Ring(f, r, a)) = Distance(f, r)
<1>1. Distance(f, r) \in Nat
  BY DistanceInside, SizeAssumption DEF Indices
<1>2. \A i \in 1 .. Distance(f, r) : a[Slot(f, i)] \in Int
  BY SlotInside
<1> QED BY <1>1, <1>2 DEF Ring

(* Moving Rear appends a key, moving Front takes the oldest away. *)
LEMMA RingAppend ==
    ASSUME NEW f \in Indices, NEW r \in Indices, NEW a \in [Indices -> Int], Succ(r) # f
    PROVE  Ring(f, Succ(r), a) = Append(Ring(f, r, a), a[r])
<1> DEFINE n == Distance(f, r)
<1>1. Distance(f, Succ(r)) = n + 1 /\ n \in Nat /\ Slot(f, n + 1) = r
  BY DistanceGrows, DistanceInside, SlotLast, SizeAssumption DEF Indices
<1>2. /\ Ring(f, r, a) \in Seq(Int) /\ Len(Ring(f, r, a)) = n
      /\ Ring(f, r, a) = [i \in 1 .. n |-> a[Slot(f, i)]]
  BY RingSeq DEF Ring
<1>3. Ring(f, Succ(r), a) = [i \in 1 .. n + 1 |-> a[Slot(f, i)]]
  BY <1>1 DEF Ring
<1> HIDE DEF n
<1> QED BY <1>1, <1>2, <1>3

LEMMA RingTail ==
    ASSUME NEW f \in Indices, NEW r \in Indices, NEW a \in [Indices -> Int], f # r
    PROVE  /\ Ring(f, r, a) # <<>>
           /\ Head(Ring(f, r, a)) = a[f]
           /\ Ring(Succ(f), r, a) = Tail(Ring(f, r, a))
<1> DEFINE n == Distance(f, r)
<1>0. n \in Indices
  BY DistanceInside
<1>1. Distance(Succ(f), r) = n - 1 /\ n \in Nat /\ n > 0 /\ n < MAX_Q
  BY <1>0, DistanceShrinks, SizeAssumption DEF Indices
<1>2. \A i \in 1 .. n - 1 : Slot(Succ(f), i) = Slot(f, i + 1)
  BY <1>1, SlotNext, SizeAssumption
<1>3. Slot(f, 1) = f
  BY SlotIs, SizeAssumption DEF Indices
<1>4. /\ Ring(f, r, a) \in Seq(Int) /\ Len(Ring(f, r, a)) = n
      /\ Ring(f, r, a) = [i \in 1 .. n |-> a[Slot(f, i)]]
  BY RingSeq DEF Ring
<1>5. Ring(Succ(f), r, a) = [i \in 1 .. n - 1 |-> a[Slot(Succ(f), i)]]
  BY <1>1 DEF Ring
<1> HIDE DEF n
<1>6. Head(Ring(f, r, a)) = a[f] /\ Ring(f, r, a) # <<>>
  BY <1>1, <1>3, <1>4
<1>7. Ring(Succ(f), r, a) = Tail(Ring(f, r, a))
  BY <1>1, <1>2, <1>4, <1>5
<1> QED BY <1>6, <1>7

-----------------------------------------------------------------------------
(* The keyboard.                                                           *)

(* Each thread owns a ring exactly where it is inside AddQ or DeleteQ. *)
LockInv == \A q \in Queues :
    /\ Cs[q] = "window" <=> wpc = "publish" /\ wq = q
    /\ Cs[q] = "firmware" <=> fpc = "delete" /\ fq = q
    /\ Cs[q] = "handler" <=> hpc = "delete" /\ q = "Notify"

(* The slot AddQ fills is not the last free one, and holds the key typed last. *)
RoomInv ==
    /\ wpc # "idle" => typed > 0
    /\ wpc = "publish" => Succ(Rear[wq]) # Front[wq] /\ Q[wq][Rear[wq]] = typed

TypedInv == \A q \in Queues : \A i \in 0 .. MAX_Q - 1 : Q[q][i] <= typed

(* A signalled key is a whole key, at the front of the ring, until it is read. *)
SignalInv ==
    /\ fpc = "peek" => CheckQ("Read")
    /\ signalled # 0 => CheckQ("Read") /\ Oldest = signalled /\ Oldest \notin partial
    /\ fop = "WaitForKey" /\ fpc \in {"enter", "delete"} => signalled = 0
    /\ fop = "Reset" /\ fpc # "idle" => signalled = 0

RingOfInv == fop # "Reset" => fq = "Read"

IInv == TypeOK /\ RingOfInv /\ LockInv /\ RoomInv /\ TypedInv /\ SignalInv

-----------------------------------------------------------------------------
LEMMA SuccRange == \A i \in 0 .. MAX_Q - 1 : Succ(i) \in 0 .. MAX_Q - 1
BY SizeAssumption DEF Succ

LEMMA SuccMoves == \A i \in 0 .. MAX_Q - 1 : Succ(i) # i
BY SizeAssumption DEF Succ

(* Every variable keeps its type. *)
LEMMA TypeInit == Init => TypeOK
<1> SUFFICES ASSUME Init PROVE TypeOK
  OBVIOUS
<1>1. IsPartialKeySupport \in BOOLEAN
  BY Zenon DEF Init
<1>2. 0 \in 0 .. MAX_Q - 1 /\ 0 \in 0 .. MaxTyped
  BY SizeAssumption, TypedAssumption
<1>3. Q \in [Queues -> [0 .. MAX_Q - 1 -> 0 .. MaxTyped]]
  BY <1>2 DEF Init
<1> QED BY <1>1, <1>2, <1>3 DEF Init, TypeOK, Queues, EFI_NOT_READY

LEMMA DeleteQType ==
    ASSUME TypeOK, NEW q \in Queues, DeleteQ(q)
    PROVE  /\ Front' \in [Queues -> 0 .. MAX_Q - 1]
           /\ Cs' \in [Queues -> {"free", "window", "handler", "firmware"}]
           /\ taken' \in [Queues -> 0 .. MaxTyped]
           /\ Q' = Q /\ Rear' = Rear
<1> USE DEF DeleteQ, TypeOK, Unlock
<1>1. Q' = Q /\ Rear' = Rear /\ Cs' = [Cs EXCEPT ![q] = "free"]
  OBVIOUS
<1>2. Front[q] \in 0 .. MAX_Q - 1 /\ Q[q][Front[q]] \in 0 .. MaxTyped
  OBVIOUS
<1>3. CASE CheckQ(q)
  BY <1>1, <1>2, <1>3, SuccRange
<1>4. CASE ~CheckQ(q)
  BY <1>1, <1>4
<1> QED BY <1>3, <1>4

LEMMA TypeNext == TypeOK /\ [Next]_vars => TypeOK'
<1> SUFFICES ASSUME TypeOK, [Next]_vars PROVE TypeOK'
  OBVIOUS
<1> USE SizeAssumption, TypedAssumption
<1>1. CASE KeyDown
  <2>1. typed' \in 0 .. MaxTyped /\ typed + 1 \in Keys
    BY <1>1 DEF TypeOK, KeyDown, Keys
  <2>2. partial' \subseteq Keys
    BY <1>1, <2>1 DEF TypeOK, KeyDown
  <2> QED BY <1>1, <2>1, <2>2
          DEF TypeOK, KeyDown, WindowOnly, rings, firmwareVars, Queues
<1>2. CASE Window
  <2>1. CASE AddQFull
    BY <2>1 DEF TypeOK, AddQFull, AddNext, WindowOnly, rings, firmwareVars, Queues
  <2>2. CASE AddQCopy
    BY <2>2 DEF TypeOK, AddQCopy, WindowOnly, firmwareVars, Lock, Queues
  <2>3. CASE AddQPublish
    BY <2>3, SuccRange
    DEF TypeOK, AddQPublish, AddNext, WindowOnly, firmwareVars, Unlock, Queues
  <2> QED BY <1>2, <2>1, <2>2, <2>3 DEF Window
<1>3. CASE TimerEvent
  BY <1>3 DEF TypeOK, TimerEvent, HandlerOnly, rings, windowVars, firmwareVars
<1>4. CASE Handler
  <2>1. CASE HandlerEnter
    BY <2>1 DEF TypeOK, HandlerEnter, HandlerOnly, windowVars, firmwareVars, Lock, Queues
  <2>2. CASE HandlerDelete
    <3>1. "Notify" \in Queues /\ DeleteQ("Notify")
      BY <2>2 DEF HandlerDelete, Queues
    <3> QED BY <2>2, <3>1, DeleteQType
            DEF TypeOK, HandlerDelete, HandlerOnly, windowVars, firmwareVars
  <2> QED BY <1>4, <2>1, <2>2 DEF Handler
<1>5. ASSUME NEW op \in ReadOps \cup {"WaitForKey"}, CallRead(op) PROVE TypeOK'
  BY <1>5 DEF TypeOK, CallRead, Call, rings, windowVars, ReadOps, Queues
<1>6. CASE CallReset
  <2>1. /\ fop' = "Reset" /\ fpc' = "enter" /\ fq' = "Read" /\ signalled' = 0
        /\ UNCHANGED <<rings, windowVars, taken, result, IsPartialKeySupport, hpc>>
    BY <1>6 DEF CallReset, Call
  <2>2. signalled' \in 0 .. MaxTyped /\ fq' \in Queues
    BY <2>1 DEF Queues
  <2>3. /\ fop' \in ReadOps \cup {"none", "WaitForKey", "Reset", "SetState"}
        /\ fpc' \in {"idle", "check", "peek", "enter", "delete", "set"}
    BY <2>1
  <2>4. UNCHANGED <<Q, Front, Rear, Cs, typed, partial, wpc, wq>>
    BY <2>1 DEF rings, windowVars
  <2> QED BY <2>1, <2>2, <2>3, <2>4, Zenon DEF TypeOK
<1>7. CASE CallSetState
  <2>1. IsPartialKeySupport' \in BOOLEAN
    BY <1>7, Zenon DEF CallSetState
  <2> QED BY <1>7, <2>1 DEF TypeOK, CallSetState, Call, rings, windowVars, Queues
<1>8. CASE Firmware
  <2> USE DEF FirmwareStep, windowVars
  <2>0. "Read" \in Queues /\ Oldest \in 0 .. MaxTyped
    BY DEF TypeOK, Oldest, Queues
  <2>1. CASE Enter
    BY <2>1 DEF TypeOK, Enter, Lock
  <2>2. CASE ReadCheck \/ WaitCheck \/ WaitSkip
    BY <2>2 DEF TypeOK, ReadCheck, WaitCheck, WaitSkip, rings
  <2>3. CASE ReadNothing
    <3>1. result' \in 0 .. MaxTyped /\ signalled' \in 0 .. MaxTyped
      BY <2>3 DEF ReadNothing, EFI_NOT_READY
    <3> QED BY <2>3, <3>1 DEF TypeOK, ReadNothing, rings
  <2>4. CASE ReadAgain
    BY <2>4, <2>0, DeleteQType DEF TypeOK, ReadAgain
  <2>5. CASE ReadReturn
    <3>1. result' \in 0 .. MaxTyped /\ signalled' \in 0 .. MaxTyped
      BY <2>5, <2>0 DEF ReadReturn, EFI_NOT_READY
    <3>2. DeleteQ("Read")
      BY <2>5 DEF ReadReturn
    <3> QED BY <2>0, <2>5, <3>1, <3>2, DeleteQType DEF TypeOK, ReadReturn
  <2>6. CASE WaitSignal
    BY <2>6, <2>0 DEF TypeOK, WaitSignal, rings
  <2>7. CASE WaitDelete
    BY <2>7, <2>0, DeleteQType DEF TypeOK, WaitDelete
  <2>8. CASE ResetDelete
    <3>1. DeleteQ(fq) /\ fq \in Queues
      BY <2>8 DEF ResetDelete, TypeOK
    <3> QED BY <2>8, <3>1, DeleteQType DEF TypeOK, ResetDelete, Queues
  <2>9. CASE ResetReturn
    <3>1. DeleteQ(fq) /\ fq \in Queues
      BY <2>9 DEF ResetReturn, TypeOK
    <3>2. IsPartialKeySupport' \in BOOLEAN
      BY <2>9, Zenon DEF ResetReturn
    <3> QED BY <2>9, <3>1, <3>2, DeleteQType DEF TypeOK, ResetReturn
  <2>10. CASE SetStateReturn
    BY <2>10 DEF TypeOK, SetStateReturn, rings
  <2> QED BY <1>8, <2>1, <2>2, <2>3, <2>4, <2>5, <2>6, <2>7, <2>8, <2>9, <2>10
          DEF Firmware
<1>9. CASE UNCHANGED vars
  BY <1>9 DEF TypeOK, vars, rings, windowVars, firmwareVars
<1> QED BY <1>1, <1>2, <1>3, <1>4, <1>5, <1>6, <1>7, <1>8, <1>9 DEF Next

(* The types of the rings, of the threads' places and of the history. *)
THEOREM TypeCorrect == Spec => []TypeOK
<1> QED BY TypeInit, TypeNext, PTL DEF Spec

-----------------------------------------------------------------------------
(* What the critical sections protect. *)
LEMMA DeleteQEffect ==
    ASSUME TypeOK, NEW q \in Queues, DeleteQ(q)
    PROVE  /\ Q' = Q /\ Rear' = Rear /\ Cs' = [Cs EXCEPT ![q] = "free"]
           /\ \A p \in Queues : p # q => Front'[p] = Front[p]
BY DEF DeleteQ, TypeOK, Unlock

LEMMA InvInit == Init => IInv
<1> SUFFICES ASSUME Init PROVE IInv
  OBVIOUS
<1>1. TypeOK
  BY TypeInit
<1>2. TypedInv
  BY DEF Init, TypedInv
<1> QED BY <1>1, <1>2 DEF Init, IInv, RingOfInv, LockInv, RoomInv, SignalInv, Queues

LEMMA LockNext == TypeOK /\ RingOfInv /\ LockInv /\ [Next]_vars => RingOfInv' /\ LockInv'
<1> SUFFICES ASSUME TypeOK, RingOfInv, LockInv, [Next]_vars PROVE RingOfInv' /\ LockInv'
  OBVIOUS
<1> USE DEF RingOfInv, LockInv
<1>0. /\ Cs \in [Queues -> {"free", "window", "handler", "firmware"}]
      /\ wq \in Queues /\ fq \in Queues
      /\ "Notify" \in Queues /\ "Read" \in Queues
  BY DEF TypeOK, Queues
<1>1. CASE KeyDown
  BY <1>0, <1>1 DEF KeyDown, WindowOnly, rings, firmwareVars
<1>2. CASE AddQFull
  BY <1>0, <1>2 DEF AddQFull, AddNext, WindowOnly, rings, firmwareVars
<1>3. CASE AddQCopy
  BY <1>0, <1>3 DEF AddQCopy, Lock, WindowOnly, firmwareVars
<1>4. CASE AddQPublish
  BY <1>0, <1>4 DEF AddQPublish, AddNext, Unlock, WindowOnly, firmwareVars
<1>5. CASE TimerEvent
  BY <1>0, <1>5 DEF TimerEvent, HandlerOnly, rings, windowVars, firmwareVars
<1>6. CASE HandlerEnter
  BY <1>0, <1>6 DEF HandlerEnter, Lock, HandlerOnly, windowVars, firmwareVars
<1>7. CASE HandlerDelete
  <2>1. Cs' = [Cs EXCEPT !["Notify"] = "free"]
    BY <1>7 DEF HandlerDelete, DeleteQ, Unlock
  <2> QED BY <1>0, <1>7, <2>1 DEF HandlerDelete, HandlerOnly, windowVars, firmwareVars
<1>8. ASSUME NEW op \in ReadOps \cup {"WaitForKey"}, CallRead(op)
      PROVE RingOfInv' /\ LockInv'
  BY <1>0, <1>8 DEF CallRead, Call, rings, windowVars
<1>9. CASE CallReset \/ CallSetState
  BY <1>0, <1>9 DEF CallReset, CallSetState, Call, rings, windowVars
<1>10. CASE Enter
  BY <1>0, <1>10 DEF Enter, FirmwareStep, Lock, windowVars
<1>11. CASE ReadCheck \/ ReadNothing \/ WaitCheck \/ WaitSkip \/ WaitSignal \/ SetStateReturn
  BY <1>0, <1>11 DEF ReadCheck, ReadNothing, WaitCheck, WaitSkip, WaitSignal, SetStateReturn,
     FirmwareStep, rings, windowVars
<1>12. CASE ReadAgain \/ ReadReturn \/ WaitDelete
  <2>1. Cs' = [Cs EXCEPT !["Read"] = "free"] /\ fop # "Reset"
    BY <1>12 DEF ReadAgain, ReadReturn, WaitDelete, FirmwareStep, ReadOps, DeleteQ, Unlock
  <2> QED BY <1>0, <1>12, <2>1 DEF ReadAgain, ReadReturn, WaitDelete, FirmwareStep, windowVars
<1>13. CASE ResetDelete \/ ResetReturn
  <2>1. Cs' = [Cs EXCEPT ![fq] = "free"]
    BY <1>13 DEF ResetDelete, ResetReturn, DeleteQ, Unlock
  <2> QED BY <1>0, <1>13, <2>1 DEF ResetDelete, ResetReturn, FirmwareStep, windowVars
<1>14. CASE UNCHANGED vars
  BY <1>0, <1>14 DEF vars, rings, windowVars, firmwareVars
<1> QED BY <1>1, <1>2, <1>3, <1>4, <1>5, <1>6, <1>7, <1>8, <1>9, <1>10, <1>11, <1>12,
           <1>13, <1>14 DEF Next, Window, Handler, Firmware

(***************************************************************************)
(* Every step that is not the window thread's leaves its ring alone while  *)
(* it is inside AddQ: whoever takes a key holds the lock.                  *)
(***************************************************************************)
Consumer ==
    \/ TimerEvent \/ Handler \/ CallReset \/ CallSetState \/ Firmware
    \/ \E op \in ReadOps \cup {"WaitForKey"} : CallRead(op)

LEMMA ConsumerStep ==
    ASSUME TypeOK, RingOfInv, LockInv, Consumer
    PROVE  /\ UNCHANGED <<Q, Rear, typed, partial, wpc, wq>>
           /\ wpc = "publish" => Front'[wq] = Front[wq]
<1> USE DEF RingOfInv, LockInv
<1>0. wq \in Queues /\ fq \in Queues /\ "Notify" \in Queues /\ "Read" \in Queues
  BY DEF TypeOK, Queues
<1>1. CASE TimerEvent \/ HandlerEnter
  BY <1>1 DEF TimerEvent, HandlerEnter, HandlerOnly, rings, windowVars
<1>2. CASE HandlerDelete
  <2>1. DeleteQ("Notify") /\ Cs["Notify"] = "handler"
    BY <1>0, <1>2 DEF HandlerDelete
  <2> QED BY <1>0, <1>2, <2>1, DeleteQEffect DEF HandlerDelete, HandlerOnly, windowVars
<1>3. CASE \E op \in ReadOps \cup {"WaitForKey"} : CallRead(op)
  BY <1>3 DEF CallRead, Call, rings, windowVars
<1>4. CASE CallReset \/ CallSetState
  BY <1>4 DEF CallReset, CallSetState, Call, rings, windowVars
<1>5. CASE \/ Enter \/ ReadCheck \/ ReadNothing \/ WaitCheck \/ WaitSkip \/ WaitSignal
           \/ SetStateReturn
  BY <1>5 DEF Enter, ReadCheck, ReadNothing, WaitCheck, WaitSkip, WaitSignal,
     SetStateReturn, FirmwareStep, rings, windowVars
<1>6. CASE ReadAgain \/ ReadReturn \/ WaitDelete
  <2>1. DeleteQ("Read") /\ Cs["Read"] = "firmware"
    BY <1>0, <1>6 DEF ReadAgain, ReadReturn, WaitDelete, FirmwareStep, ReadOps
  <2> QED BY <1>0, <1>6, <2>1, DeleteQEffect
          DEF ReadAgain, ReadReturn, WaitDelete, FirmwareStep, windowVars
<1>7. CASE ResetDelete \/ ResetReturn
  <2>1. DeleteQ(fq) /\ Cs[fq] = "firmware"
    BY <1>0, <1>7 DEF ResetDelete, ResetReturn, FirmwareStep
  <2> QED BY <1>0, <1>7, <2>1, DeleteQEffect
          DEF ResetDelete, ResetReturn, FirmwareStep, windowVars
<1> QED BY <1>1, <1>2, <1>3, <1>4, <1>5, <1>6, <1>7 DEF Consumer, Handler, Firmware

(* What the type invariant says of the rings, without the keys' bounds. *)
LEMMA RingsAre ==
    ASSUME TypeOK
    PROVE  /\ wq \in Queues /\ fq \in Queues /\ typed \in Nat
           /\ Rear \in [Queues -> 0 .. MAX_Q - 1]
           /\ Front \in [Queues -> 0 .. MAX_Q - 1]
           /\ Q \in [Queues -> [0 .. MAX_Q - 1 -> Int]]
<1>1. \A n \in 0 .. MaxTyped : n \in Nat /\ n \in Int
  BY TypedAssumption
<1>2. \A q \in Queues : \A i \in 0 .. MAX_Q - 1 : Q[q][i] \in Int
  BY <1>1 DEF TypeOK
<1>3. /\ \A q \in Queues : Q[q] = [i \in 0 .. MAX_Q - 1 |-> Q[q][i]]
      /\ Q = [q \in Queues |-> Q[q]]
  BY DEF TypeOK
<1>4. \A q \in Queues : Q[q] \in [0 .. MAX_Q - 1 -> Int]
  BY <1>2, <1>3
<1>5. Q \in [Queues -> [0 .. MAX_Q - 1 -> Int]]
  BY <1>3, <1>4
<1> QED BY <1>1, <1>5 DEF TypeOK

LEMMA RoomNext ==
    TypeOK /\ RingOfInv /\ LockInv /\ RoomInv /\ TypedInv /\ [Next]_vars
        => RoomInv' /\ TypedInv'
<1> SUFFICES ASSUME TypeOK, RingOfInv, LockInv, RoomInv, TypedInv, [Next]_vars
             PROVE  RoomInv' /\ TypedInv'
  OBVIOUS
<1>0. /\ wq \in Queues /\ typed \in Nat
      /\ Rear \in [Queues -> 0 .. MAX_Q - 1]
      /\ Q \in [Queues -> [0 .. MAX_Q - 1 -> Int]]
  BY RingsAre
<1>1. CASE KeyDown
  <2>1. UNCHANGED <<Q, Front, Rear>> /\ typed' = typed + 1 /\ wpc' = "enter"
    BY <1>1 DEF KeyDown, rings
  <2>2. typed' > 0 /\ \A n \in Int : n <= typed => n <= typed'
    BY <1>0, <2>1
  <2>3. TypedInv'
    BY <1>0, <2>1, <2>2 DEF TypedInv
  <2> QED BY <2>1, <2>2, <2>3 DEF RoomInv
<1>2. CASE AddQFull
  BY <1>2 DEF AddQFull, AddNext, rings, RoomInv, TypedInv
<1>3. CASE AddQCopy
  <2>1. /\ Q' = [Q EXCEPT ![wq] = [Q[wq] EXCEPT ![Rear[wq]] = typed]]
        /\ UNCHANGED <<Front, Rear, typed, wq>> /\ ~IsFull(wq)
    BY <1>3 DEF AddQCopy
  <2>2. Q'[wq][Rear[wq]] = typed
    BY <1>0, <2>1
  <2>3. RoomInv'
    BY <1>3, <2>1, <2>2 DEF AddQCopy, RoomInv, IsFull, Succ
  <2>4. TypedInv'
    BY <1>0, <2>1 DEF TypedInv
  <2> QED BY <2>3, <2>4
<1>4. CASE AddQPublish
  BY <1>4 DEF AddQPublish, AddNext, RoomInv, TypedInv
<1>5. CASE Consumer
  BY <1>5, ConsumerStep DEF RoomInv, TypedInv, Succ
<1>6. CASE UNCHANGED vars
  BY <1>6 DEF vars, rings, windowVars, RoomInv, TypedInv, Succ
<1> QED BY <1>1, <1>2, <1>3, <1>4, <1>5, <1>6 DEF Next, Window, Consumer

LEMMA SignalNext == IInv /\ [Next]_vars => SignalInv'
<1> SUFFICES ASSUME IInv, [Next]_vars PROVE SignalInv'
  OBVIOUS
<1>0. /\ TypeOK /\ RingOfInv /\ LockInv /\ RoomInv /\ TypedInv /\ SignalInv
      /\ "Notify" \in Queues /\ "Read" \in Queues /\ "Notify" # "Read"
      /\ wq \in Queues /\ fq \in Queues /\ typed \in Nat
      /\ Rear \in [Queues -> 0 .. MAX_Q - 1]
      /\ Front \in [Queues -> 0 .. MAX_Q - 1]
      /\ Q \in [Queues -> [0 .. MAX_Q - 1 -> Int]]
  BY RingsAre DEF IInv, Queues
<1> USE DEF SignalInv, CheckQ, Oldest
<1>1. CASE KeyDown
  <2>1. Oldest \in Int /\ Oldest <= typed
    BY <1>0 DEF TypedInv
  <2>2. Oldest \in partial' => Oldest \in partial \/ Oldest = typed + 1
    BY <1>1 DEF KeyDown
  <2>3. UNCHANGED <<Q, Front, Rear, fop, fpc, signalled>>
    BY <1>1 DEF KeyDown, WindowOnly, rings, firmwareVars
  <2>4. Oldest # typed + 1
    <3>1. \A n \in Int : n <= typed => n # typed + 1
      BY <1>0
    <3> QED BY <2>1, <3>1
  <2>5. Oldest \in partial' => Oldest \in partial
    BY <2>2, <2>4
  <2> QED BY <1>0, <2>3, <2>5
<1>2. CASE AddQFull
  BY <1>0, <1>2 DEF AddQFull, AddNext, WindowOnly, rings, firmwareVars
<1>3. CASE AddQCopy
  <2>1. /\ Q' = [Q EXCEPT ![wq] = [Q[wq] EXCEPT ![Rear[wq]] = typed]]
        /\ UNCHANGED <<Front, Rear, partial, signalled, fop, fpc>>
    BY <1>3 DEF AddQCopy, WindowOnly, firmwareVars
  <2>2. CheckQ("Read") => Oldest' = Oldest
    BY <1>0, <2>1
  <2> QED BY <1>0, <2>1, <2>2
<1>4. CASE AddQPublish
  <2>1. /\ Rear' = [Rear EXCEPT ![wq] = Succ(Rear[wq])]
        /\ UNCHANGED <<Q, Front, partial, signalled, fop, fpc>>
    BY <1>4 DEF AddQPublish, AddNext, WindowOnly, firmwareVars
  <2>2. CheckQ("Read") => CheckQ("Read")'
    BY <1>0, <1>4, <2>1 DEF RoomInv, AddQPublish
  <2> QED BY <1>0, <2>1, <2>2
<1>5. CASE TimerEvent \/ HandlerEnter
  <2>1. UNCHANGED <<Q, Front, Rear, partial, fop, fpc, signalled>>
    BY <1>5 DEF TimerEvent, HandlerEnter, HandlerOnly, rings, windowVars, firmwareVars
  <2> QED BY <1>0, <2>1
<1>6. CASE HandlerDelete
  <2>1. Front'["Read"] = Front["Read"] /\ UNCHANGED <<Q, Rear>>
    BY <1>0, <1>6, DeleteQEffect DEF HandlerDelete
  <2> QED BY <1>0, <1>6, <2>1 DEF HandlerDelete, HandlerOnly, windowVars, firmwareVars
<1>7. ASSUME NEW op \in ReadOps \cup {"WaitForKey"}, CallRead(op) PROVE SignalInv'
  BY <1>0, <1>7 DEF CallRead, Call, ReadOps, rings, windowVars
<1>8. CASE CallReset \/ CallSetState
  BY <1>0, <1>8 DEF CallReset, CallSetState, Call, rings, windowVars
<1>9. CASE Enter \/ ReadCheck \/ WaitCheck
  BY <1>0, <1>9 DEF Enter, ReadCheck, WaitCheck, FirmwareStep, ReadOps, rings, windowVars
<1>10. CASE ReadNothing \/ SetStateReturn
  BY <1>0, <1>10 DEF ReadNothing, SetStateReturn, FirmwareStep, rings, windowVars
<1>11. CASE WaitSkip \/ WaitSignal
  BY <1>0, <1>11 DEF WaitSkip, WaitSignal, FirmwareStep, rings, windowVars
<1>12. CASE ReadAgain
  <2>1. signalled = 0
    BY <1>0, <1>12 DEF ReadAgain
  <2> QED BY <1>12, <2>1 DEF ReadAgain, FirmwareStep
<1>13. CASE ReadReturn
  BY <1>13 DEF ReadReturn, FirmwareStep
<1>14. CASE WaitDelete
  BY <1>0, <1>14 DEF WaitDelete, FirmwareStep
<1>15. CASE ResetDelete \/ ResetReturn
  BY <1>0, <1>15 DEF ResetDelete, ResetReturn, FirmwareStep
<1>16. CASE UNCHANGED vars
  BY <1>0, <1>16 DEF vars, rings, windowVars, firmwareVars
<1> QED BY <1>1, <1>2, <1>3, <1>4, <1>5, <1>6, <1>7, <1>8, <1>9, <1>10, <1>11, <1>12,
           <1>13, <1>14, <1>15, <1>16 DEF Next, Window, Handler, Firmware

LEMMA InvNext == IInv /\ [Next]_vars => IInv'
BY TypeNext, LockNext, RoomNext, SignalNext DEF IInv

(* A signalled key is the one a read that returns gives back: it is still    *)
(* the oldest, it is a whole key, and DeleteQ does not find the ring empty.  *)
LEMMA ReadGivesSignalled ==
    IInv /\ [Next]_vars => [Returns /\ signalled # 0 => result' = signalled]_vars
<1> SUFFICES ASSUME IInv, [Next]_vars, Returns, signalled # 0
             PROVE  result' = signalled
  OBVIOUS
<1>1. CheckQ("Read") /\ Oldest = signalled /\ Oldest \notin partial
  BY DEF IInv, SignalInv
<1>2. CASE ReadReturn
  BY <1>1, <1>2 DEF ReadReturn, Succeeds, Dropped, Oldest
<1>3. CASE ReadNothing
  BY <1>1, <1>3 DEF ReadNothing
<1>4. ASSUME ~ReadReturn, ~ReadNothing PROVE FALSE
  <2> USE DEF Returns, ReadOps
  <2>1. fpc' # fpc /\ fop \in ReadOps /\ fpc' = "idle"
    OBVIOUS
  <2>2. Firmware
    BY <2>1 DEF Next, vars, firmwareVars, KeyDown, Window, AddQFull, AddQCopy, AddQPublish,
       WindowOnly, TimerEvent, Handler, HandlerEnter, HandlerDelete, HandlerOnly,
       CallRead, CallReset, CallSetState, Call
  <2> QED BY <1>4, <2>1, <2>2 DEF Firmware, FirmwareStep, Enter, ReadCheck, ReadAgain,
       WaitCheck, WaitSkip, WaitSignal, WaitDelete, ResetDelete, ResetReturn, SetStateReturn
<1> QED BY <1>2, <1>3, <1>4

(* What WaitForKey has signalled, the next read returns, for every MAX_Q and *)
(* every number of keys typed meanwhile.                                     *)
THEOREM SignalledKeyIsRead == Spec => SignalIsKept
<1> QED BY InvInit, InvNext, ReadGivesSignalled, PTL DEF Spec, SignalIsKept
-----------------------------------------------------------------------------
(* Refinement.  What a step of the program may do to ring q: *)
Unmoved(q) == Contents(q)' = Contents(q) /\ taken'[q] = taken[q]
Stutters(q) == Unmoved(q) /\ Offered(q)' = Offered(q)
Accepts(q) ==
    /\ Len(Contents(q)) < MAX_Q - 1
    /\ Contents(q)' = Append(Contents(q), Offered(q) + 1)
    /\ Offered(q)' = Offered(q) + 1 /\ taken'[q] = taken[q]
Loses(q) ==
    Len(Contents(q)) = MAX_Q - 1 /\ Unmoved(q) /\ Offered(q)' = Offered(q) + 1
Takes(q) ==
    /\ Contents(q) # <<>>
    /\ taken'[q] = Head(Contents(q)) /\ Contents(q)' = Tail(Contents(q))
    /\ Offered(q)' = Offered(q)
FifoStep(q) == Stutters(q) \/ Accepts(q) \/ Loses(q) \/ Takes(q)

LEMMA RingTypes ==
    ASSUME TypeOK, NEW q \in Queues
    PROVE  /\ Front[q] \in Indices /\ Rear[q] \in Indices
           /\ Q[q] \in [Indices -> Int] /\ typed \in Nat
BY SizeAssumption, TypedAssumption DEF TypeOK, Indices

(* AddKey goes on to the other ring: the key has now been offered to this one. *)
LEMMA OfferedNext ==
    ASSUME TypeOK, AddNext, wpc # "idle", NEW q \in Queues
    PROVE  /\ q = wq => Offered(q)' = Offered(q) + 1
           /\ q # wq => Offered(q)' = Offered(q)
<1>1. typed' = typed /\ wpc' = (IF wq = "Notify" THEN "enter" ELSE "idle") /\ wq' = "Read"
  BY DEF AddNext
<1>2. wq \in {"Notify", "Read"} /\ q \in {"Notify", "Read"} /\ typed \in Nat
  BY RingsAre DEF Queues
<1> QED BY <1>1, <1>2 DEF Offered

LEMMA WindowFifo ==
    ASSUME IInv, KeyDown \/ Window, NEW q \in Queues
    PROVE  FifoStep(q)
<1>0. TypeOK /\ RoomInv /\ wq \in Queues
  BY DEF IInv, TypeOK
<1>1. CASE KeyDown
  <2>1. Offered(q)' = Offered(q)
    BY <1>0, <1>1, RingTypes DEF KeyDown, Offered
  <2> QED BY <1>1, <2>1
          DEF FifoStep, Stutters, Unmoved, KeyDown, WindowOnly, rings, Contents
<1>2. CASE AddQFull
  <2>1. Unmoved(q)
    BY <1>2 DEF AddQFull, rings, WindowOnly, Unmoved, Contents
  <2>2. q = wq => Len(Contents(q)) = MAX_Q - 1
    BY <1>0, <1>2, RingTypes, RingSeq, DistanceFull DEF AddQFull, IsFull, Contents
  <2>3. AddNext /\ wpc # "idle"
    BY <1>2 DEF AddQFull
  <2> QED BY <1>0, <2>1, <2>2, <2>3, OfferedNext DEF FifoStep, Stutters, Loses
<1>3. CASE AddQCopy
  <2>1. /\ Q' = [Q EXCEPT ![wq] = [Q[wq] EXCEPT ![Rear[wq]] = typed]]
        /\ UNCHANGED <<Front, Rear, typed, wq, taken>>
        /\ wpc # "idle" /\ wpc' # "idle"
    BY <1>3 DEF AddQCopy, WindowOnly
  <2>2. Offered(q)' = Offered(q)
    BY <2>1 DEF Offered
  <2>3. Q'[q] = Q[q] \/ Q'[q] = [Q[q] EXCEPT ![Rear[q]] = typed]
    BY <1>0, <2>1 DEF TypeOK
  <2>4. Ring(Front[q], Rear[q], Q'[q]) = Ring(Front[q], Rear[q], Q[q])
    <3>1. Front[q] \in Indices /\ Rear[q] \in Indices /\ Q[q] \in [Indices -> Int]
      BY <1>0, RingTypes
    <3>2. \A i \in Indices : i # Rear[q] => Q'[q][i] = Q[q][i]
      BY <2>3, <3>1
    <3>3. \A i \in 1 .. Distance(Front[q], Rear[q]) :
            Q'[q][Slot(Front[q], i)] = Q[q][Slot(Front[q], i)]
      BY <3>1, <3>2, SlotInside
    <3> QED BY <3>3 DEF Ring
  <2>5. Contents(q)' = Contents(q)
    BY <2>1, <2>4 DEF Contents
  <2> QED BY <2>1, <2>2, <2>5 DEF FifoStep, Stutters, Unmoved
<1>4. CASE AddQPublish
  <2>1. /\ Rear' = [Rear EXCEPT ![wq] = Succ(Rear[wq])]
        /\ UNCHANGED <<Front, Q, taken>>
        /\ AddNext /\ wpc = "publish"
    BY <1>4 DEF AddQPublish, WindowOnly
  <2>2. CASE q # wq
    <3>1. Unmoved(q)
      BY <1>0, <2>1, <2>2 DEF Unmoved, Contents, TypeOK
    <3> QED BY <1>0, <2>1, <2>2, <3>1, OfferedNext DEF FifoStep, Stutters
  <2>3. CASE q = wq
    <3>1. Succ(Rear[q]) # Front[q] /\ Q[q][Rear[q]] = typed
      BY <2>1, <2>3 DEF RoomInv, IInv
    <3>2. Rear'[q] = Succ(Rear[q])
      BY <1>0, <2>1, <2>3 DEF TypeOK
    <3>3. Contents(q)' = Append(Contents(q), typed)
      BY <1>0, <2>1, <3>1, <3>2, RingTypes, RingAppend DEF Contents
    <3>4. Len(Contents(q)) < MAX_Q - 1
      <4>1. Distance(Front[q], Rear[q]) \in Indices
        BY <1>0, RingTypes, DistanceInside
      <4>2. Distance(Front[q], Rear[q]) # MAX_Q - 1
        BY <1>0, <3>1, RingTypes, DistanceFull
      <4>3. Len(Contents(q)) = Distance(Front[q], Rear[q])
        BY <1>0, RingTypes, RingSeq DEF Contents
      <4> QED BY <4>1, <4>2, <4>3, SizeAssumption DEF Indices
    <3>5. typed = Offered(q) + 1
      BY <1>0, <2>1, <2>3, RingTypes DEF Offered, Queues
    <3> QED BY <1>0, <2>1, <2>3, <3>3, <3>4, <3>5, OfferedNext DEF FifoStep, Accepts
  <2> QED BY <2>2, <2>3
<1> QED BY <1>1, <1>2, <1>3, <1>4 DEF Window

LEMMA ConsumerTakes ==
    ASSUME Consumer
    PROVE  UNCHANGED <<Front, taken>> \/ \E p \in {"Notify", "Read", fq} : DeleteQ(p)
<1>1. CASE TimerEvent \/ HandlerEnter \/ HandlerDelete
  BY <1>1 DEF TimerEvent, HandlerEnter, HandlerDelete, rings
<1>2. CASE \/ CallReset \/ CallSetState
           \/ \E op \in ReadOps \cup {"WaitForKey"} : CallRead(op)
  BY <1>2 DEF CallReset, CallSetState, CallRead, Call, rings
<1>3. CASE \/ Enter \/ ReadCheck \/ ReadNothing \/ WaitCheck \/ WaitSkip \/ WaitSignal
           \/ SetStateReturn
  BY <1>3 DEF Enter, ReadCheck, ReadNothing, WaitCheck, WaitSkip, WaitSignal,
     SetStateReturn, rings
<1>4. CASE ReadAgain \/ ReadReturn \/ WaitDelete \/ ResetDelete \/ ResetReturn
  BY <1>4 DEF ReadAgain, ReadReturn, WaitDelete, ResetDelete, ResetReturn
<1> QED BY <1>1, <1>2, <1>3, <1>4 DEF Consumer, Handler, Firmware

LEMMA ConsumerFifo ==
    ASSUME IInv, Consumer, NEW q \in Queues
    PROVE  FifoStep(q)
<1>0. TypeOK /\ RingOfInv /\ LockInv /\ {"Notify", "Read", fq} \subseteq Queues
  BY DEF IInv, TypeOK, Queues
<1>1. UNCHANGED <<Q, Rear>> /\ Offered(q)' = Offered(q)
  BY <1>0, ConsumerStep DEF Offered
<1>2. CASE UNCHANGED <<Front, taken>>
  BY <1>1, <1>2 DEF FifoStep, Stutters, Unmoved, Contents
<1>3. ASSUME NEW p \in Queues, DeleteQ(p) PROVE FifoStep(q)
  <2>1. CASE p = q /\ CheckQ(q)
    <3>1. Front'[q] = Succ(Front[q]) /\ taken'[q] = Q[q][Front[q]]
      BY <1>0, <1>3, <2>1 DEF DeleteQ, TypeOK
    <3>2. /\ Contents(q) # <<>> /\ Head(Contents(q)) = Q[q][Front[q]]
          /\ Ring(Succ(Front[q]), Rear[q], Q[q]) = Tail(Contents(q))
      BY <1>0, <2>1, RingTypes, RingTail DEF CheckQ, Contents
    <3>3. Contents(q)' = Ring(Succ(Front[q]), Rear[q], Q[q])
      BY <1>1, <3>1 DEF Contents
    <3>4. Takes(q)
      BY <1>1, <3>1, <3>2, <3>3 DEF Takes
    <3> QED BY <3>4 DEF FifoStep
  <2>2. CASE ~(p = q /\ CheckQ(q))
    <3>1. Front'[q] = Front[q] /\ taken'[q] = taken[q]
      BY <1>0, <1>3, <2>2 DEF DeleteQ, TypeOK
    <3> QED BY <1>1, <3>1 DEF FifoStep, Stutters, Unmoved, Contents
  <2> QED BY <2>1, <2>2
<1> QED BY <1>0, <1>2, <1>3, ConsumerTakes

LEMMA RingStep ==
    ASSUME IInv, [Next]_vars, NEW q \in Queues
    PROVE  FifoStep(q)
<1>1. CASE UNCHANGED vars
  BY <1>1 DEF vars, rings, windowVars, FifoStep, Stutters, Unmoved, Contents, Offered
<1> QED BY <1>1, WindowFifo, ConsumerFifo DEF Next, Consumer

LEMMA RingInit ==
    ASSUME Init, NEW q \in Queues
    PROVE  Contents(q) = <<>> /\ Offered(q) = 0 /\ taken[q] = 0
<1>1. 0 \in Indices /\ Front[q] = 0 /\ Rear[q] = 0 /\ Q[q] \in [Indices -> Int]
  BY TypeInit, RingTypes, SizeAssumption DEF Init, Indices
<1>2. Distance(0, 0) = 0
  BY <1>1, DistanceIs
<1>3. Contents(q) \in Seq(Int) /\ Len(Contents(q)) = 0
  BY <1>1, <1>2, RingSeq DEF Contents
<1> QED BY <1>3 DEF Init, Offered

(* The ring of the readers is a lossy queue of MAX_Q - 1 keys ... *)
THEOREM ReadRingImplementsFifo == Spec => ReadRingIsFifo
<1>1. Init => ReadRing!Init
  BY RingInit DEF ReadRing!Init, Queues
<1>2. IInv /\ [Next]_vars => [ReadRing!Next]_ReadRing!vars
  <2> SUFFICES ASSUME IInv, [Next]_vars PROVE [ReadRing!Next]_ReadRing!vars
    OBVIOUS
  <2>1. FifoStep("Read")
    BY RingStep DEF Queues
  <2> QED BY <2>1 DEF FifoStep, Stutters, Unmoved, Accepts, Loses, Takes, ReadRing!Next,
          ReadRing!Accept, ReadRing!Lose, ReadRing!Take, ReadRing!vars
<1> QED BY <1>1, <1>2, InvInit, InvNext, PTL DEF Spec, ReadRingIsFifo, ReadRing!Spec

(* ... and so is the ring of the callbacks. *)
THEOREM NotifyRingImplementsFifo == Spec => NotifyRingIsFifo
<1>1. Init => NotifyRing!Init
  BY RingInit DEF NotifyRing!Init, Queues
<1>2. IInv /\ [Next]_vars => [NotifyRing!Next]_NotifyRing!vars
  <2> SUFFICES ASSUME IInv, [Next]_vars PROVE [NotifyRing!Next]_NotifyRing!vars
    OBVIOUS
  <2>1. FifoStep("Notify")
    BY RingStep DEF Queues
  <2> QED BY <2>1 DEF FifoStep, Stutters, Unmoved, Accepts, Loses, Takes, NotifyRing!Next,
          NotifyRing!Accept, NotifyRing!Lose, NotifyRing!Take, NotifyRing!vars
<1> QED BY <1>1, <1>2, InvInit, InvNext, PTL DEF Spec, NotifyRingIsFifo, NotifyRing!Spec

-----------------------------------------------------------------------------
(* The callbacks.  What is proved of the keyboard alone holds with them:   *)
(* the list and the walk over it add steps that the rings do not see.      *)

LEMMA NotifyInitIsInit == NotifyInit => Init
BY DEF NotifyInit

(* Every step is one of GopInput, or leaves its variables alone.           *)
LEMMA NotifyStepIsStep == [NotifyNext]_notifyVars => [Next]_vars
<1> SUFFICES ASSUME [NotifyNext]_notifyVars PROVE [Next]_vars
  OBVIOUS
<1>1. CASE Others
  <2>1. CASE KeyDown \/ Window \/ TimerEvent \/ Firmware
    BY <2>1 DEF Next
  <2>2. CASE CallReset \/ CallSetState \/ \E op \in ReadOps \cup {"WaitForKey"} : CallRead(op)
    BY <2>2 DEF Next
  <2> QED BY <1>1, <2>1, <2>2 DEF Others
<1>2. CASE NotifyEnter
  BY <1>2 DEF NotifyEnter, Next, Handler
<1>3. CASE NotifyDelete
  BY <1>3 DEF NotifyDelete, Next, Handler
<1>4. CASE Walk
  BY <1>4 DEF Walk, KeyNotificationFn, PassOver
<1>5. CASE List
  BY <1>5 DEF List, RegisterKeyNotify, UnregisterKeyNotify, Search, AlreadyRegistered,
     NotRegistered, OutOfResources, Allocate, LinkForward, LinkBack, UnlinkBack,
     UnlinkForward, CallStep
<1>6. CASE UNCHANGED notifyVars
  BY <1>6 DEF notifyVars
<1> QED BY <1>1, <1>2, <1>3, <1>4, <1>5, <1>6 DEF NotifyNext

----------------------------------------------------------------------------
(* Callbacks that register, unregister and are called for every key do not *)
(* come between WaitForKey's signal and the read of the key it has seen.   *)
THEOREM SignalledKeyIsReadWithCallbacks == NotifySpec => SignalIsKept
<1>1. IInv /\ [NotifyNext]_notifyVars => IInv'
  BY InvNext, NotifyStepIsStep
<1> QED BY InvInit, NotifyInitIsInit, NotifyStepIsStep, <1>1, ReadGivesSignalled, PTL
        DEF NotifySpec, SignalIsKept

(* The readers' ring is a first-in first-out queue, whatever the callbacks *)
(* do to the list.                                                         *)
THEOREM ReadRingImplementsFifoWithCallbacks == NotifySpec => ReadRingIsFifo
<1>1. NotifyInit => ReadRing!Init
  BY NotifyInitIsInit, RingInit DEF ReadRing!Init, Queues
<1>2. IInv /\ [NotifyNext]_notifyVars => [ReadRing!Next]_ReadRing!vars
  <2> SUFFICES ASSUME IInv, [Next]_vars PROVE [ReadRing!Next]_ReadRing!vars
    BY NotifyStepIsStep
  <2>1. FifoStep("Read")
    BY RingStep DEF Queues
  <2> QED BY <2>1 DEF FifoStep, Stutters, Unmoved, Accepts, Loses, Takes, ReadRing!Next,
          ReadRing!Accept, ReadRing!Lose, ReadRing!Take, ReadRing!vars
<1>3. IInv /\ [NotifyNext]_notifyVars => IInv'
  BY InvNext, NotifyStepIsStep
<1>4. NotifyInit => IInv
  BY InvInit, NotifyInitIsInit
<1> QED BY <1>1, <1>2, <1>3, <1>4, PTL DEF NotifySpec, ReadRingIsFifo, ReadRing!Spec

----------------------------------------------------------------------------
(* The list as the handler finds it: in which order the records L hang     *)
(* together, by a rank of which only the order counts.  Both directions    *)
(* agree; a record leads to the one of the next higher rank, the head to   *)
(* that of the lowest.                                                     *)
Chain(L, forward, back, rank) ==
    /\ \A l \in L \cup {NotifyList} :
         /\ forward[l] \in L \cup {NotifyList} /\ back[forward[l]] = l
         /\ back[l] \in L \cup {NotifyList} /\ forward[back[l]] = l
    /\ \A q, r \in L : rank[q] = rank[r] => q = r
    /\ \A r \in L : forward[r] \in L => rank[r] < rank[forward[r]]
    /\ \A q, r \in L : rank[r] < rank[q] => forward[r] \in L /\ rank[forward[r]] <= rank[q]
    /\ \A q \in L : forward[NotifyList] \in L /\ rank[forward[NotifyList]] <= rank[q]

(* A record r is appended, or taken out: its neighbours lead to each other. *)
Appended(L, r, forward, back, forward2, back2) ==
    /\ forward2[r] = NotifyList /\ forward2[back[NotifyList]] = r
    /\ \A l \in L \cup {NotifyList} : l # back[NotifyList] => forward2[l] = forward[l]
    /\ back2[r] = back[NotifyList] /\ back2[NotifyList] = r
    /\ \A l \in L : back2[l] = back[l]

Removed(L, r, forward, back, forward2, back2) ==
    \A l \in (L \ {r}) \cup {NotifyList} :
      /\ forward2[l] = IF l = back[r] THEN forward[r] ELSE forward[l]
      /\ back2[l] = IF l = forward[r] THEN back[r] ELSE back[l]

(* One that is appended has a rank above all others.                       *)
LEMMA ChainAppend ==
    ASSUME NEW L \in SUBSET Record, NEW r \in Record \ L, NEW rank \in [Record -> Int],
           NEW forward, NEW back, NEW forward2, NEW back2,
           Chain(L, forward, back, rank), Appended(L, r, forward, back, forward2, back2)
    PROVE  \E rank2 \in [Record -> Int] :
             /\ \A l \in L : rank2[l] = rank[l]
             /\ Chain(L \cup {r}, forward2, back2, rank2)
<1> USE DEF Appended
<1> DEFINE last == back[NotifyList]
           top == IF last = NotifyList THEN 0 ELSE rank[last] + 1
           rank2 == [rank EXCEPT ![r] = top]
<1>0. NotifyList \notin Record
  BY NotifyAssumption
<1>1. last \in L \cup {NotifyList} /\ forward[last] = NotifyList
  BY DEF Chain
<1>2. top \in Int
  BY <1>1
<1>3. rank2 \in [Record -> Int] /\ rank2[r] = top /\ \A l \in L : rank2[l] = rank[l]
  BY <1>2
<1>4. \A l \in L : rank[l] < top
  <2>1. CASE last = NotifyList
    <3>1. L = {}
      BY <1>0, <1>1, <2>1 DEF Chain
    <3> QED BY <3>1
  <2>2. CASE last \in L
    <3>1. \A l \in L : ~(rank[last] < rank[l])
      BY <1>0, <1>1, <2>2 DEF Chain
    <3>2. rank[last] \in Int /\ \A l \in L : rank[l] \in Int
      BY <2>2
    <3> QED BY <1>0, <2>2, <3>1, <3>2
  <2> QED BY <1>1, <2>1, <2>2
<1> HIDE DEF top, rank2
<1>5. ASSUME NEW l \in L \cup {r, NotifyList}
      PROVE  /\ forward2[l] \in L \cup {r, NotifyList} /\ back2[forward2[l]] = l
             /\ back2[l] \in L \cup {r, NotifyList} /\ forward2[back2[l]] = l
  <2>1. CASE l = r
    BY <1>0, <1>1, <2>1
  <2>2. CASE l # r /\ l = last
    BY <1>0, <1>1, <2>2 DEF Chain
  <2>3. CASE l # r /\ l # last
    <3>1. l \in L \cup {NotifyList}
      BY <2>3
    <3>2. forward2[l] = forward[l]
      BY <2>3, <3>1
    <3>3. forward[l] # NotifyList
      BY <2>3, <3>1 DEF Chain
    <3>4. back2[forward2[l]] = l /\ forward2[l] \in L
      BY <3>1, <3>2, <3>3 DEF Chain
    <3>5. back2[l] \in L \cup {r, NotifyList} /\ forward2[back2[l]] = l
      <4>1. CASE l = NotifyList
        BY <4>1
      <4>2. CASE l \in L
        <5>1. back2[l] = back[l] /\ back[l] \in L \cup {NotifyList} /\ forward[back[l]] = l
          BY <4>2 DEF Chain
        <5>2. back[l] # last
          BY <1>0, <1>1, <4>2, <5>1
        <5> QED BY <5>1, <5>2
      <4> QED BY <3>1, <4>1, <4>2
    <3> QED BY <3>4, <3>5
  <2> QED BY <2>1, <2>2, <2>3
<1>6. forward2[NotifyList] \in L \cup {r}
  <2>1. CASE last = NotifyList
    BY <2>1
  <2>2. CASE last # NotifyList
    BY <1>1, <2>2 DEF Chain
  <2> QED BY <2>1, <2>2
<1>7. \A l \in L : rank2[l] \in Int /\ rank2[l] < rank2[r]
  BY <1>3, <1>4
<1>8. ASSUME NEW q \in L \cup {r}, NEW t \in L \cup {r}
      PROVE  /\ rank2[q] = rank2[t] => q = t
             /\ rank2[q] < rank2[t] =>
                  forward2[q] \in L \cup {r} /\ rank2[forward2[q]] <= rank2[t]
  <2>1. rank2[q] = rank2[t] => q = t
    BY <1>3, <1>7 DEF Chain
  <2>2. ASSUME rank2[q] < rank2[t]
        PROVE  forward2[q] \in L \cup {r} /\ rank2[forward2[q]] <= rank2[t]
    <3>1. q \in L
      BY <1>2, <1>3, <1>7, <2>2
    <3>2. CASE q = last
      <4>1. \A l \in L : ~(rank[last] < rank[l])
        BY <1>0, <1>1, <3>1, <3>2 DEF Chain
      <4>2. t = r
        BY <1>3, <2>2, <3>1, <3>2, <4>1
      <4> QED BY <1>2, <1>3, <3>2, <4>2
    <3>3. CASE q # last
      <4>1. forward2[q] = forward[q] /\ forward[q] \in L
        BY <3>1, <3>3 DEF Chain
      <4>2. CASE t = r
        BY <1>7, <4>1, <4>2, <1>2, <1>3
      <4>3. CASE t \in L
        BY <1>3, <2>2, <3>1, <4>1, <4>3 DEF Chain
      <4> QED BY <4>2, <4>3
    <3> QED BY <3>2, <3>3
  <2> QED BY <2>1, <2>2
<1>9. ASSUME NEW q \in L \cup {r}, forward2[q] \in L \cup {r}
      PROVE  rank2[q] < rank2[forward2[q]]
  <2>1. q \in L
    BY <1>0, <1>9
  <2>2. CASE q = last
    BY <1>7, <2>1, <2>2
  <2>3. CASE q # last
    <3>1. forward2[q] = forward[q] /\ forward[q] \in L
      BY <2>1, <2>3 DEF Chain
    <3> QED BY <1>3, <2>1, <3>1 DEF Chain
  <2> QED BY <2>2, <2>3
<1>10. ASSUME NEW q \in L \cup {r} PROVE rank2[forward2[NotifyList]] <= rank2[q]
  <2>1. CASE last = NotifyList
    <3>1. L = {}
      BY <1>0, <1>1, <2>1 DEF Chain
    <3> QED BY <1>2, <1>3, <2>1, <3>1
  <2>2. CASE last # NotifyList
    <3>1. forward2[NotifyList] = forward[NotifyList] /\ forward[NotifyList] \in L
      BY <1>0, <1>1, <2>2 DEF Chain
    <3>2. CASE q = r
      BY <1>2, <1>3, <1>7, <3>1, <3>2
    <3>3. CASE q \in L
      BY <1>3, <3>1, <3>3 DEF Chain
    <3> QED BY <3>2, <3>3
  <2> QED BY <2>1, <2>2
<1>11. Chain(L \cup {r}, forward2, back2, rank2)
  BY <1>5, <1>6, <1>8, <1>9, <1>10 DEF Chain
<1> QED BY <1>3, <1>11

(* Without a record the others keep their ranks.                           *)
LEMMA ChainRemove ==
    ASSUME NEW L \in SUBSET Record, NEW r \in L, NEW rank \in [Record -> Int],
           NEW forward, NEW back, NEW forward2, NEW back2,
           Chain(L, forward, back, rank), Removed(L, r, forward, back, forward2, back2)
    PROVE  Chain(L \ {r}, forward2, back2, rank)
<1> USE DEF Removed
<1> DEFINE p == back[r]
           n == forward[r]
           rest == (L \ {r}) \cup {NotifyList}
<1>0. NotifyList \notin Record /\ r # NotifyList
  BY NotifyAssumption
<1>1. /\ p \in L \cup {NotifyList} /\ forward[p] = r
      /\ n \in L \cup {NotifyList} /\ back[n] = r
  BY DEF Chain
<1>2. \A l \in L : rank[l] \in Int
  OBVIOUS
<1>3. n # r
  BY <1>2, <1>1 DEF Chain
<1>4. p # r
  BY <1>1, <1>3
<1>5. p \in rest /\ n \in rest
  BY <1>1, <1>3, <1>4
<1>6. ASSUME NEW l \in rest
      PROVE  /\ forward2[l] \in rest /\ back2[forward2[l]] = l
             /\ back2[l] \in rest /\ forward2[back2[l]] = l
  <2>1. /\ forward[l] \in L \cup {NotifyList} /\ back[forward[l]] = l
        /\ back[l] \in L \cup {NotifyList} /\ forward[back[l]] = l
    BY DEF Chain
  <2>2. forward2[l] \in rest /\ back2[forward2[l]] = l
    <3>1. CASE l = p
      BY <1>5, <3>1
    <3>2. CASE l # p
      <4>1. forward[l] # r
        BY <2>1, <3>2
      <4>2. forward[l] # n
        BY <1>0, <1>1, <2>1
      <4> QED BY <2>1, <3>2, <4>1, <4>2
    <3> QED BY <3>1, <3>2
  <2>3. back2[l] \in rest /\ forward2[back2[l]] = l
    <3>1. CASE l = n
      BY <1>5, <3>1
    <3>2. CASE l # n
      <4>1. back[l] # r
        BY <2>1, <3>2
      <4>2. back[l] # p
        BY <1>0, <1>1, <2>1
      <4> QED BY <2>1, <3>2, <4>1, <4>2
    <3> QED BY <3>1, <3>2
  <2> QED BY <2>2, <2>3
<1>7. ASSUME NEW q \in L \ {r}, NEW t \in L \ {r}
      PROVE  /\ rank[q] = rank[t] => q = t
             /\ rank[q] < rank[t] => forward2[q] \in L \ {r} /\ rank[forward2[q]] <= rank[t]
  <2>1. rank[q] = rank[t] => q = t
    BY DEF Chain
  <2>2. ASSUME rank[q] < rank[t]
        PROVE  forward2[q] \in L \ {r} /\ rank[forward2[q]] <= rank[t]
    <3>1. forward[q] \in L /\ rank[forward[q]] <= rank[t]
      BY <2>2 DEF Chain
    <3>2. CASE q = p
      <4>1. forward[q] = r /\ rank[r] <= rank[t] /\ rank[r] # rank[t]
        BY <1>1, <3>1, <3>2 DEF Chain
      <4>2. rank[r] < rank[t]
        BY <1>2, <4>1
      <4>3. n \in L /\ rank[n] <= rank[t]
        BY <4>2 DEF Chain
      <4> QED BY <1>3, <3>2, <4>3
    <3>3. CASE q # p
      <4>1. forward2[q] = forward[q] /\ forward[q] # r
        BY <3>3 DEF Chain
      <4> QED BY <3>1, <4>1
    <3> QED BY <3>2, <3>3
  <2> QED BY <2>1, <2>2
<1>8. ASSUME NEW q \in L \ {r}, forward2[q] \in L \ {r}
      PROVE  rank[q] < rank[forward2[q]]
  <2>1. CASE q = p
    <3>1. rank[p] < rank[r] /\ rank[r] < rank[n] /\ forward2[q] = n
      BY <1>1, <1>8, <2>1 DEF Chain
    <3> QED BY <1>2, <1>8, <2>1, <3>1
  <2>2. CASE q # p
    <3>1. forward2[q] = forward[q]
      BY <2>2
    <3> QED BY <1>8, <3>1 DEF Chain
  <2> QED BY <2>1, <2>2
<1>9. ASSUME NEW q \in L \ {r}
      PROVE  forward2[NotifyList] \in L \ {r} /\ rank[forward2[NotifyList]] <= rank[q]
  <2>1. forward[NotifyList] \in L /\ rank[forward[NotifyList]] <= rank[q]
    BY DEF Chain
  <2>2. CASE p = NotifyList
    <3>1. rank[r] <= rank[q] /\ rank[r] # rank[q]
      BY <1>1, <2>1, <2>2 DEF Chain
    <3>2. rank[r] < rank[q]
      BY <1>2, <3>1
    <3>3. n \in L /\ rank[n] <= rank[q]
      BY <3>2 DEF Chain
    <3> QED BY <1>3, <2>2, <3>3
  <2>3. CASE p # NotifyList
    <3>1. forward2[NotifyList] = forward[NotifyList] /\ forward[NotifyList] # r
      BY <2>3 DEF Chain
    <3> QED BY <2>1, <3>1
  <2> QED BY <2>2, <2>3
<1>10. \A l \in rest : forward2[l] \in rest /\ back2[forward2[l]] = l
                       /\ back2[l] \in rest /\ forward2[back2[l]] = l
  BY <1>6
<1> HIDE DEF p, n
<1> QED BY <1>7, <1>8, <1>9, <1>10 DEF Chain

----------------------------------------------------------------------------
(* The records on the list: one that is being registered is on it once the *)
(* record before leads to it.  Two of the firmware's calls have half their *)
(* stores to the links back still to do, or already done: Back is without. *)
Listed == {r \in Record : IsLive(r) /\ ~(call.at = "link" /\ r = call.record)}

Back ==
    IF call.at = "tail" THEN [BackLink EXCEPT ![NotifyList] = call.record]
    ELSE IF call.at = "unlink" THEN [BackLink EXCEPT ![ForwardLink[call.record]] = call.record]
    ELSE BackLink

(* Where a call of the firmware is.                                        *)
CallInv ==
    /\ call.at \in {"idle", "search", "link", "tail", "unlink"}
    /\ call.at = "idle" => call = NoCall
    /\ call.at = "search" =>
         /\ call.link \in Listed \cup {NotifyList}
         /\ call.op = "Register" => call.wanted \in Notification /\ call.record = Null
    /\ call.at \in {"link", "tail", "unlink"} => call.record \in Record /\ IsLive(call.record)
    /\ call.at = "link" =>
         ForwardLink[call.record] = NotifyList /\ BackLink[call.record] = BackLink[NotifyList]
    /\ call.at = "unlink" => BackLink[ForwardLink[call.record]] = BackLink[call.record]

(* The walk stands on a record of the list, and what is due matches the    *)
(* key and is not before it.                                               *)
Ahead(rank) ==
    \A r \in walk.due : walk.link \in Record /\ rank[walk.link] <= rank[r]

ListInv ==
    \E rank \in [Record -> Int] : Chain(Listed, ForwardLink, Back, rank) /\ Ahead(rank)

WalkInv ==
    /\ walk.link \in Listed \cup {NotifyList}
    /\ walk.due \subseteq Listed
    /\ \A r \in walk.due : IsKeyRegistered(notify[r].key, walk.key)
    /\ walk.link # NotifyList => hpc = "enter"

NotifyInv ==
    /\ notify \in [Record -> Notification \cup {Null}]
    /\ ForwardLink \in [Link -> Link \cup {Null}]
    /\ BackLink \in [Link -> Link \cup {Null}]
    /\ CallInv /\ WalkInv /\ ListInv

LEMMA NotifyInvInit == NotifyInit => NotifyInv
<1> SUFFICES ASSUME NotifyInit PROVE NotifyInv
  OBVIOUS
<1>1. Listed = {}
  BY DEF NotifyInit, Listed, IsLive
<1>2. Back = BackLink
  BY DEF NotifyInit, Back, NoCall
<1> DEFINE rank == [r \in Record |-> 0]
<1>3. Chain(Listed, ForwardLink, Back, rank)
  BY <1>1, <1>2, NotifyAssumption DEF NotifyInit, Chain, Link
<1>4. rank \in [Record -> Int] /\ Ahead(rank)
  BY DEF NotifyInit, NoWalk, Ahead
<1>5. ListInv
  BY <1>3, <1>4 DEF ListInv
<1>6. CallInv /\ WalkInv
  BY DEF NotifyInit, CallInv, WalkInv, NoCall, NoWalk
<1> QED BY <1>5, <1>6 DEF NotifyInit, NotifyInv, Link

(* Nothing is due when no walk is under way.                               *)
LEMMA NoneDue ==
    ASSUME NotifyInv, hpc # "enter"
    PROVE  walk.link = NotifyList /\ walk.due = {}
<1>1. walk.link = NotifyList
  BY DEF NotifyInv, WalkInv
<1> QED BY <1>1, NotifyAssumption DEF NotifyInv, ListInv, Ahead

LEMMA ListUnchanged ==
    ASSUME UNCHANGED listVars, UNCHANGED call
    PROVE  Listed' = Listed /\ Back' = Back
BY DEF listVars, Listed, Back, IsLive

(* A step of which the list knows nothing.                                 *)
LEMMA NotifyKept ==
    ASSUME NotifyInv, UNCHANGED <<listVars, call, walk>>,
           walk.link # NotifyList => hpc' = "enter"
    PROVE  NotifyInv'
<1>1. Listed' = Listed /\ Back' = Back
  BY ListUnchanged
<1>2. UNCHANGED <<notify, ForwardLink, BackLink>>
  BY DEF listVars
<1>3. CallInv'
  BY <1>1, <1>2 DEF NotifyInv, CallInv, IsLive, NoCall
<1>4. ListInv'
  BY <1>1, <1>2 DEF NotifyInv, ListInv, Ahead
<1>5. WalkInv'
  BY <1>1, <1>2 DEF NotifyInv, WalkInv, IsKeyRegistered
<1> QED BY <1>2, <1>3, <1>4, <1>5 DEF NotifyInv

LEMMA OthersKeep ==
    ASSUME Others, hpc = "enter" PROVE hpc' = "enter"
<1>1. CASE KeyDown \/ Window
  BY <1>1 DEF KeyDown, Window, AddQFull, AddQCopy, AddQPublish, WindowOnly
<1>2. CASE TimerEvent \/ Firmware
  BY <1>2 DEF TimerEvent, Firmware, FirmwareStep, Enter, ReadCheck, ReadNothing, ReadAgain,
     ReadReturn, WaitCheck, WaitSkip, WaitSignal, WaitDelete, ResetDelete, ResetReturn,
     SetStateReturn
<1>3. CASE CallReset \/ CallSetState \/ \E op \in ReadOps \cup {"WaitForKey"} : CallRead(op)
  BY <1>3 DEF CallReset, CallSetState, CallRead, Call
<1> QED BY <1>1, <1>2, <1>3 DEF Others

(* The handler begins a walk: everything due is on the list.               *)
LEMMA InvokeKeeps ==
    ASSUME NotifyInv, NEW key, Invoke(key), hpc' = "enter", UNCHANGED <<listVars, call>>
    PROVE  NotifyInv'
<1>1. Listed' = Listed /\ Back' = Back
  BY ListUnchanged
<1>2. UNCHANGED <<notify, ForwardLink, BackLink>>
  BY DEF listVars
<1>3. CallInv'
  BY <1>1, <1>2 DEF NotifyInv, CallInv, IsLive, NoCall
<1>4. /\ walk'.link = ForwardLink[NotifyList]
      /\ walk'.due \subseteq Registered
      /\ \A r \in walk'.due : IsKeyRegistered(notify[r].key, key)
      /\ walk'.link # NotifyList => walk'.key = key
  BY Zenon DEF Invoke, WalkOn
<1>5. Registered \subseteq Listed
  BY DEF Registered, Listed
<1>6. PICK rank \in [Record -> Int] : Chain(Listed, ForwardLink, Back, rank)
  BY DEF NotifyInv, ListInv
<1>7. WalkInv'
  <2>1. walk'.link \in Listed \cup {NotifyList}
    BY <1>4, <1>6 DEF Chain
  <2>2. walk'.link = NotifyList => walk'.due = {}
    BY <1>4, <1>5, <1>6, NotifyAssumption DEF Chain, Listed
  <2>3. \A r \in walk'.due : IsKeyRegistered(notify'[r].key, walk'.key)
    BY <1>2, <1>4, <2>2
  <2> QED BY <1>1, <1>4, <1>5, <2>1, <2>3 DEF WalkInv, IsKeyRegistered
<1>8. Ahead(rank)'
  <2>1. \A r \in Listed : walk'.link \in Record /\ rank[walk'.link] <= rank[r]
    BY <1>4, <1>6 DEF Chain, Listed
  <2> QED BY <1>4, <1>5, <2>1 DEF Ahead
<1>9. ListInv'
  BY <1>1, <1>2, <1>6, <1>8 DEF ListInv
<1> QED BY <1>2, <1>3, <1>7, <1>9 DEF NotifyInv

(* It goes on to the next record, the list being in order then: what was   *)
(* due and has kept its rank does not lie behind the new place.            *)
LEMMA WalkGoesOn ==
    ASSUME NEW rank \in [Record -> Int], NEW rank2 \in [Record -> Int],
           WalkInv, Ahead(rank), Chain(Listed, ForwardLink, Back, rank),
           Chain(Listed', ForwardLink', Back', rank2),
           walk.link \in Record, walk.link \in Listed',
           walk'.link = ForwardLink'[walk.link],
           walk'.due \subseteq (walk.due \ {walk.link}) \cap Listed',
           \A r \in walk'.due : notify'[r] = notify[r],
           walk'.link # NotifyList => walk'.key = walk.key,
           \A r \in Listed \cap Listed' : rank2[r] = rank[r],
           hpc' = hpc
    PROVE  ListInv' /\ WalkInv'
<1>0. NotifyList \notin Record
  BY NotifyAssumption
<1>1. walk.link \in Listed /\ hpc = "enter"
  BY <1>0 DEF WalkInv
<1>2. walk'.link \in Listed' \cup {NotifyList}
  BY DEF Chain
<1>3. ASSUME NEW r \in walk'.due
      PROVE  walk'.link \in Record /\ rank2[walk'.link] <= rank2[r]
  <2>1. r \in Listed /\ r \in Listed' /\ r # walk.link /\ r \in walk.due
    BY DEF WalkInv
  <2>2. rank[walk.link] <= rank[r] /\ rank[walk.link] # rank[r]
    BY <1>1, <2>1 DEF Ahead, Chain
  <2>3. rank[walk.link] \in Int /\ rank[r] \in Int
    BY <2>1 DEF Listed
  <2>4. rank[walk.link] < rank[r]
    BY <2>2, <2>3
  <2>5. rank2[walk.link] < rank2[r]
    BY <1>1, <2>1, <2>4
  <2>6. walk'.link \in Listed' /\ rank2[walk'.link] <= rank2[r]
    BY <2>1, <2>5 DEF Chain
  <2> QED BY <2>6 DEF Listed
<1>4. Ahead(rank2)'
  BY <1>3 DEF Ahead
<1>5. ListInv'
  BY <1>4 DEF ListInv
<1>6. WalkInv'
  <2>1. \A r \in walk'.due : walk'.link # NotifyList /\ r \in walk.due
    BY <1>0, <1>3
  <2>2. \A r \in walk'.due : IsKeyRegistered(notify'[r].key, walk'.key)
    BY <2>1 DEF WalkInv
  <2> QED BY <1>1, <1>2, <2>2 DEF WalkInv, IsKeyRegistered
<1> QED BY <1>5, <1>6

LEMMA PassOverKeeps ==
    ASSUME NotifyInv, PassOver PROVE NotifyInv'
<1>1. /\ UNCHANGED listVars /\ UNCHANGED call /\ hpc' = hpc
      /\ walk.link \in Record /\ IsLive(walk.link)
      /\ ~IsKeyRegistered(notify[walk.link].key, walk.key)
      /\ walk'.link = ForwardLink[walk.link] /\ walk'.due = walk.due
  BY DEF PassOver, WalkOn, vars
<1>2. Listed' = Listed /\ Back' = Back
  BY <1>1, ListUnchanged
<1>3. UNCHANGED <<notify, ForwardLink, BackLink>>
  BY <1>1 DEF listVars
<1>4. CallInv'
  BY <1>1, <1>2, <1>3 DEF NotifyInv, CallInv, IsLive, NoCall
<1>5. PICK rank \in [Record -> Int] : Chain(Listed, ForwardLink, Back, rank) /\ Ahead(rank)
  BY DEF NotifyInv, ListInv
<1>6. WalkInv /\ walk.link \in Listed
  BY <1>1, NotifyAssumption DEF NotifyInv, WalkInv
<1>7. walk.link \notin walk.due
  BY <1>1, <1>6 DEF WalkInv
<1>8. walk'.link # NotifyList => walk'.key = walk.key
  BY Zenon DEF PassOver, WalkOn
<1>9. walk.due \subseteq Listed
  BY <1>6 DEF WalkInv
<1>10. Chain(Listed', ForwardLink', Back', rank)
  BY <1>2, <1>3, <1>5
<1>11. ListInv' /\ WalkInv'
  BY <1>1, <1>2, <1>3, <1>5, <1>6, <1>7, <1>8, <1>9, <1>10, WalkGoesOn
<1> QED BY <1>3, <1>4, <1>11 DEF NotifyInv

(* A callback appends a record, or takes one out that is not the walk's.   *)
LEMMA CallbackRegistersKeeps ==
    ASSUME NotifyInv, call = NoCall, UNCHANGED call, NEW r \in Record, NEW n \in Notification,
           ~IsLive(r), notify' = [notify EXCEPT ![r] = n],
           ForwardLink' = [ForwardLink EXCEPT ![r] = NotifyList, ![BackLink[NotifyList]] = r],
           BackLink' = [BackLink EXCEPT ![r] = BackLink[NotifyList], ![NotifyList] = r],
           NEW rank \in [Record -> Int], Chain(Listed, ForwardLink, Back, rank)
    PROVE  /\ notify' \in [Record -> Notification \cup {Null}]
           /\ ForwardLink' \in [Link -> Link \cup {Null}]
           /\ BackLink' \in [Link -> Link \cup {Null}]
           /\ Listed' = Listed \cup {r} /\ r \notin Listed
           /\ \E rank2 \in [Record -> Int] :
                /\ Chain(Listed', ForwardLink', Back', rank2)
                /\ \A l \in Listed : rank2[l] = rank[l]
<1>1. NotifyList \in Link /\ NotifyList \notin Record /\ Listed \in SUBSET Record
  BY NotifyAssumption DEF Link, Listed
<1>2. Back = BackLink /\ Back' = BackLink'
  BY DEF Back, NoCall
<1>3. BackLink[NotifyList] \in Listed \cup {NotifyList}
  BY <1>2 DEF Chain
<1>4. notify' \in [Record -> Notification \cup {Null}]
  BY DEF NotifyInv
<1>5. r \notin Listed /\ Listed' = Listed \cup {r}
  BY NotifyAssumption DEF Listed, IsLive, NoCall, NotifyInv
<1>6. ForwardLink' \in [Link -> Link \cup {Null}] /\ BackLink' \in [Link -> Link \cup {Null}]
  BY <1>1, <1>3 DEF NotifyInv, Link
<1>7. Appended(Listed, r, ForwardLink, Back, ForwardLink', Back')
  BY <1>1, <1>2, <1>3, <1>5 DEF NotifyInv, Link, Appended
<1>8. r \in Record \ Listed
  BY <1>5
<1>9. \E rank2 \in [Record -> Int] :
        /\ \A l \in Listed : rank2[l] = rank[l]
        /\ Chain(Listed \cup {r}, ForwardLink', Back', rank2)
  BY <1>1, <1>7, <1>8, ChainAppend
<1> QED BY <1>4, <1>5, <1>6, <1>9

LEMMA CallbackUnregistersKeeps ==
    ASSUME NotifyInv, call = NoCall, UNCHANGED call, NEW r \in Record, IsLive(r),
           notify' = Freed(notify, r),
           ForwardLink' = Freed([ForwardLink EXCEPT ![BackLink[r]] = ForwardLink[r]], r),
           BackLink' = Freed([BackLink EXCEPT ![ForwardLink[r]] = BackLink[r]], r),
           NEW rank \in [Record -> Int], Chain(Listed, ForwardLink, Back, rank)
    PROVE  /\ notify' \in [Record -> Notification \cup {Null}]
           /\ ForwardLink' \in [Link -> Link \cup {Null}]
           /\ BackLink' \in [Link -> Link \cup {Null}]
           /\ Listed' = Listed \ {r}
           /\ Chain(Listed', ForwardLink', Back', rank)
<1>1. NotifyList \in Link /\ NotifyList \notin Record /\ Listed \in SUBSET Record
  BY NotifyAssumption DEF Link, Listed
<1>2. Back = BackLink /\ Back' = BackLink'
  BY DEF Back, NoCall
<1>3. r \in Listed
  BY DEF Listed, NoCall
<1>4. BackLink[r] \in Link /\ ForwardLink[r] \in Link
  BY <1>1, <1>2, <1>3 DEF Chain, Link
<1>5. notify' \in [Record -> Notification \cup {Null}]
  BY DEF NotifyInv, Freed
<1>6. Listed' = Listed \ {r}
  BY DEF Listed, IsLive, NoCall, NotifyInv, Freed
<1>7. ForwardLink' \in [Link -> Link \cup {Null}] /\ BackLink' \in [Link -> Link \cup {Null}]
  BY <1>4 DEF NotifyInv, Link, Freed
<1>8. Removed(Listed, r, ForwardLink, Back, ForwardLink', Back')
  BY <1>1, <1>2, <1>4 DEF NotifyInv, Link, Freed, Removed
<1>9. Chain(Listed \ {r}, ForwardLink', Back', rank)
  BY <1>1, <1>3, <1>8, ChainRemove
<1> QED BY <1>5, <1>6, <1>7, <1>9

LEMMA NotificationKeeps ==
    ASSUME CallbackChanges # "any", NotifyInv, KeyNotificationFn PROVE NotifyInv'
<1>1. /\ UNCHANGED call /\ hpc' = hpc /\ walk.link \in Record /\ IsLive(walk.link)
      /\ walk'.link = ForwardLink'[walk.link]
      /\ walk'.due = {r \in walk.due \ {walk.link} : notify'[r] = notify[r]}
      /\ walk'.link # NotifyList => walk'.key = walk.key
  <2>1. UNCHANGED call /\ hpc' = hpc /\ walk.link \in Record /\ IsLive(walk.link)
    BY DEF KeyNotificationFn, vars
  <2>2. walk' = [link |-> ForwardLink'[walk.link],
                 key |-> IF ForwardLink'[walk.link] = NotifyList THEN Null ELSE walk.key,
                 due |-> {r \in walk.due \ {walk.link} : notify'[r] = notify[r]}]
    BY DEF KeyNotificationFn, WalkOn, NextLink
  <2> QED BY <2>1, <2>2
<1>2. PICK rank \in [Record -> Int] : Chain(Listed, ForwardLink, Back, rank) /\ Ahead(rank)
  BY DEF NotifyInv, ListInv
<1>3. WalkInv /\ walk.link \in Listed /\ walk.due \subseteq Listed
  BY <1>1, NotifyAssumption DEF NotifyInv, WalkInv
<1>4. ASSUME notify' \in [Record -> Notification \cup {Null}],
             ForwardLink' \in [Link -> Link \cup {Null}],
             BackLink' \in [Link -> Link \cup {Null}],
             walk.link \in Listed', Listed' \in SUBSET Record,
             \A r \in walk.due : notify'[r] = notify[r] => r \in Listed',
             NEW rank2 \in [Record -> Int], Chain(Listed', ForwardLink', Back', rank2),
             \A r \in Listed \cap Listed' : rank2[r] = rank[r],
             CallInv'
      PROVE  NotifyInv'
  <2>1. ListInv' /\ WalkInv'
    <3>1. /\ walk'.due \subseteq (walk.due \ {walk.link}) \cap Listed'
          /\ \A r \in walk'.due : notify'[r] = notify[r]
      BY <1>1, <1>4
    <3> QED BY <1>1, <1>2, <1>3, <1>4, <3>1, WalkGoesOn
  <2> QED BY <1>4, <2>1 DEF NotifyInv
<1>5. call = NoCall => CallInv'
  BY <1>1 DEF CallInv, NoCall
<1>6. CASE UNCHANGED listVars
  <2>1. Listed' = Listed /\ Back' = Back
    BY <1>1, <1>6, ListUnchanged
  <2>2. UNCHANGED <<notify, ForwardLink, BackLink>>
    BY <1>6 DEF listVars
  <2>3. CallInv'
    BY <1>1, <2>1, <2>2 DEF NotifyInv, CallInv, IsLive, NoCall
  <2>4. Listed \in SUBSET Record
    BY DEF Listed
  <2> QED BY <1>2, <1>3, <1>4, <2>1, <2>2, <2>3, <2>4 DEF NotifyInv
<1>7. CASE CallbackRegisters
  <2>1. PICK r \in Record, n \in Notification :
          /\ call = NoCall /\ ~IsLive(r) /\ notify' = [notify EXCEPT ![r] = n]
          /\ ForwardLink' = [ForwardLink EXCEPT ![r] = NotifyList, ![BackLink[NotifyList]] = r]
          /\ BackLink' = [BackLink EXCEPT ![r] = BackLink[NotifyList], ![NotifyList] = r]
    BY <1>7, NotifyAssumption DEF CallbackRegisters, MayChange
  <2>2. /\ notify' \in [Record -> Notification \cup {Null}]
        /\ ForwardLink' \in [Link -> Link \cup {Null}]
        /\ BackLink' \in [Link -> Link \cup {Null}]
        /\ Listed' = Listed \cup {r} /\ r \notin Listed
        /\ \E rank2 \in [Record -> Int] :
             /\ Chain(Listed', ForwardLink', Back', rank2)
             /\ \A l \in Listed : rank2[l] = rank[l]
    BY <1>1, <1>2, <2>1, CallbackRegistersKeeps
  <2>3. PICK rank2 \in [Record -> Int] :
             /\ Chain(Listed', ForwardLink', Back', rank2)
             /\ \A l \in Listed : rank2[l] = rank[l]
    BY <2>2
  <2>4. Listed' \in SUBSET Record
    BY <2>2 DEF Listed
  <2> QED BY <1>3, <1>4, <1>5, <2>1, <2>2, <2>3, <2>4
<1>8. CASE CallbackUnregisters
  <2>1. PICK r \in Record :
          /\ call = NoCall /\ walk.link # r /\ IsLive(r) /\ notify' = Freed(notify, r)
          /\ ForwardLink' = Freed([ForwardLink EXCEPT ![BackLink[r]] = ForwardLink[r]], r)
          /\ BackLink' = Freed([BackLink EXCEPT ![ForwardLink[r]] = BackLink[r]], r)
    BY <1>8, NotifyAssumption DEF CallbackUnregisters, MayChange, Registered
  <2>2. /\ notify' \in [Record -> Notification \cup {Null}]
        /\ ForwardLink' \in [Link -> Link \cup {Null}]
        /\ BackLink' \in [Link -> Link \cup {Null}]
        /\ Listed' = Listed \ {r}
        /\ Chain(Listed', ForwardLink', Back', rank)
    BY <1>1, <1>2, <2>1, CallbackUnregistersKeeps
  <2>3. \A d \in walk.due : notify'[d] = notify[d] => d \in Listed'
    <3>1. notify[r] # Null /\ notify'[r] = Null
      BY <2>1 DEF IsLive, Freed, NotifyInv
    <3> QED BY <1>3, <2>2, <3>1
  <2>4. Listed' \in SUBSET Record
    BY <2>2 DEF Listed
  <2> QED BY <1>2, <1>3, <1>4, <1>5, <2>1, <2>2, <2>3, <2>4
<1> QED BY <1>6, <1>7, <1>8 DEF KeyNotificationFn

(* A step of the firmware's own call comes when no walk is under way: what *)
(* it leaves of the list is a chain again.                                 *)
LEMMA ListStep ==
    ASSUME NotifyInv, hpc = "idle", hpc' = "idle", UNCHANGED walk, CallInv',
           notify' \in [Record -> Notification \cup {Null}],
           ForwardLink' \in [Link -> Link \cup {Null}],
           BackLink' \in [Link -> Link \cup {Null}],
           NEW rank \in [Record -> Int], Chain(Listed', ForwardLink', Back', rank)
    PROVE  NotifyInv'
<1>1. walk.link = NotifyList /\ walk.due = {}
  BY NoneDue
<1>2. WalkInv'
  BY <1>1 DEF WalkInv
<1>3. ListInv'
  BY <1>1 DEF ListInv, Ahead
<1> QED BY <1>2, <1>3 DEF NotifyInv

(* It looks for a record, or gives up.                                     *)
LEMMA SearchKeeps ==
    ASSUME NotifyInv, hpc = "idle", hpc' = "idle", UNCHANGED <<walk, listVars>>,
           call.at \in {"idle", "search"}, call'.at \in {"idle", "search"}, CallInv'
    PROVE  NotifyInv'
<1>1. Listed' = Listed /\ Back' = Back
  BY DEF listVars, Listed, Back, IsLive
<1>2. PICK rank \in [Record -> Int] : Chain(Listed, ForwardLink, Back, rank)
  BY DEF NotifyInv, ListInv
<1>3. UNCHANGED <<notify, ForwardLink, BackLink>>
  BY DEF listVars
<1> QED BY <1>1, <1>2, <1>3, ListStep DEF NotifyInv

(* The firmware's calls, one step after the other.                         *)
LEMMA AllocateKeeps ==
    ASSUME NotifyInv, Allocate PROVE NotifyInv'
<1>1. PICK r \in Record :
        /\ ~IsLive(r) /\ notify' = [notify EXCEPT ![r] = call.wanted]
        /\ ForwardLink' = [ForwardLink EXCEPT ![r] = NotifyList]
        /\ BackLink' = [BackLink EXCEPT ![r] = BackLink[NotifyList]]
        /\ CallStep("search", [call EXCEPT !.at = "link", !.record = r, !.wanted = Null])
  BY DEF Allocate
<1>2. /\ hpc = "idle" /\ hpc' = "idle" /\ UNCHANGED walk /\ call.at = "search"
      /\ call' = [call EXCEPT !.at = "link", !.record = r, !.wanted = Null]
      /\ call.op = "Register"
  BY <1>1 DEF Allocate, CallStep, vars
<1>3. call'.at = "link" /\ call'.record = r
  BY <1>2
<1>4. PICK rank \in [Record -> Int] : Chain(Listed, ForwardLink, Back, rank)
  BY DEF NotifyInv, ListInv
<1>5. /\ NotifyList \in Link /\ NotifyList \notin Record /\ Null \notin Notification
      /\ Listed \in SUBSET Record
  BY NotifyAssumption DEF Link, Listed
<1>6. Back = BackLink /\ Back' = BackLink'
  BY <1>2, <1>3 DEF Back
<1>7. call.wanted \in Notification
  BY <1>2 DEF NotifyInv, CallInv
<1>8. notify' \in [Record -> Notification \cup {Null}] /\ notify'[r] = call.wanted
  BY <1>1, <1>7 DEF NotifyInv
<1>9. /\ ForwardLink' \in [Link -> Link \cup {Null}] /\ BackLink' \in [Link -> Link \cup {Null}]
      /\ ForwardLink'[r] = NotifyList /\ BackLink'[r] = BackLink[NotifyList]
      /\ \A l \in Listed \cup {NotifyList} :
           l # r => ForwardLink'[l] = ForwardLink[l] /\ BackLink'[l] = BackLink[l]
  BY <1>1, <1>5 DEF NotifyInv, Link
<1>10. r \notin Listed /\ r # NotifyList
  BY <1>1, <1>5 DEF Listed
<1>11. Listed' = Listed
  <2>1. Listed' = {l \in Record : notify'[l] # Null /\ l # r}
    BY <1>3 DEF Listed, IsLive
  <2>2. Listed = {l \in Record : notify[l] # Null}
    BY <1>2 DEF Listed, IsLive
  <2>3. \A l \in Record : l # r => notify'[l] = notify[l]
    BY <1>1 DEF NotifyInv
  <2>4. notify[r] = Null
    BY <1>1 DEF IsLive
  <2> QED BY <2>1, <2>2, <2>3, <2>4
<1>12. Chain(Listed', ForwardLink', Back', rank)
  BY <1>4, <1>6, <1>9, <1>10, <1>11 DEF Chain
<1>13. CallInv'
  <2>1. IsLive(call.record)'
    BY <1>3, <1>5, <1>7, <1>8 DEF IsLive
  <2>2. BackLink'[r] = BackLink'[NotifyList]
    BY <1>5, <1>9, <1>10
  <2> QED BY <1>3, <1>9, <2>1, <2>2 DEF CallInv
<1> QED BY <1>2, <1>8, <1>9, <1>12, <1>13, ListStep

LEMMA LinkForwardKeeps ==
    ASSUME NotifyInv, LinkForward PROVE NotifyInv'
<1> DEFINE r == call.record
<1>1. /\ hpc = "idle" /\ hpc' = "idle" /\ UNCHANGED <<walk, notify, BackLink>>
      /\ call.at = "link" /\ call' = [call EXCEPT !.at = "tail"]
      /\ ForwardLink' = [ForwardLink EXCEPT ![BackLink[r]] = r]
  BY DEF LinkForward, CallStep, vars
<1>2. call'.at = "tail" /\ call'.record = r
  BY <1>1
<1>3. r \in Record /\ IsLive(r) /\ ForwardLink[r] = NotifyList /\ BackLink[r] = BackLink[NotifyList]
  BY <1>1 DEF NotifyInv, CallInv
<1>4. PICK rank \in [Record -> Int] : Chain(Listed, ForwardLink, Back, rank)
  BY DEF NotifyInv, ListInv
<1>5. /\ NotifyList \in Link /\ NotifyList \notin Record /\ r \in Link
      /\ Listed \in SUBSET Record /\ r \in Record \ Listed
  BY <1>1, <1>3, NotifyAssumption DEF Link, Listed
<1>6. Back = BackLink /\ Back' = [BackLink EXCEPT ![NotifyList] = r]
  BY <1>1, <1>2 DEF Back
<1>7. BackLink[NotifyList] \in Listed \cup {NotifyList}
  BY <1>4, <1>6 DEF Chain
<1>8. ForwardLink' \in [Link -> Link \cup {Null}]
  BY <1>1, <1>5 DEF NotifyInv
<1>9. Listed' = Listed \cup {r}
  <2>1. Listed' = {l \in Record : notify[l] # Null}
    BY <1>1, <1>2 DEF Listed, IsLive
  <2>2. Listed = {l \in Record : notify[l] # Null /\ l # r}
    BY <1>1 DEF Listed, IsLive
  <2>3. notify[r] # Null
    BY <1>3 DEF IsLive
  <2> QED BY <1>5, <2>1, <2>2, <2>3
<1>10. Appended(Listed, r, ForwardLink, Back, ForwardLink', Back')
  <2>1. /\ ForwardLink'[BackLink[r]] = r
        /\ \A l \in Link : l # BackLink[r] => ForwardLink'[l] = ForwardLink[l]
    BY <1>1, <1>3, <1>5, <1>7 DEF NotifyInv, Link
  <2>2. /\ Back'[NotifyList] = r
        /\ \A l \in Link : l # NotifyList => Back'[l] = BackLink[l]
    BY <1>5, <1>6 DEF NotifyInv
  <2>3. BackLink[NotifyList] # r
    BY <1>5, <1>7
  <2> QED BY <1>3, <1>5, <1>6, <2>1, <2>2, <2>3 DEF Appended, Link
<1>11. \E rank2 \in [Record -> Int] :
         /\ \A l \in Listed : rank2[l] = rank[l]
         /\ Chain(Listed \cup {r}, ForwardLink', Back', rank2)
  BY <1>4, <1>5, <1>10, ChainAppend
<1>12. CallInv'
  BY <1>1, <1>2, <1>3 DEF CallInv, IsLive
<1>13. PICK rank2 \in [Record -> Int] : Chain(Listed', ForwardLink', Back', rank2)
  BY <1>9, <1>11
<1> QED BY <1>1, <1>8, <1>12, <1>13, ListStep DEF NotifyInv

LEMMA LinkBackKeeps ==
    ASSUME NotifyInv, LinkBack PROVE NotifyInv'
<1>1. /\ hpc = "idle" /\ hpc' = "idle" /\ UNCHANGED <<walk, notify, ForwardLink>>
      /\ call.at = "tail" /\ call' = NoCall
      /\ BackLink' = [BackLink EXCEPT ![NotifyList] = call.record]
  BY DEF LinkBack, CallStep, vars
<1>2. PICK rank \in [Record -> Int] : Chain(Listed, ForwardLink, Back, rank)
  BY DEF NotifyInv, ListInv
<1>3. Back' = Back
  BY <1>1 DEF Back, NoCall
<1>4. Listed' = Listed
  BY <1>1 DEF Listed, IsLive, NoCall
<1>5. call.record \in Link
  BY <1>1 DEF NotifyInv, CallInv, Link
<1>6. BackLink' \in [Link -> Link \cup {Null}]
  BY <1>1, <1>5 DEF NotifyInv
<1>7. CallInv'
  BY <1>1 DEF CallInv, NoCall
<1> QED BY <1>1, <1>2, <1>3, <1>4, <1>6, <1>7, ListStep DEF NotifyInv

LEMMA UnlinkBackKeeps ==
    ASSUME NotifyInv, UnlinkBack PROVE NotifyInv'
<1> DEFINE r == call.record
<1>1. /\ hpc = "idle" /\ hpc' = "idle" /\ UNCHANGED <<walk, notify, ForwardLink>>
      /\ call.at = "search"
      /\ call' = [call EXCEPT !.at = "unlink", !.link = NotifyList]
      /\ BackLink' = [BackLink EXCEPT ![ForwardLink[r]] = BackLink[r]]
      /\ call.op = "Unregister" /\ IsFound
  BY DEF UnlinkBack, CallStep, vars
<1>2. call'.at = "unlink" /\ call'.record = r
  BY <1>1
<1>3. r \in Listed
  <2>1. call.link # NotifyList /\ call.link = r
    BY <1>1 DEF IsFound
  <2> QED BY <1>1, <2>1 DEF NotifyInv, CallInv
<1>4. PICK rank \in [Record -> Int] : Chain(Listed, ForwardLink, Back, rank)
  BY DEF NotifyInv, ListInv
<1>5. NotifyList \in Link /\ NotifyList \notin Record /\ Listed \in SUBSET Record
  BY NotifyAssumption DEF Link, Listed
<1>6. Back = BackLink /\ Back' = [BackLink' EXCEPT ![ForwardLink[r]] = r]
  BY <1>1, <1>2 DEF Back
<1>7. /\ ForwardLink[r] \in Listed \cup {NotifyList} /\ BackLink[r] \in Listed \cup {NotifyList}
      /\ BackLink[ForwardLink[r]] = r
  BY <1>3, <1>4, <1>6 DEF Chain
<1>8. ForwardLink[r] # r
  <2>1. ForwardLink[r] = r => rank[r] < rank[r] /\ rank[r] \in Int
    BY <1>3, <1>4, <1>5 DEF Chain
  <2> QED BY <2>1
<1>9. BackLink' \in [Link -> Link \cup {Null}]
  BY <1>1, <1>5, <1>7 DEF NotifyInv, Link
<1>10. Back' = Back
  BY <1>1, <1>5, <1>6, <1>7 DEF NotifyInv, Link
<1>11. Listed' = Listed
  BY <1>1, <1>2 DEF Listed, IsLive
<1>12. CallInv'
  <2>1. r \in Record /\ IsLive(r)
    BY <1>3 DEF Listed
  <2>2. BackLink'[ForwardLink[r]] = BackLink'[r]
    BY <1>1, <1>3, <1>5, <1>7, <1>8 DEF NotifyInv, Link
  <2> QED BY <1>1, <1>2, <2>1, <2>2 DEF CallInv, IsLive
<1> QED BY <1>1, <1>4, <1>9, <1>10, <1>11, <1>12, ListStep DEF NotifyInv

LEMMA UnlinkForwardKeeps ==
    ASSUME NotifyInv, UnlinkForward PROVE NotifyInv'
<1> DEFINE r == call.record
<1>1. /\ hpc = "idle" /\ hpc' = "idle" /\ UNCHANGED walk
      /\ call.at = "unlink" /\ call' = NoCall
      /\ notify' = Freed(notify, r)
      /\ ForwardLink' = Freed([ForwardLink EXCEPT ![BackLink[r]] = ForwardLink[r]], r)
      /\ BackLink' = Freed(BackLink, r)
  BY DEF UnlinkForward, CallStep, vars
<1>2. r \in Record /\ IsLive(r) /\ r \in Listed /\ BackLink[ForwardLink[r]] = BackLink[r]
  BY <1>1 DEF NotifyInv, CallInv, Listed
<1>3. PICK rank \in [Record -> Int] : Chain(Listed, ForwardLink, Back, rank)
  BY DEF NotifyInv, ListInv
<1>4. NotifyList \in Link /\ NotifyList \notin Record /\ Listed \in SUBSET Record
  BY NotifyAssumption DEF Link, Listed
<1>5. Back = [BackLink EXCEPT ![ForwardLink[r]] = r] /\ Back' = BackLink'
  BY <1>1 DEF Back, NoCall
<1>6. ForwardLink[r] \in Listed \cup {NotifyList} /\ Back[r] \in Listed \cup {NotifyList}
  BY <1>2, <1>3 DEF Chain
<1>7. ForwardLink[r] # r
  <2>1. ForwardLink[r] = r => rank[r] < rank[r] /\ rank[r] \in Int
    BY <1>2, <1>3, <1>4 DEF Chain
  <2> QED BY <2>1
<1>8. Back[r] = BackLink[r]
  BY <1>2, <1>4, <1>5, <1>6, <1>7 DEF NotifyInv, Link
<1>9. notify' \in [Record -> Notification \cup {Null}]
  BY <1>1 DEF NotifyInv, Freed
<1>10. ForwardLink' \in [Link -> Link \cup {Null}] /\ BackLink' \in [Link -> Link \cup {Null}]
  BY <1>1, <1>4, <1>6 DEF NotifyInv, Link, Freed
<1>11. Listed' = Listed \ {r}
  BY <1>1, <1>2 DEF Listed, IsLive, NoCall, NotifyInv, Freed
<1>12. Removed(Listed, r, ForwardLink, Back, ForwardLink', Back')
  <2>1. \A l \in Link : l # r =>
          ForwardLink'[l] = IF l = BackLink[r] THEN ForwardLink[r] ELSE ForwardLink[l]
    BY <1>1, <1>4, <1>6, <1>8 DEF NotifyInv, Link, Freed
  <2>2. \A l \in Link : l # r => Back'[l] = BackLink[l]
    BY <1>1, <1>5 DEF NotifyInv, Freed
  <2>3. \A l \in Link : Back[l] = IF l = ForwardLink[r] THEN r ELSE BackLink[l]
    BY <1>4, <1>5, <1>6 DEF NotifyInv, Link
  <2> QED BY <1>2, <1>4, <1>8, <2>1, <2>2, <2>3 DEF Removed, Link
<1>13. Chain(Listed \ {r}, ForwardLink', Back', rank)
  BY <1>2, <1>3, <1>4, <1>12, ChainRemove
<1>14. CallInv'
  BY <1>1 DEF CallInv, NoCall
<1> QED BY <1>1, <1>9, <1>10, <1>11, <1>13, <1>14, ListStep

LEMMA ListKeeps ==
    ASSUME NotifyInv, List PROVE NotifyInv'
<1>0. PICK rank \in [Record -> Int] : Chain(Listed, ForwardLink, Back, rank)
  BY DEF NotifyInv, ListInv
<1>1. ForwardLink[NotifyList] \in Listed \cup {NotifyList}
  BY <1>0 DEF Chain
<1>2. ASSUME UNCHANGED listVars, call.at \in {"idle", "search"}, call'.at = "search"
      PROVE  Listed' = Listed
  BY <1>2 DEF listVars, Listed, IsLive
<1>3. CASE RegisterKeyNotify
  <2>1. PICK n \in Notification :
          CallStep("idle", [op |-> "Register", at |-> "search",
                            link |-> ForwardLink[NotifyList], record |-> Null, wanted |-> n])
    BY <1>3 DEF RegisterKeyNotify
  <2>2. /\ hpc = "idle" /\ hpc' = "idle" /\ UNCHANGED <<walk, listVars>> /\ call.at = "idle"
        /\ call' = [op |-> "Register", at |-> "search",
                    link |-> ForwardLink[NotifyList], record |-> Null, wanted |-> n]
    BY <1>3, <2>1 DEF RegisterKeyNotify, CallStep, vars
  <2>3. CallInv'
    BY <1>1, <1>2, <2>2 DEF CallInv
  <2> QED BY <2>2, <2>3, SearchKeeps
<1>4. CASE UnregisterKeyNotify
  <2>1. PICK handle \in Record :
          CallStep("idle", [op |-> "Unregister", at |-> "search",
                            link |-> ForwardLink[NotifyList], record |-> handle, wanted |-> Null])
    BY <1>4 DEF UnregisterKeyNotify
  <2>2. /\ hpc = "idle" /\ hpc' = "idle" /\ UNCHANGED <<walk, listVars>> /\ call.at = "idle"
        /\ call' = [op |-> "Unregister", at |-> "search",
                    link |-> ForwardLink[NotifyList], record |-> handle, wanted |-> Null]
    BY <1>4, <2>1 DEF UnregisterKeyNotify, CallStep, vars
  <2>3. CallInv'
    BY <1>1, <1>2, <2>2 DEF CallInv
  <2> QED BY <2>2, <2>3, SearchKeeps
<1>5. CASE Search
  <2>1. /\ hpc = "idle" /\ hpc' = "idle" /\ UNCHANGED <<walk, listVars>> /\ call.at = "search"
        /\ call' = [call EXCEPT !.link = ForwardLink[call.link]]
    BY <1>5 DEF Search, CallStep, vars
  <2>2. /\ call'.at = "search" /\ call'.link = ForwardLink[call.link]
        /\ call'.op = call.op /\ call'.wanted = call.wanted /\ call'.record = call.record
    BY <2>1
  <2>3. call.link \in Listed \cup {NotifyList}
    BY <2>1 DEF NotifyInv, CallInv
  <2>4. call'.link \in Listed \cup {NotifyList}
    BY <1>0, <2>2, <2>3 DEF Chain
  <2>5. call.op = "Register" => call.wanted \in Notification /\ call.record = Null
    BY <2>1 DEF NotifyInv, CallInv
  <2>6. CallInv'
    BY <1>2, <2>1, <2>2, <2>4, <2>5 DEF CallInv
  <2> QED BY <2>1, <2>2, <2>6, SearchKeeps
<1>6. CASE AlreadyRegistered \/ NotRegistered \/ OutOfResources
  <2>1. /\ hpc = "idle" /\ hpc' = "idle" /\ UNCHANGED <<walk, listVars>> /\ call.at = "search"
        /\ call' = NoCall
    BY <1>6 DEF AlreadyRegistered, NotRegistered, OutOfResources, CallStep, vars
  <2>2. CallInv'
    BY <2>1 DEF CallInv, NoCall
  <2> QED BY <2>1, <2>2, SearchKeeps DEF NoCall
<1> QED
  BY <1>3, <1>4, <1>5, <1>6, AllocateKeeps, LinkForwardKeeps, LinkBackKeeps,
     UnlinkBackKeeps, UnlinkForwardKeeps DEF List

LEMMA NotifyInvNext ==
    ASSUME CallbackChanges # "any"
    PROVE  NotifyInv /\ [NotifyNext]_notifyVars => NotifyInv'
<1> SUFFICES ASSUME NotifyInv, [NotifyNext]_notifyVars PROVE NotifyInv'
  OBVIOUS
<1>1. walk.link # NotifyList => hpc = "enter"
  BY DEF NotifyInv, WalkInv
<1>2. CASE Others
  BY <1>1, <1>2, OthersKeep, NotifyKept DEF Others
<1>3. CASE NotifyEnter
  BY <1>3, NotifyKept DEF NotifyEnter
<1>4. CASE NotifyDelete
  <2>1. hpc = "delete" /\ hpc' = (IF Succeeds("Notify") THEN "enter" ELSE "idle")
    BY <1>4 DEF NotifyDelete, HandlerDelete
  <2>2. UNCHANGED <<listVars, call>>
    BY <1>4 DEF NotifyDelete
  <2>3. CASE Succeeds("Notify")
    BY <1>4, <2>1, <2>2, <2>3, InvokeKeeps DEF NotifyDelete
  <2>4. CASE ~Succeeds("Notify")
    BY <1>1, <1>4, <2>1, <2>2, <2>4, NotifyKept DEF NotifyDelete
  <2> QED BY <2>3, <2>4
<1>5. CASE Walk
  BY <1>5, NotificationKeeps, PassOverKeeps DEF Walk
<1>6. CASE List
  BY <1>6, ListKeeps
<1>7. CASE UNCHANGED notifyVars
  BY <1>1, <1>7, NotifyKept DEF notifyVars, vars
<1> QED BY <1>2, <1>3, <1>4, <1>5, <1>6, <1>7 DEF NotifyNext

(* However the steps of the firmware's RegisterKeyNotify and               *)
(* UnregisterKeyNotify, which do not raise the TPL, fall between the walks *)
(* of the timer handler, and whatever its callbacks register and           *)
(* unregister as long as it is not the record just called and not in the   *)
(* middle of such a change: GopPrivateInvokeRegisteredFunction never reads *)
(* a freed record, and calls all that was registered for the key before    *)
(* and still is, for any number of records and any keys.                   *)
THEOREM WalkCompletes ==
    ASSUME CallbackChanges # "any"
    PROVE  NotifySpec => []WalkIsComplete
<1>1. NotifyInv => WalkIsComplete
  <2> SUFFICES ASSUME NotifyInv PROVE WalkIsComplete
    OBVIOUS
  <2>1. walk.link # NotifyList => walk.link \in Listed
    BY DEF NotifyInv, WalkInv
  <2>2. walk.link = NotifyList => walk.due = {}
    BY NotifyAssumption DEF NotifyInv, ListInv, Ahead
  <2> QED BY <2>1, <2>2 DEF WalkIsComplete, Listed
<1>2. NotifyInv /\ [NotifyNext]_notifyVars => NotifyInv'
  BY NotifyInvNext
<1> QED BY <1>1, <1>2, NotifyInvInit, PTL DEF NotifySpec

-----------------------------------------------------------------------------
(* The display, GopScreen.                                                 *)

(* Where main is in a call on controller g; g has a frame buffer; g is being*)
(* stopped or killed; ExitBootServices has been called.                    *)
MainIsAt(g, labels) == cur["main"] = g /\ pc["main"] \in labels
HasScreen(g) == thread[g] \in {"show", "firstPaint", "loop", "paint"}
Ending(g) == MainIsAt(g, {"stop", "kill"})
Off == pc["main"] \in {"off", "kill"}

(* What a call of main relies on at each of its labels.                    *)
Where ==
    LET g == cur["main"] IN
    /\ pc["main"] \in {"start", "inited"} =>
          g \in Gop /\ needs[g] /\ private[g] = "live" /\ mode[g] # Nil
    /\ pc["main"] = "start" => thread[g] = "none"
    /\ pc["main"] = "inited" =>
          thread[g] \in {"init", "show", "firstPaint", "loop", "paint"}
    /\ pc["main"] \in {"free", "alloc", "point", "move", "moved", "fill", "copy",
                       "update"} =>
          g \in Gop /\ ~needs[g] /\ private[g] = "live" /\ mode[g] # Nil
    /\ pc["main"] = "stop" => g \in Gop /\ ~needs[g] /\ private[g] = "live"
    /\ pc["main"] = "kill" => g \in Gop /\ ~needs[g]

(* A window thread exists from StartWindow on, is not past its start before*)
(* WindowStarted has waited for it, and ends only when Stop or             *)
(* ExitBootServices asked for it.                                          *)
WindowThread(g) ==
    /\ thread[g] = "none" => needs[g]
    /\ thread[g] # "none" => private[g] # "none"
    /\ g \in exitEvent => thread[g] # "none"
    /\ thread[g] \in {"init", "show", "firstPaint"} => MainIsAt(g, {"inited"})
    /\ needs[g] => thread[g] = "none" \/ MainIsAt(g, {"inited"})
    /\ inited[g] => thread[g] \in {"loop", "paint"} /\ MainIsAt(g, {"inited"})
    /\ thread[g] = "exited" => private[g] = "freed" \/ Ending(g) \/ Off
    /\ thread[g] \notin {"none", "exited"} => private[g] = "live"
    /\ mode[g] # Nil /\ needs[g] => MainIsAt(g, {"start", "inited"})

Has(s, asked) == \E i \in DOMAIN s : s[i] = asked

Waiting == {"paint", "move", "destroy"}

(* The calls in the queues, and those that ask a window to destroy itself: *)
(* only a controller being stopped has one, and it keeps its place till the*)
(* thread takes it.                                                        *)
Doomed == {h \in Gop : \E i \in DOMAIN sent[h] : sent[h][i] = "destroy"}

Asked(g) ==
    /\ g \in Doomed => Ending(g) /\ thread[g] \in {"loop", "paint"}
    /\ Ending(g) => g \in Doomed \/ thread[g] = "exited"
    /\ thread[g] = "paint" =>
          (paint[g].forCall => sent[g] # <<>> /\ Head(sent[g]) = "paint")

(* A window's frame buffer is a live block that no other window has, of the*)
(* mode in Mode->Info, and VirtualScreen points into it, except in SetMode.*)
Own(g) == Live(dib[g]) /\ (\A h \in Gop \ {g} : HasScreen(h) => dib[h] # dib[g])

Screen(g) ==
    HasScreen(g) =>
      /\ ~MainIsAt(g, {"alloc"}) => Own(g)
      /\ ~MainIsAt(g, {"free", "alloc"}) => heap[dib[g]].mode = mode[g]
      /\ ~MainIsAt(g, {"free", "alloc", "point"}) => pixels[g] = dib[g]

(* The Blt of an actor that has come to copy was checked against the mode  *)
(* that the controller still has.                                          *)
Draws(t) == pc[t] = "copy" =>
    /\ cur[t] \in Gop /\ blt[t].last \in 0 .. Size(mode[cur[t]]) - 1
    /\ ~needs[cur[t]] /\ thread[cur[t]] \in {"loop", "paint"}
    /\ pc["main"] \notin {"stop", "kill"}

Windows == \A g \in Gop : WindowThread(g)
Requests == \A g \in Gop : Asked(g)
Blts == \A t \in Actor : Draws(t)
Screens == \A g \in Gop : Screen(g)

(* The windows that count as users of the index.                           *)
Counted == {g \in Gop : HasWindow(g) \/ Ending(g)}

Orderly == scenario.stops = {} \/ ~scenario.exits
Ends ==
    /\ ~scenario.exits => pc["main"] \notin {"off", "kill"}
    /\ scenario.stops = {} =>
          pc["main"] # "stop" /\ (\A g \in Gop : private[g] # "freed")
    /\ Orderly => \A g \in exitEvent : Off => HasWindow(g) /\ ~Ending(g)
Counts == Orderly => users = Cardinality(Counted) /\ (Counted # {} => tls)

Alone == \E g \in Gop : scenario.starts \subseteq {g}
Single ==
    Alone => \A g \in Gop : /\ HasWindow(g) => tls
                            /\ private[g] # "none" => g \in scenario.starts

(* What the steps of a call rest on.                                       *)
Control == ScreenTypeOK /\ Where /\ Windows /\ Requests /\ Blts

SameUsers == Orderly => (Counted' = Counted /\ users' = users /\ tls' = tls)


(* What the operators return.                                              *)
LEMMA SizeIsPositive == \A m \in Modes : Size(m) \in Nat \ {0}
BY ModesAssumption, Z3 DEF Size, Modes

LEMMA LastInside ==
    ASSUME NEW m \in Modes \cup {Nil}, NEW x \in Nat, NEW y \in Nat,
           NEW w \in Nat \ {0}, NEW h \in Nat \ {0},
           Fits(m, x, y, w, h)
    PROVE  LastPixel(m, x, y, w) \in 0 .. Size(m) - 1
<1>1. m \in Modes
  BY DEF Fits
<1> DEFINE a == Horizontal[m]
           b == Vertical[m]
<1>2. a \in Nat /\ b \in Nat /\ x + w <= a /\ y + h <= b
  BY <1>1, ModesAssumption DEF Fits
<1>3. LastPixel(m, x, y, w) = (b - y - 1) * a + x + w - 1 /\ Size(m) = a * b
  BY DEF LastPixel, Size
<1> HIDE DEF a, b
<1> DEFINE k == b - y - 1
<1>4. k \in 0 .. b - 1 /\ k * a + a <= a * b /\ k * a >= 0
  <2>1. k \in 0 .. b - 1
    BY <1>2
  <2>2. k * a + a = (k + 1) * a /\ k * a \in Nat
    BY <1>2, <2>1
  <2>3. (k + 1) * a <= b * a
    BY <1>2, <2>1
  <2> QED BY <1>2, <2>1, <2>2, <2>3
<1> QED BY <1>2, <1>3, <1>4

LEMMA CountIsType ==
    \A n \in 0 .. CountLimit - 1 :
        /\ (n + 1) % CountLimit \in 0 .. CountLimit - 1
        /\ (n + CountLimit - 1) % CountLimit \in 0 .. CountLimit - 1
BY ScenarioAssumption

LEMMA AppendType ==
    \A s \in Seq(Waiting), c \in Waiting : Append(s, c) \in Seq(Waiting)
OBVIOUS
LEMMA TailType == \A s \in Seq(Waiting) : s # <<>> => Tail(s) \in Seq(Waiting)
OBVIOUS
(* Putting a call into a queue keeps the type of the queues.               *)
LEMMA SentIsKept ==
    \A g \in Gop, c \in Waiting :
        ScreenTypeOK => [sent EXCEPT ![g] = Append(@, c)] \in [Gop -> Seq(Waiting)]
<1> TAKE g \in Gop, c \in Waiting
<1> HAVE ScreenTypeOK
<1>1. sent \in [Gop -> Seq(Waiting)]
  BY DEF ScreenTypeOK, Waiting
<1>2. Append(sent[g], c) \in Seq(Waiting)
  BY <1>1, AppendType
<1> QED BY <1>1, <1>2

LEMMA EmptySeq == <<>> \in Seq(Waiting)
OBVIOUS

(* What a queue holds after a call was put into it or taken from it.       *)
LEMMA AppendHas ==
    \A s \in Seq(Waiting), c \in Waiting :
        /\ \A d : Has(Append(s, c), d) <=> Has(s, d) \/ c = d
        /\ Append(s, c) # <<>>
        /\ s # <<>> => Head(Append(s, c)) = Head(s)
<1> TAKE s \in Seq(Waiting), c \in Waiting
<1>1. /\ DOMAIN Append(s, c) = 1 .. Len(s) + 1
      /\ \A i \in 1 .. Len(s) : Append(s, c)[i] = s[i]
      /\ Append(s, c)[Len(s) + 1] = c
      /\ DOMAIN s = 1 .. Len(s) /\ Len(s) \in Nat
  OBVIOUS
<1>2. \A d : Has(Append(s, c), d) <=> Has(s, d) \/ c = d
  BY <1>1 DEF Has
<1>3. Append(s, c) # <<>> /\ Head(Append(s, c)) = Append(s, c)[1]
  OBVIOUS
<1>4. CASE s = <<>>
  BY <1>1, <1>2, <1>3, <1>4
<1>5. CASE s # <<>>
  <2>1. Head(s) = s[1] /\ 1 \in 1 .. Len(s)
    BY <1>5
  <2> QED BY <1>1, <1>2, <1>3, <1>5, <2>1
<1> QED BY <1>4, <1>5

LEMMA TailHas ==
    \A s \in Seq(Waiting) : s # <<>> =>
        \A d : Has(s, d) <=> Has(Tail(s), d) \/ Head(s) = d
<1> SUFFICES ASSUME NEW s \in Seq(Waiting), s # <<>>
             PROVE  \A d : Has(s, d) <=> Has(Tail(s), d) \/ Head(s) = d
  OBVIOUS
<1>1. /\ DOMAIN s = 1 .. Len(s) /\ Len(s) \in Nat \ {0} /\ Head(s) = s[1]
      /\ DOMAIN Tail(s) = 1 .. Len(s) - 1
      /\ \A i \in 1 .. Len(s) - 1 : Tail(s)[i] = s[i + 1]
  OBVIOUS
<1>2. \A i \in 2 .. Len(s) : i - 1 \in 1 .. Len(s) - 1 /\ Tail(s)[i - 1] = s[i]
  BY <1>1
<1>3. ASSUME NEW d, NEW i \in DOMAIN s, s[i] = d
      PROVE  Has(Tail(s), d) \/ Head(s) = d
  <2>1. i = 1 \/ i \in 2 .. Len(s)
    BY <1>1
  <2> QED BY <1>1, <1>2, <1>3, <2>1 DEF Has
<1>4. ASSUME NEW d, NEW i \in DOMAIN Tail(s), Tail(s)[i] = d
      PROVE  Has(s, d)
  <2>1. i + 1 \in DOMAIN s /\ s[i + 1] = d
    BY <1>1, <1>4
  <2> QED BY <2>1 DEF Has
<1>5. Has(s, Head(s))
  <2>1. 1 \in DOMAIN s
    BY <1>1
  <2> QED BY <1>1, <2>1 DEF Has
<1> QED BY <1>3, <1>4, <1>5 DEF Has

LEMMA EmptyHas == \A d : ~Has(<<>>, d)
BY DEF Has

(* A controller is doomed by its own queue alone.                          *)
LEMMA DoomedHas ==
    \A h \in Gop : /\ h \in Doomed <=> Has(sent[h], "destroy")
                   /\ h \in Doomed' <=> Has(sent'[h], "destroy")
BY DEF Doomed, Has

LEMMA DoomedStays == sent' = sent => Doomed' = Doomed
BY DEF Doomed

(* Every step keeps the types, given what the calls rely on.               *)
LEMMA TypesAreKept ==
    Control /\ [ScreenNext]_screenState => ScreenTypeOK'
<1> SUFFICES ASSUME ScreenTypeOK, Where, Windows, Requests, Blts,
                    [ScreenNext]_screenState
             PROVE  ScreenTypeOK'
  BY DEF Control
<1>1. ASSUME NEW g \in Gop, Start(g)
      PROVE  ScreenTypeOK'
  BY <1>1 DEF Start, At, Runs, displayVars, screenVars, ScreenTypeOK, Actor
<1>2. ASSUME NEW g \in Gop, NEW m \in Modes, SetMode(g, m)
      PROVE  ScreenTypeOK'
  BY <1>2 DEF SetMode, At, Request, Runs, displayVars, screenVars, globalVars,
         ScreenTypeOK, Actor
<1>3. ASSUME StartWindow PROVE ScreenTypeOK'
  <2>1. users' \in 0 .. CountLimit - 1
    BY <1>3, CountIsType DEF ScreenTypeOK, StartWindow
  <2>2. cur["main"] \in Gop
    BY <1>3 DEF Where, StartWindow, At
  <2>3. exitEvent' \subseteq Gop
    BY <1>3, <2>2 DEF ScreenTypeOK, StartWindow
  <2> QED BY <1>3, <2>1, <2>3 DEF ScreenTypeOK, Actor, StartWindow, At, Goto,
                 Runs, screenVars, privateVars
<1>4. ASSUME WindowStarted PROVE ScreenTypeOK'
  BY <1>4 DEF WindowStarted, At, Goto, Runs, screenVars, globalVars,
         ScreenTypeOK, Actor
<1>5. ASSUME FreeScreen PROVE ScreenTypeOK'
  BY <1>5 DEF FreeScreen, At, Goto, Runs, displayVars, privateVars, globalVars,
         ScreenTypeOK, Actor
<1>6. ASSUME AllocScreen PROVE ScreenTypeOK'
  <2> DEFINE g == cur["main"]
             b == [mode |-> mode[g], room |-> Size(mode[g]) + Header]
  <2>1. b \in Block
    BY <1>6, SizeIsPositive, HeapAssumption
       DEF ScreenTypeOK, AllocScreen, At, Where, Block
  <2>2. PICK a \in Addr : /\ heap' = [heap EXCEPT ![a] = b]
                          /\ dib' = [dib EXCEPT ![g] = a]
    BY <1>6 DEF AllocScreen
  <2>3. heap' \in [Addr -> Block \cup {Nil}] /\ dib' \in [Gop -> Addr \cup {Nil}]
    BY <2>1, <2>2 DEF ScreenTypeOK
  <2> QED BY <1>6, <2>3 DEF ScreenTypeOK, Actor, AllocScreen, At, Goto, Runs,
                 displayVars, privateVars, globalVars
<1>7. ASSUME PointScreen PROVE ScreenTypeOK'
  BY <1>7 DEF PointScreen, At, Goto, Runs, displayVars, privateVars, globalVars,
         ScreenTypeOK, Actor
<1>8. ASSUME MoveWindow PROVE ScreenTypeOK'
  <2>1. sent' \in [Gop -> Seq(Waiting)]
    BY <1>8, AppendType DEF ScreenTypeOK, MoveWindow, Where, Waiting
  <2> QED BY <1>8, <2>1 DEF ScreenTypeOK, Actor, Waiting, MoveWindow, At, Goto,
                 Runs, displayVars, screenVars, privateVars, globalVars
<1>9. ASSUME MoveReturns PROVE ScreenTypeOK'
  BY <1>9 DEF MoveReturns, At, Goto, Runs, Awaits, displayVars, screenVars,
         privateVars, globalVars, ScreenTypeOK, Actor
<1>10. ASSUME FillLine PROVE ScreenTypeOK'
  <2> DEFINE m == mode[cur["main"]]
  <2>1. m \in Modes
    BY <1>10 DEF ScreenTypeOK, FillLine, At, Where
  <2>2. Horizontal[m] \in Nat /\ Size(m) - 1 \in Int
    BY <2>1, SizeIsPositive, ModesAssumption
  <2>3. fill' \in [Gop -> Nat]
    BY <1>10, <2>2 DEF ScreenTypeOK, FillLine
  <2>4. blt' \in [Actor -> Rectangle \cup {Nil}]
    BY <1>10, <2>2 DEF ScreenTypeOK, FillLine, Rectangle
  <2> HIDE DEF m
  <2> QED BY <1>10, <2>3, <2>4 DEF ScreenTypeOK, Actor, FillLine, At, Goto,
                 Runs, displayVars, screenVars, globalVars
<1>11. ASSUME FillLineFails PROVE ScreenTypeOK'
  BY <1>11 DEF FillLineFails, At, Goto, Runs, displayVars, screenVars,
         privateVars, globalVars, ScreenTypeOK, Actor
<1>12. ASSUME NEW t \in Actor, NEW g \in Gop, NEW o \in {"fill", "write", "read"},
              Blt(t, g, o)
      PROVE  ScreenTypeOK'
  <2>1. PICK w \in 1 .. 2, h \in 1 .. 2, x \in 0 .. 1, y \in 0 .. 1 :
           /\ Fits(mode[g], x, y, w, h)
           /\ blt' = [blt EXCEPT ![t] =
                        [op |-> o, width |-> w,
                         last |-> LastPixel(mode[g], x, y, w)]]
    BY <1>12 DEF Blt
  <2>2. LastPixel(mode[g], x, y, w) \in Int
    <3>1. /\ mode[g] \in Modes \cup {Nil} /\ x \in Nat /\ y \in Nat
          /\ w \in Nat \ {0} /\ h \in Nat \ {0}
      BY DEF ScreenTypeOK
    <3>2. LastPixel(mode[g], x, y, w) \in 0 .. Size(mode[g]) - 1
      BY <2>1, <3>1, LastInside
    <3> QED BY <3>2
  <2>3. blt' \in [Actor -> Rectangle \cup {Nil}]
    BY <2>1, <2>2 DEF ScreenTypeOK, Rectangle
  <2> QED BY <1>12, <2>3 DEF ScreenTypeOK, Actor, Blt, At, Request, Runs,
                 displayVars, screenVars, privateVars, globalVars
<1>13. ASSUME NEW t \in Actor, Copy(t)
      PROVE  ScreenTypeOK'
  <2>1. sent' \in [Gop -> Seq(Waiting)]
    <3>1. cur[t] \in Gop
      BY <1>13 DEF Blts, Draws, Copy, At
    <3>2. sent' = sent \/ sent' = [sent EXCEPT ![cur[t]] = Append(@, "paint")]
      BY <1>13, <3>1 DEF Copy, ScreenTypeOK
    <3> QED BY ZenonT(30), <3>1, <3>2, SentIsKept DEF ScreenTypeOK, Waiting
  <2>2. invalid' \in [Gop -> BOOLEAN]
    <3>1. visible[cur[t]] \in BOOLEAN
      BY <1>13 DEF ScreenTypeOK, Blts, Draws, Copy, At
    <3> QED BY <1>13, <3>1 DEF ScreenTypeOK, Copy
  <2>3. blt' \in [Actor -> Rectangle \cup {Nil}]
    BY <1>13 DEF ScreenTypeOK, Copy
  <2> QED BY <1>13, <2>1, <2>2, <2>3 DEF ScreenTypeOK, Actor, Waiting, Copy, At,
                 Goto, Runs, screenVars, privateVars, globalVars
<1>14. ASSUME NEW t \in Actor, UpdateReturns(t)
      PROVE  ScreenTypeOK'
  BY <1>14 DEF UpdateReturns, At, Goto, Runs, Awaits, displayVars, screenVars,
         privateVars, globalVars, ScreenTypeOK, Actor
<1>15. ASSUME NEW g \in Gop, Stop(g)
      PROVE  ScreenTypeOK'
  <2>1. sent' \in [Gop -> Seq(Waiting)]
    <3>1. sent' = sent \/ sent' = [sent EXCEPT ![g] = Append(@, "destroy")]
      BY <1>15 DEF Stop, SendDestroy, ScreenTypeOK
    <3> QED BY <3>1, SentIsKept DEF ScreenTypeOK, Waiting
  <2>2. private' \in [Gop -> {"none", "live", "freed"}]
    BY <1>15 DEF ScreenTypeOK, Stop
  <2> QED BY <1>15, <2>1, <2>2 DEF ScreenTypeOK, Actor, Waiting, Stop, At,
                 Request, Runs, SendDestroy, displayVars, screenVars, globalVars
<1>16. ASSUME StopReturns PROVE ScreenTypeOK'
  <2>1. users' \in 0 .. CountLimit - 1 /\ tls' \in BOOLEAN
    BY <1>16, CountIsType DEF ScreenTypeOK, StopReturns, ReleaseTls
  <2> QED BY <1>16, <2>1 DEF ScreenTypeOK, Actor, StopReturns, At, Goto, Runs,
                 displayVars, screenVars
<1>17. ASSUME ExitBootServices PROVE ScreenTypeOK'
  BY <1>17 DEF ExitBootServices, At, Goto, Runs, displayVars, screenVars,
         privateVars, globalVars, ScreenTypeOK, Actor
<1>18. ASSUME NEW g \in Gop, Kill(g)
      PROVE  ScreenTypeOK'
  <2>1. sent' \in [Gop -> Seq(Waiting)]
    <3>1. sent' = sent \/ sent' = [sent EXCEPT ![g] = Append(@, "destroy")]
      BY <1>18 DEF Kill, SendDestroy, ScreenTypeOK
    <3> QED BY <3>1, SentIsKept DEF ScreenTypeOK, Waiting
  <2> QED BY <1>18, <2>1 DEF ScreenTypeOK, Actor, Waiting, Kill, At, Runs,
                 SendDestroy, displayVars, screenVars, privateVars
<1>19. ASSUME KillReturns PROVE ScreenTypeOK'
  <2>1. users' \in 0 .. CountLimit - 1 /\ tls' \in BOOLEAN
    BY <1>19, CountIsType DEF ScreenTypeOK, KillReturns, ReleaseTls
  <2> QED BY <1>19, <2>1 DEF ScreenTypeOK, Actor, KillReturns, At, Goto, Runs,
                 displayVars, screenVars, privateVars
<1>20. ASSUME NEW g \in Gop, Create(g)
      PROVE  ScreenTypeOK'
  <2> DEFINE b == [mode |-> mode[g], room |-> Size(mode[g])]
  <2>1. b \in Block
    BY <1>20, SizeIsPositive DEF ScreenTypeOK, Create, Where, Windows, WindowThread,
           MainIsAt, Block
  <2>2. PICK a \in Addr : /\ heap' = [heap EXCEPT ![a] = b]
                          /\ dib' = [dib EXCEPT ![g] = a]
                          /\ pixels' = [pixels EXCEPT ![g] = a]
    BY <1>20 DEF Create
  <2>3. /\ heap' \in [Addr -> Block \cup {Nil}]
        /\ dib' \in [Gop -> Addr \cup {Nil}]
        /\ pixels' \in [Gop -> Addr \cup {Nil}]
    BY <2>1, <2>2 DEF ScreenTypeOK
  <2> QED BY <1>20, <2>3 DEF ScreenTypeOK, Actor, Create, privateVars,
                 globalVars
<1>21. ASSUME NEW g \in Gop, Show(g)
      PROVE  ScreenTypeOK'
  <2>1. paint' \in [Gop -> Drawing \cup {Nil}]
    BY <1>21 DEF ScreenTypeOK, Show, BeginPaint, Drawing
  <2> QED BY <1>21, <2>1 DEF ScreenTypeOK, Actor, Show, BeginPaint, screenVars,
                 privateVars, globalVars
<1>22. ASSUME NEW g \in Gop, ReleaseInited(g)
      PROVE  ScreenTypeOK'
  BY <1>22 DEF ReleaseInited, screenVars, privateVars, globalVars, ScreenTypeOK,
         Actor
<1>23. ASSUME NEW g \in Gop, Paint(g)
      PROVE  ScreenTypeOK'
  <2>1. paint' \in [Gop -> Drawing \cup {Nil}]
    BY <1>23 DEF ScreenTypeOK, Paint, BeginPaint, Drawing
  <2> QED BY <1>23, <2>1 DEF ScreenTypeOK, Actor, Paint, BeginPaint, screenVars,
                 privateVars, globalVars
<1>24. ASSUME NEW g \in Gop, PaintEnd(g)
      PROVE  ScreenTypeOK'
  <2>1. sent' \in [Gop -> Seq(Waiting)]
    <3>1. sent[g] \in Seq(Waiting)
      BY DEF ScreenTypeOK, Waiting
    <3>2. CASE paint[g].forCall
      <4>1. sent[g] # <<>> /\ sent' = [sent EXCEPT ![g] = Tail(sent[g])]
        BY <1>24, <3>2 DEF PaintEnd, Requests, Asked
      <4> QED BY <4>1, <3>1, TailType DEF ScreenTypeOK, Waiting
    <3>3. CASE ~paint[g].forCall
      <4>1. sent' = [sent EXCEPT ![g] = sent[g]]
        BY <1>24, <3>3 DEF PaintEnd
      <4> QED BY <4>1, <3>1 DEF ScreenTypeOK, Waiting
    <3> QED BY <3>2, <3>3
  <2> QED BY <1>24, <2>1 DEF ScreenTypeOK, Actor, Waiting, PaintEnd, screenVars,
                 privateVars, globalVars
<1>25. ASSUME NEW g \in Gop, Moved(g)
      PROVE  ScreenTypeOK'
  BY <1>25 DEF Moved, IsFirst, screenVars, privateVars, globalVars,
         ScreenTypeOK, Actor
<1>26. ASSUME NEW g \in Gop, Destroy(g)
      PROVE  ScreenTypeOK'
  <2>1. sent' \in [Gop -> Seq(Waiting)]
    BY <1>26, EmptySeq DEF ScreenTypeOK, Destroy, Waiting
  <2> QED BY <1>26, <2>1 DEF ScreenTypeOK, Actor, Waiting, Destroy, privateVars,
                 globalVars
<1>27. ASSUME NEW g \in Gop, Close(g)
      PROVE  ScreenTypeOK'
  BY <1>27 DEF Close, screenVars, privateVars, globalVars, ScreenTypeOK, Actor
<1>28. ASSUME NEW g \in Gop, Uncover(g)
      PROVE  ScreenTypeOK'
  BY <1>28 DEF Uncover, screenVars, privateVars, globalVars, ScreenTypeOK, Actor
<1>29. ASSUME UNCHANGED screenState PROVE ScreenTypeOK'
  BY <1>29 DEF screenState, displayVars, screenVars, privateVars, globalVars,
         ScreenTypeOK, Actor
<1> QED
  BY <1>1, <1>2, <1>3, <1>4, <1>5, <1>6, <1>7, <1>8, <1>9, <1>10, <1>11,
     <1>12, <1>13, <1>14, <1>15, <1>16, <1>17, <1>18, <1>19, <1>20, <1>21,
     <1>22, <1>23, <1>24, <1>25, <1>26, <1>27, <1>28, <1>29
     DEF ScreenNext, MainGoesOn, WindowGoesOn, Advance, Actor

(* Every step keeps what the calls of main rely on.                        *)
LEMMA WhereIsKept ==
    Control /\ [ScreenNext]_screenState => Where'
<1> SUFFICES ASSUME ScreenTypeOK, Where, Windows, Requests, Blts,
                    [ScreenNext]_screenState
             PROVE  Where'
  BY DEF Control
<1>1. ASSUME NEW g \in Gop, Start(g)
      PROVE  Where'
  BY <1>1 DEF Start, At, Runs, displayVars, screenVars, Where, Windows, WindowThread,
         Blts, Draws, MainIsAt, ScreenTypeOK, Actor
<1>2. ASSUME NEW g \in Gop, NEW m \in Modes, SetMode(g, m)
      PROVE  Where'
  BY <1>2, HeapAssumption DEF SetMode, At, Request, Runs, displayVars,
         screenVars, globalVars, Where, Windows, WindowThread, Blts, Draws, MainIsAt,
         ScreenTypeOK, Actor
<1>3. ASSUME StartWindow PROVE Where'
  BY <1>3 DEF StartWindow, At, Goto, Runs, screenVars, privateVars, Where,
         Windows, WindowThread, Blts, Draws, MainIsAt, ScreenTypeOK, Actor
<1>4. ASSUME WindowStarted PROVE Where'
  BY <1>4 DEF WindowStarted, At, Goto, Runs, screenVars, globalVars, Where,
         Windows, WindowThread, Blts, Draws, MainIsAt, ScreenTypeOK, Actor
<1>5. ASSUME FreeScreen PROVE Where'
  BY <1>5 DEF FreeScreen, At, Goto, Runs, displayVars, privateVars, globalVars,
         Where, Windows, WindowThread, Blts, Draws, MainIsAt, ScreenTypeOK, Actor
<1>6. ASSUME AllocScreen PROVE Where'
  BY <1>6 DEF AllocScreen, At, Goto, Runs, displayVars, privateVars, globalVars,
         Size, Where, Windows, WindowThread, Blts, Draws, MainIsAt, ScreenTypeOK,
         Actor
<1>7. ASSUME PointScreen PROVE Where'
  BY <1>7 DEF PointScreen, At, Goto, Runs, displayVars, privateVars, globalVars,
         Where, Windows, WindowThread, Blts, Draws, MainIsAt, ScreenTypeOK, Actor
<1>8. ASSUME MoveWindow PROVE Where'
  BY <1>8 DEF MoveWindow, At, Goto, Runs, displayVars, screenVars, privateVars,
         globalVars, Where, Windows, WindowThread, Blts, Draws, MainIsAt,
         ScreenTypeOK, Actor
<1>9. ASSUME MoveReturns PROVE Where'
  BY <1>9 DEF MoveReturns, At, Goto, Runs, Awaits, displayVars, screenVars,
         privateVars, globalVars, Where, Windows, WindowThread, Blts, Draws, MainIsAt,
         ScreenTypeOK, Actor
<1>10. ASSUME FillLine PROVE Where'
  BY <1>10 DEF FillLine, At, Goto, Runs, displayVars, screenVars, globalVars,
         Size, Where, Windows, WindowThread, Blts, Draws, MainIsAt, ScreenTypeOK,
         Actor
<1>11. ASSUME FillLineFails PROVE Where'
  BY <1>11 DEF FillLineFails, At, Goto, Runs, displayVars, screenVars,
         privateVars, globalVars, Where, Windows, WindowThread, Blts, Draws, MainIsAt,
         ScreenTypeOK, Actor
<1>12. ASSUME NEW t \in Actor, NEW g \in Gop, NEW o \in {"fill", "write", "read"},
              Blt(t, g, o)
      PROVE  Where'
  BY <1>12 DEF Blt, At, Request, Runs, displayVars, screenVars, privateVars,
         globalVars, Fits, LastPixel, Where, Windows, WindowThread, Blts, Draws,
         MainIsAt, ScreenTypeOK, Actor
<1>13. ASSUME NEW t \in Actor, Copy(t)
      PROVE  Where'
  BY <1>13 DEF Copy, At, Goto, Runs, screenVars, privateVars, globalVars, Where,
         Windows, WindowThread, Blts, Draws, MainIsAt, ScreenTypeOK, Actor
<1>14. ASSUME NEW t \in Actor, UpdateReturns(t)
      PROVE  Where'
  BY <1>14 DEF UpdateReturns, At, Goto, Runs, Awaits, displayVars, screenVars,
         privateVars, globalVars, Where, Windows, WindowThread, Blts, Draws, MainIsAt,
         ScreenTypeOK, Actor
<1>15. ASSUME NEW g \in Gop, Stop(g)
      PROVE  Where'
  BY <1>15 DEF Stop, At, Request, Runs, SendDestroy, displayVars, screenVars,
         globalVars, Where, Windows, WindowThread, Blts, Draws, MainIsAt,
         ScreenTypeOK, Actor
<1>16. ASSUME StopReturns PROVE Where'
  BY <1>16 DEF StopReturns, At, Goto, Runs, Awaits, ReleaseTls, displayVars,
         screenVars, Where, Windows, WindowThread, Blts, Draws, MainIsAt,
         ScreenTypeOK, Actor
<1>17. ASSUME ExitBootServices PROVE Where'
  BY <1>17 DEF ExitBootServices, At, Goto, Runs, displayVars, screenVars,
         privateVars, globalVars, Where, Windows, WindowThread, Blts, Draws, MainIsAt,
         ScreenTypeOK, Actor
<1>18. ASSUME NEW g \in Gop, Kill(g)
      PROVE  Where'
  BY <1>18 DEF Kill, At, Runs, SendDestroy, displayVars, screenVars,
         privateVars, Where, Windows, WindowThread, Blts, Draws, MainIsAt,
         ScreenTypeOK, Actor
<1>19. ASSUME KillReturns PROVE Where'
  BY <1>19 DEF KillReturns, At, Goto, Runs, Awaits, ReleaseTls, displayVars,
         screenVars, privateVars, Where, Windows, WindowThread, Blts, Draws, MainIsAt,
         ScreenTypeOK, Actor
<1>20. ASSUME NEW g \in Gop, Create(g)
      PROVE  Where'
  BY <1>20 DEF Create, privateVars, globalVars, Size, Where, Windows, WindowThread,
         Blts, Draws, MainIsAt, ScreenTypeOK, Actor
<1>21. ASSUME NEW g \in Gop, Show(g)
      PROVE  Where'
  BY <1>21 DEF Show, BeginPaint, screenVars, privateVars, globalVars, Where,
         Windows, WindowThread, Blts, Draws, MainIsAt, ScreenTypeOK, Actor
<1>22. ASSUME NEW g \in Gop, ReleaseInited(g)
      PROVE  Where'
  BY <1>22 DEF ReleaseInited, screenVars, privateVars, globalVars, Where,
         Windows, WindowThread, Blts, Draws, MainIsAt, ScreenTypeOK, Actor
<1>23. ASSUME NEW g \in Gop, Paint(g)
      PROVE  Where'
  BY <1>23 DEF Paint, IsFirst, BeginPaint, screenVars, privateVars, globalVars,
         Where, Windows, WindowThread, Blts, Draws, MainIsAt, ScreenTypeOK, Actor
<1>24. ASSUME NEW g \in Gop, PaintEnd(g)
      PROVE  Where'
  BY <1>24 DEF PaintEnd, screenVars, privateVars, globalVars, Where, Windows,
         WindowThread, Blts, Draws, MainIsAt, ScreenTypeOK, Actor
<1>25. ASSUME NEW g \in Gop, Moved(g)
      PROVE  Where'
  BY <1>25 DEF Moved, IsFirst, screenVars, privateVars, globalVars, Where,
         Windows, WindowThread, Blts, Draws, MainIsAt, ScreenTypeOK, Actor
<1>26. ASSUME NEW g \in Gop, Destroy(g)
      PROVE  Where'
  <2>1. Ending(g)
    <3>1. Awaits(g, "destroy")
      <4>1. sent[g] # <<>> /\ Head(sent[g]) = "destroy"
        BY <1>26 DEF Destroy, IsFirst
      <4>2. sent[g] \in Seq(Waiting)
        BY DEF ScreenTypeOK, Waiting
      <4>3. 1 \in DOMAIN sent[g] /\ sent[g][1] = "destroy"
        BY <4>1, <4>2
      <4> QED BY <4>3 DEF Awaits
    <3> QED BY <3>1 DEF Requests, Asked, Awaits, Doomed
  <2> QED BY <1>26, <2>1 DEF Destroy, privateVars, globalVars, Where, Windows,
                 WindowThread, MainIsAt, Ending, Off, ScreenTypeOK, Actor
<1>27. ASSUME NEW g \in Gop, Close(g)
      PROVE  Where'
  BY <1>27 DEF Close, screenVars, privateVars, globalVars, Where, Windows,
         WindowThread, Blts, Draws, MainIsAt, ScreenTypeOK, Actor
<1>28. ASSUME NEW g \in Gop, Uncover(g)
      PROVE  Where'
  BY <1>28 DEF Uncover, screenVars, privateVars, globalVars, Where, Windows,
         WindowThread, Blts, Draws, MainIsAt, ScreenTypeOK, Actor
<1>29. ASSUME UNCHANGED screenState PROVE Where'
  BY <1>29 DEF screenState, displayVars, screenVars, privateVars, globalVars,
         Where, Windows, WindowThread, Blts, Draws, MainIsAt, ScreenTypeOK, Actor
<1> QED
  BY <1>1, <1>2, <1>3, <1>4, <1>5, <1>6, <1>7, <1>8, <1>9, <1>10, <1>11,
     <1>12, <1>13, <1>14, <1>15, <1>16, <1>17, <1>18, <1>19, <1>20, <1>21,
     <1>22, <1>23, <1>24, <1>25, <1>26, <1>27, <1>28, <1>29
     DEF ScreenNext, MainGoesOn, WindowGoesOn, Advance, Actor

(* Every step keeps what is said of the window threads.                    *)
LEMMA WindowsAreKept ==
    Control /\ [ScreenNext]_screenState => Windows'
<1> SUFFICES ASSUME ScreenTypeOK, Where, Windows, Requests, Blts,
                    [ScreenNext]_screenState
             PROVE  Windows'
  BY DEF Control
<1>1. ASSUME NEW g \in Gop, Start(g)
      PROVE  Windows'
  BY <1>1 DEF Start, At, Runs, displayVars, screenVars, Where, Windows, WindowThread,
         MainIsAt, Ending, Off, ScreenTypeOK, Actor, Blts, Draws, Asked
<1>2. ASSUME NEW g \in Gop, NEW m \in Modes, SetMode(g, m)
      PROVE  Windows'
  BY <1>2 DEF SetMode, At, Request, Runs, displayVars, screenVars, globalVars,
         Where, Windows, WindowThread, MainIsAt, Ending, Off, ScreenTypeOK, Actor,
         Blts, Draws, Asked
<1>3. ASSUME StartWindow PROVE Windows'
  BY <1>3 DEF StartWindow, At, Goto, Runs, screenVars, privateVars, Where,
         Windows, WindowThread, MainIsAt, Ending, Off, ScreenTypeOK, Actor, Blts,
         Draws, Asked
<1>4. ASSUME WindowStarted PROVE Windows'
  BY <1>4 DEF WindowStarted, At, Goto, Runs, screenVars, globalVars, Where,
         Windows, WindowThread, MainIsAt, Ending, Off, ScreenTypeOK, Actor, Blts,
         Draws, Asked
<1>5. ASSUME FreeScreen PROVE Windows'
  BY <1>5 DEF FreeScreen, At, Goto, Runs, displayVars, privateVars, globalVars,
         Where, Windows, WindowThread, MainIsAt, Ending, Off, ScreenTypeOK, Actor,
         Blts, Draws, Asked
<1>6. ASSUME AllocScreen PROVE Windows'
  BY <1>6 DEF AllocScreen, At, Goto, Runs, displayVars, privateVars, globalVars,
         Size, Where, Windows, WindowThread, MainIsAt, Ending, Off, ScreenTypeOK,
         Actor, Blts, Draws, Asked
<1>7. ASSUME PointScreen PROVE Windows'
  BY <1>7 DEF PointScreen, At, Goto, Runs, displayVars, privateVars, globalVars,
         Where, Windows, WindowThread, MainIsAt, Ending, Off, ScreenTypeOK, Actor,
         Blts, Draws, Asked
<1>8. ASSUME MoveWindow PROVE Windows'
  BY <1>8 DEF MoveWindow, At, Goto, Runs, displayVars, screenVars, privateVars,
         globalVars, Where, Windows, WindowThread, MainIsAt, Ending, Off,
         ScreenTypeOK, Actor, Blts, Draws, Asked
<1>9. ASSUME MoveReturns PROVE Windows'
  BY <1>9 DEF MoveReturns, At, Goto, Runs, Awaits, displayVars, screenVars,
         privateVars, globalVars, Where, Windows, WindowThread, MainIsAt, Ending, Off,
         ScreenTypeOK, Actor, Blts, Draws, Asked
<1>10. ASSUME FillLine PROVE Windows'
  BY <1>10 DEF FillLine, At, Goto, Runs, displayVars, screenVars, globalVars,
         Size, Where, Windows, WindowThread, MainIsAt, Ending, Off, ScreenTypeOK,
         Actor, Blts, Draws, Asked
<1>11. ASSUME FillLineFails PROVE Windows'
  BY <1>11 DEF FillLineFails, At, Goto, Runs, displayVars, screenVars,
         privateVars, globalVars, Where, Windows, WindowThread, MainIsAt, Ending, Off,
         ScreenTypeOK, Actor, Blts, Draws, Asked
<1>12. ASSUME NEW t \in Actor, NEW g \in Gop, NEW o \in {"fill", "write", "read"},
              Blt(t, g, o)
      PROVE  Windows'
  BY <1>12 DEF Blt, At, Request, Runs, displayVars, screenVars, privateVars,
         globalVars, Fits, LastPixel, Where, Windows, WindowThread, MainIsAt, Ending,
         Off, ScreenTypeOK, Actor, Blts, Draws, Asked
<1>13. ASSUME NEW t \in Actor, Copy(t)
      PROVE  Windows'
  BY <1>13 DEF Copy, At, Goto, Runs, screenVars, privateVars, globalVars, Where,
         Windows, WindowThread, MainIsAt, Ending, Off, ScreenTypeOK, Actor, Blts,
         Draws, Asked
<1>14. ASSUME NEW t \in Actor, UpdateReturns(t)
      PROVE  Windows'
  BY <1>14 DEF UpdateReturns, At, Goto, Runs, Awaits, displayVars, screenVars,
         privateVars, globalVars, Where, Windows, WindowThread, MainIsAt, Ending, Off,
         ScreenTypeOK, Actor, Blts, Draws, Asked
<1>15. ASSUME NEW g \in Gop, Stop(g)
      PROVE  Windows'
  BY <1>15 DEF Stop, At, Request, Runs, SendDestroy, displayVars, screenVars,
         globalVars, Where, Windows, WindowThread, MainIsAt, Ending, Off,
         ScreenTypeOK, Actor, Blts, Draws, Asked
<1>16. ASSUME StopReturns PROVE Windows'
  <2>1. thread[cur["main"]] = "exited"
    BY <1>16 DEF StopReturns, At, Where, Requests, Asked, Ending, MainIsAt,
           Doomed, Awaits
  <2> QED BY <1>16, <2>1 DEF Windows, WindowThread, Where, MainIsAt, Ending, Off,
                 ScreenTypeOK, Actor, StopReturns, At, Goto, Runs, displayVars,
                 screenVars
<1>17. ASSUME ExitBootServices PROVE Windows'
  BY <1>17 DEF ExitBootServices, At, Goto, Runs, displayVars, screenVars,
         privateVars, globalVars, Where, Windows, WindowThread, MainIsAt, Ending, Off,
         ScreenTypeOK, Actor, Blts, Draws, Asked
<1>18. ASSUME NEW g \in Gop, Kill(g)
      PROVE  Windows'
  BY <1>18 DEF Kill, At, Runs, SendDestroy, displayVars, screenVars,
         privateVars, Where, Windows, WindowThread, MainIsAt, Ending, Off,
         ScreenTypeOK, Actor, Blts, Draws, Asked
<1>19. ASSUME KillReturns PROVE Windows'
  BY <1>19 DEF KillReturns, At, Goto, Runs, Awaits, ReleaseTls, displayVars,
         screenVars, privateVars, Where, Windows, WindowThread, MainIsAt, Ending, Off,
         ScreenTypeOK, Actor, Blts, Draws, Asked
<1>20. ASSUME NEW g \in Gop, Create(g)
      PROVE  Windows'
  BY <1>20 DEF Create, privateVars, globalVars, Size, Where, Windows, WindowThread,
         MainIsAt, Ending, Off, ScreenTypeOK, Actor, Blts, Draws, Asked
<1>21. ASSUME NEW g \in Gop, Show(g)
      PROVE  Windows'
  BY <1>21 DEF Show, BeginPaint, screenVars, privateVars, globalVars, Where,
         Windows, WindowThread, MainIsAt, Ending, Off, ScreenTypeOK, Actor, Blts,
         Draws, Asked
<1>22. ASSUME NEW g \in Gop, ReleaseInited(g)
      PROVE  Windows'
  BY <1>22 DEF ReleaseInited, screenVars, privateVars, globalVars, Where,
         Windows, WindowThread, MainIsAt, Ending, Off, ScreenTypeOK, Actor, Blts,
         Draws, Asked
<1>23. ASSUME NEW g \in Gop, Paint(g)
      PROVE  Windows'
  BY <1>23 DEF Paint, IsFirst, BeginPaint, screenVars, privateVars, globalVars,
         Where, Windows, WindowThread, MainIsAt, Ending, Off, ScreenTypeOK, Actor,
         Blts, Draws, Asked
<1>24. ASSUME NEW g \in Gop, PaintEnd(g)
      PROVE  Windows'
  BY <1>24 DEF PaintEnd, screenVars, privateVars, globalVars, Where, Windows,
         WindowThread, MainIsAt, Ending, Off, ScreenTypeOK, Actor, Blts, Draws, Asked
<1>25. ASSUME NEW g \in Gop, Moved(g)
      PROVE  Windows'
  BY <1>25 DEF Moved, IsFirst, screenVars, privateVars, globalVars, Where,
         Windows, WindowThread, MainIsAt, Ending, Off, ScreenTypeOK, Actor, Blts,
         Draws, Asked
<1>26. ASSUME NEW g \in Gop, Destroy(g)
      PROVE  Windows'
  <2>1. Ending(g)
    <3>1. Awaits(g, "destroy")
      <4>1. sent[g] # <<>> /\ Head(sent[g]) = "destroy"
        BY <1>26 DEF Destroy, IsFirst
      <4>2. sent[g] \in Seq(Waiting)
        BY DEF ScreenTypeOK, Waiting
      <4>3. 1 \in DOMAIN sent[g] /\ sent[g][1] = "destroy"
        BY <4>1, <4>2
      <4> QED BY <4>3 DEF Awaits
    <3> QED BY <3>1 DEF Requests, Asked, Awaits, Doomed
  <2> QED BY <1>26, <2>1 DEF Destroy, privateVars, globalVars, Where, Windows,
                 WindowThread, MainIsAt, Ending, Off, ScreenTypeOK, Actor
<1>27. ASSUME NEW g \in Gop, Close(g)
      PROVE  Windows'
  BY <1>27 DEF Close, screenVars, privateVars, globalVars, Where, Windows,
         WindowThread, MainIsAt, Ending, Off, ScreenTypeOK, Actor, Blts, Draws, Asked
<1>28. ASSUME NEW g \in Gop, Uncover(g)
      PROVE  Windows'
  BY <1>28 DEF Uncover, screenVars, privateVars, globalVars, Where, Windows,
         WindowThread, MainIsAt, Ending, Off, ScreenTypeOK, Actor, Blts, Draws, Asked
<1>29. ASSUME UNCHANGED screenState PROVE Windows'
  BY <1>29 DEF screenState, displayVars, screenVars, privateVars, globalVars,
         Where, Windows, WindowThread, MainIsAt, Ending, Off, ScreenTypeOK, Actor,
         Blts, Draws, Asked
<1> QED
  BY <1>1, <1>2, <1>3, <1>4, <1>5, <1>6, <1>7, <1>8, <1>9, <1>10, <1>11,
     <1>12, <1>13, <1>14, <1>15, <1>16, <1>17, <1>18, <1>19, <1>20, <1>21,
     <1>22, <1>23, <1>24, <1>25, <1>26, <1>27, <1>28, <1>29
     DEF ScreenNext, MainGoesOn, WindowGoesOn, Advance, Actor

(* Every step keeps what is said of the queues.                            *)
LEMMA AskedIsKept ==
    Control /\ [ScreenNext]_screenState => Requests'
<1> SUFFICES ASSUME ScreenTypeOK, Where, Windows, Requests, Blts,
                    [ScreenNext]_screenState
             PROVE  Requests'
  BY DEF Control
<1>1. ASSUME NEW g \in Gop, Start(g)
      PROVE  Requests'
  BY <1>1, DoomedStays DEF Start, At, Runs, displayVars, screenVars, Requests,
         Where, Asked, Ending, MainIsAt, ScreenTypeOK, Actor
<1>2. ASSUME NEW g \in Gop, NEW m \in Modes, SetMode(g, m)
      PROVE  Requests'
  BY <1>2, DoomedStays DEF SetMode, At, Request, Runs, displayVars, screenVars,
         globalVars, Requests, Where, Asked, Ending, MainIsAt, ScreenTypeOK,
         Actor
<1>3. ASSUME StartWindow PROVE Requests'
  BY <1>3, DoomedStays DEF StartWindow, At, Goto, Runs, screenVars, privateVars,
         Requests, Where, Asked, Ending, MainIsAt, ScreenTypeOK, Actor
<1>4. ASSUME WindowStarted PROVE Requests'
  BY <1>4, DoomedStays DEF WindowStarted, At, Goto, Runs, screenVars,
         globalVars, Requests, Where, Asked, Ending, MainIsAt, ScreenTypeOK,
         Actor
<1>5. ASSUME FreeScreen PROVE Requests'
  BY <1>5, DoomedStays DEF FreeScreen, At, Goto, Runs, displayVars, privateVars,
         globalVars, Requests, Where, Asked, Ending, MainIsAt, ScreenTypeOK,
         Actor
<1>6. ASSUME AllocScreen PROVE Requests'
  BY <1>6, DoomedStays DEF AllocScreen, At, Goto, Runs, displayVars,
         privateVars, globalVars, Size, Requests, Where, Asked, Ending,
         MainIsAt, ScreenTypeOK, Actor
<1>7. ASSUME PointScreen PROVE Requests'
  BY <1>7, DoomedStays DEF PointScreen, At, Goto, Runs, displayVars,
         privateVars, globalVars, Requests, Where, Asked, Ending, MainIsAt,
         ScreenTypeOK, Actor
<1>8. ASSUME MoveWindow PROVE Requests'
  <2> SUFFICES ASSUME NEW h \in Gop PROVE Asked(h)'
    BY DEF Requests
  <2>1. sent[h] \in Seq(Waiting)
    BY DEF ScreenTypeOK, Waiting
  <2>2. \/ sent'[h] = sent[h]
        \/ h = cur["main"] /\ sent'[h] = Append(sent[h], "move")
    <3>1. DOMAIN sent = Gop
      BY DEF ScreenTypeOK
    <3>2. cur["main"] \in Gop
      BY <1>8 DEF Where, Blts, Draws, At, MoveWindow
    <3>3. sent' = sent \/ sent' = [sent EXCEPT ![cur["main"]] = Append(@, "move")]
      BY <1>8, <3>2 DEF ScreenTypeOK, MoveWindow
    <3> QED BY <3>1, <3>2, <3>3
  <2>3. /\ h \in Doomed' <=> h \in Doomed
        /\ sent[h] # <<>> /\ Head(sent[h]) = "paint" =>
              sent'[h] # <<>> /\ Head(sent'[h]) = "paint"
    <3>1. CASE sent'[h] = sent[h]
      BY <3>1, DoomedHas
    <3>2. CASE sent'[h] = Append(sent[h], "move")
      <4>1. Has(sent'[h], "destroy") <=> Has(sent[h], "destroy")
        BY <2>1, <3>2, AppendHas DEF Waiting
      <4>2. sent'[h] # <<>> /\ (sent[h] # <<>> => Head(sent'[h]) = Head(sent[h]))
        BY <2>1, <3>2, AppendHas DEF Waiting
      <4> QED BY <4>1, <4>2, DoomedHas
    <3> QED BY <2>2, <3>1, <3>2
  <2> QED BY <1>8, <2>3 DEF Requests, Asked, MainIsAt, Ending, Actor,
                 ScreenTypeOK, MoveWindow, At, Goto, Runs, displayVars,
                 screenVars, privateVars, globalVars
<1>9. ASSUME MoveReturns PROVE Requests'
  BY <1>9, DoomedStays DEF MoveReturns, At, Goto, Runs, Awaits, displayVars,
         screenVars, privateVars, globalVars, Requests, Where, Asked, Ending,
         MainIsAt, ScreenTypeOK, Actor
<1>10. ASSUME FillLine PROVE Requests'
  BY <1>10, DoomedStays DEF FillLine, At, Goto, Runs, displayVars, screenVars,
         globalVars, Size, Requests, Where, Asked, Ending, MainIsAt,
         ScreenTypeOK, Actor
<1>11. ASSUME FillLineFails PROVE Requests'
  BY <1>11, DoomedStays DEF FillLineFails, At, Goto, Runs, displayVars,
         screenVars, privateVars, globalVars, Requests, Where, Asked, Ending,
         MainIsAt, ScreenTypeOK, Actor
<1>12. ASSUME NEW t \in Actor, NEW g \in Gop, NEW o \in {"fill", "write", "read"},
              Blt(t, g, o)
      PROVE  Requests'
  <2>1. sent' = sent /\ thread' = thread /\ paint' = paint
    BY <1>12 DEF Blt, displayVars
  <2>2. \A h \in Gop : Ending(h)' <=> Ending(h)
    BY <1>12 DEF Blt, Request, At, Runs, Ending, MainIsAt, ScreenTypeOK, Actor
  <2> QED BY <2>1, <2>2, DoomedStays DEF Requests, Asked, Ending, MainIsAt
<1>13. ASSUME NEW t \in Actor, Copy(t)
      PROVE  Requests'
  <2> SUFFICES ASSUME NEW h \in Gop PROVE Asked(h)'
    BY DEF Requests
  <2>1. sent[h] \in Seq(Waiting)
    BY DEF ScreenTypeOK, Waiting
  <2>2. sent'[h] = sent[h] \/ (h = cur[t] /\ sent'[h] = Append(sent[h], "paint"))
    <3>1. DOMAIN sent = Gop
      BY DEF ScreenTypeOK
    <3>2. cur[t] \in Gop
      BY <1>13 DEF Where, Blts, Draws, At, Copy
    <3>3. sent' = sent \/ sent' = [sent EXCEPT ![cur[t]] = Append(@, "paint")]
      BY <1>13, <3>2 DEF ScreenTypeOK, Copy
    <3> QED BY <3>1, <3>2, <3>3
  <2>3. /\ h \in Doomed' <=> h \in Doomed
        /\ sent[h] # <<>> /\ Head(sent[h]) = "paint" =>
              sent'[h] # <<>> /\ Head(sent'[h]) = "paint"
    <3>1. CASE sent'[h] = sent[h]
      BY <3>1, DoomedHas
    <3>2. CASE sent'[h] = Append(sent[h], "paint")
      <4>1. Has(sent'[h], "destroy") <=> Has(sent[h], "destroy")
        BY <2>1, <3>2, AppendHas DEF Waiting
      <4>2. sent'[h] # <<>> /\ (sent[h] # <<>> => Head(sent'[h]) = Head(sent[h]))
        BY <2>1, <3>2, AppendHas DEF Waiting
      <4> QED BY <4>1, <4>2, DoomedHas
    <3> QED BY <2>2, <3>1, <3>2
  <2> QED BY <1>13, <2>3 DEF Requests, Asked, MainIsAt, Ending, Actor,
                 ScreenTypeOK, Copy, At, Goto, Runs, screenVars, privateVars,
                 globalVars
<1>14. ASSUME NEW t \in Actor, UpdateReturns(t)
      PROVE  Requests'
  BY <1>14, DoomedStays DEF UpdateReturns, At, Goto, Runs, Awaits, displayVars,
         screenVars, privateVars, globalVars, Requests, Where, Asked, Ending,
         MainIsAt, ScreenTypeOK, Actor
<1>15. ASSUME NEW g \in Gop, Stop(g)
      PROVE  Requests'
  <2> SUFFICES ASSUME NEW h \in Gop PROVE Asked(h)'
    BY DEF Requests
  <2>1. sent[h] \in Seq(Waiting)
    BY DEF ScreenTypeOK, Waiting
  <2>2. CASE h # g
    <3>1. sent'[h] = sent[h] /\ ~Ending(h) /\ ~Ending(h)'
      BY <1>15, <2>2 DEF ScreenTypeOK, Actor, Where, Ending, MainIsAt, Stop,
             SendDestroy, Request, At, Runs
    <3>0. h \in Doomed' <=> h \in Doomed
      BY <3>1, DoomedHas
    <3> QED BY <1>15, <2>2, <3>1, <3>0 DEF Requests, Asked, Ending, MainIsAt,
                   Stop, At, Request, Runs, SendDestroy, displayVars,
                   screenVars, globalVars
  <2>3. CASE h = g
    <3>1. CASE sent'[h] = Append(sent[h], "destroy") /\ thread[h] # "exited" /\ Ending(h)'
      <4>1. /\ h \in Doomed'
            /\ sent[h] # <<>> /\ Head(sent[h]) = "paint" =>
                  sent'[h] # <<>> /\ Head(sent'[h]) = "paint"
        <5>1. Has(sent'[h], "destroy")
          BY <2>1, <3>1, AppendHas DEF Waiting
        <5>2. sent'[h] # <<>> /\ (sent[h] # <<>> => Head(sent'[h]) = Head(sent[h]))
          BY <2>1, <3>1, AppendHas DEF Waiting
        <5> QED BY <5>1, <5>2, DoomedHas
      <4> QED BY <1>15, <2>3, <3>1, <4>1 DEF Requests, Asked, Windows, WindowThread,
                     Where, Ending, MainIsAt, ScreenTypeOK, Stop, At, Request,
                     Runs, SendDestroy, displayVars, screenVars, globalVars
    <3>2. CASE sent'[h] = sent[h] /\ (Ending(h)' => thread[h] = "exited")
      <4>1. h \in Doomed' <=> h \in Doomed
        BY <3>2, DoomedHas
      <4> QED BY <1>15, <2>3, <3>2, <4>1 DEF Requests, Asked, ScreenTypeOK,
                     Where, MainIsAt, Ending, Stop, At, Request, Runs,
                     SendDestroy, displayVars, screenVars, globalVars
    <3>3. \/ sent'[h] = Append(sent[h], "destroy") /\ thread[h] # "exited" /\ Ending(h)'
          \/ sent'[h] = sent[h] /\ (Ending(h)' => thread[h] = "exited")
      BY <1>15, <2>3 DEF ScreenTypeOK, Actor, Where, Ending, MainIsAt, Stop,
             SendDestroy, Request, At, Runs
    <3> QED BY <3>1, <3>2, <3>3
  <2> QED BY <2>2, <2>3
<1>16. ASSUME StopReturns PROVE Requests'
  <2> SUFFICES ASSUME NEW h \in Gop PROVE Asked(h)'
    BY DEF Requests
  <2>1. sent[h] \in Seq(Waiting)
    BY DEF ScreenTypeOK, Waiting
  <2>2. cur["main"] \notin Doomed /\ pc["main"] \in {"stop", "kill"}
    BY <1>16 DEF StopReturns, Awaits, Doomed, At
  <2>3. ~Ending(h)' /\ sent' = sent
    BY <1>16 DEF Ending, MainIsAt, StopReturns, Goto, At, ScreenTypeOK, Actor
  <2> QED BY <1>16, <2>2, <2>3, DoomedStays
             DEF Requests, Asked, MainIsAt, Ending, ScreenTypeOK,
                 StopReturns, At, Goto, Runs, displayVars, screenVars
<1>17. ASSUME ExitBootServices PROVE Requests'
  BY <1>17, DoomedStays DEF ExitBootServices, At, Goto, Runs, displayVars,
         screenVars, privateVars, globalVars, Requests, Where, Asked, Ending,
         MainIsAt, ScreenTypeOK, Actor
<1>18. ASSUME NEW g \in Gop, Kill(g)
      PROVE  Requests'
  <2> SUFFICES ASSUME NEW h \in Gop PROVE Asked(h)'
    BY DEF Requests
  <2>1. sent[h] \in Seq(Waiting)
    BY DEF ScreenTypeOK, Waiting
  <2>2. CASE h # g
    <3>1. sent'[h] = sent[h] /\ ~Ending(h) /\ ~Ending(h)'
      BY <1>18, <2>2 DEF ScreenTypeOK, Actor, Where, Ending, MainIsAt, Kill,
             SendDestroy, At, Runs
    <3>0. h \in Doomed' <=> h \in Doomed
      BY <3>1, DoomedHas
    <3> QED BY <1>18, <2>2, <3>1, <3>0 DEF Requests, Asked, Ending, MainIsAt,
                   Kill, At, Runs, SendDestroy, displayVars, screenVars,
                   privateVars
  <2>3. CASE h = g
    <3>1. CASE sent'[h] = Append(sent[h], "destroy") /\ thread[h] # "exited" /\ Ending(h)'
      <4>1. /\ h \in Doomed'
            /\ sent[h] # <<>> /\ Head(sent[h]) = "paint" =>
                  sent'[h] # <<>> /\ Head(sent'[h]) = "paint"
        <5>1. Has(sent'[h], "destroy")
          BY <2>1, <3>1, AppendHas DEF Waiting
        <5>2. sent'[h] # <<>> /\ (sent[h] # <<>> => Head(sent'[h]) = Head(sent[h]))
          BY <2>1, <3>1, AppendHas DEF Waiting
        <5> QED BY <5>1, <5>2, DoomedHas
      <4> QED BY <1>18, <2>3, <3>1, <4>1 DEF Requests, Asked, Windows, WindowThread,
                     Where, Ending, MainIsAt, ScreenTypeOK, Kill, At, Runs,
                     SendDestroy, displayVars, screenVars, privateVars
    <3>2. CASE sent'[h] = sent[h] /\ (Ending(h)' => thread[h] = "exited")
      <4>1. h \in Doomed' <=> h \in Doomed
        BY <3>2, DoomedHas
      <4> QED BY <1>18, <2>3, <3>2, <4>1 DEF Requests, Asked, ScreenTypeOK,
                     Where, MainIsAt, Ending, Kill, At, Runs, SendDestroy,
                     displayVars, screenVars, privateVars
    <3>3. \/ sent'[h] = Append(sent[h], "destroy") /\ thread[h] # "exited" /\ Ending(h)'
          \/ sent'[h] = sent[h] /\ (Ending(h)' => thread[h] = "exited")
      BY <1>18, <2>3 DEF ScreenTypeOK, Actor, Where, Ending, MainIsAt, Kill,
             SendDestroy, At, Runs
    <3> QED BY <3>1, <3>2, <3>3
  <2> QED BY <2>2, <2>3
<1>19. ASSUME KillReturns PROVE Requests'
  <2> SUFFICES ASSUME NEW h \in Gop PROVE Asked(h)'
    BY DEF Requests
  <2>1. sent[h] \in Seq(Waiting)
    BY DEF ScreenTypeOK, Waiting
  <2>2. cur["main"] \notin Doomed /\ pc["main"] \in {"stop", "kill"}
    BY <1>19 DEF KillReturns, Awaits, Doomed, At
  <2>3. ~Ending(h)' /\ sent' = sent
    BY <1>19 DEF Ending, MainIsAt, KillReturns, Goto, At, ScreenTypeOK, Actor
  <2> QED BY <1>19, <2>2, <2>3, DoomedStays
             DEF Requests, Asked, MainIsAt, Ending, ScreenTypeOK,
                 KillReturns, At, Goto, Runs, displayVars, screenVars,
                 privateVars
<1>20. ASSUME NEW g \in Gop, Create(g)
      PROVE  Requests'
  BY <1>20, DoomedStays DEF Create, privateVars, globalVars, Size, Requests,
         Where, Asked, Ending, MainIsAt, ScreenTypeOK, Actor
<1>21. ASSUME NEW g \in Gop, Show(g)
      PROVE  Requests'
  BY <1>21, DoomedStays DEF Show, BeginPaint, screenVars, privateVars,
         globalVars, Requests, Where, Asked, Ending, MainIsAt, ScreenTypeOK,
         Actor
<1>22. ASSUME NEW g \in Gop, ReleaseInited(g)
      PROVE  Requests'
  BY <1>22, DoomedStays DEF ReleaseInited, screenVars, privateVars, globalVars,
         Requests, Where, Asked, Ending, MainIsAt, ScreenTypeOK, Actor
<1>23. ASSUME NEW g \in Gop, Paint(g)
      PROVE  Requests'
  <2> SUFFICES ASSUME NEW h \in Gop PROVE Asked(h)'
    BY DEF Requests
  <2>1. sent[h] \in Seq(Waiting)
    BY DEF ScreenTypeOK, Waiting
  <2>2. \/ paint'[h].forCall = paint[h].forCall /\ thread'[h] = thread[h]
        \/ paint'[h].forCall => sent[h] # <<>> /\ Head(sent[h]) = "paint"
    BY <1>23 DEF Paint, IsFirst, BeginPaint, ScreenTypeOK
  <2> QED BY <1>23, <2>2, DoomedStays DEF Requests, Asked, MainIsAt, Ending,
                 ScreenTypeOK, Paint, BeginPaint, screenVars, privateVars,
                 globalVars
<1>24. ASSUME NEW g \in Gop, PaintEnd(g)
      PROVE  Requests'
  <2> SUFFICES ASSUME NEW h \in Gop PROVE Asked(h)'
    BY DEF Requests
  <2>1. sent[h] \in Seq(Waiting)
    BY DEF ScreenTypeOK, Waiting
  <2>2. CASE sent'[h] = sent[h]
    <3>1. h \in Doomed' <=> h \in Doomed
      BY <2>2, DoomedHas
    <3> QED BY <1>24, <2>2, <3>1 DEF Requests, Asked, MainIsAt, Ending,
                   ScreenTypeOK, PaintEnd, screenVars, privateVars, globalVars
  <2>3. CASE sent[h] # <<>> /\ h = g /\ sent'[h] = Tail(sent[h]) /\ Head(sent[h]) # "destroy"
    <3>1. h \in Doomed' <=> h \in Doomed
      BY <2>1, <2>3, TailHas, DoomedHas
    <3> QED BY <1>24, <2>3, <3>1 DEF Requests, Asked, MainIsAt, Ending,
                   ScreenTypeOK, PaintEnd, screenVars, privateVars, globalVars
  <2>4. \/ sent'[h] = sent[h]
        \/ sent[h] # <<>> /\ h = g /\ sent'[h] = Tail(sent[h]) /\ Head(sent[h]) # "destroy"
    BY <1>24 DEF ScreenTypeOK, PaintEnd, IsFirst, Requests, Asked
  <2> QED BY <2>2, <2>3, <2>4
<1>25. ASSUME NEW g \in Gop, Moved(g)
      PROVE  Requests'
  <2> SUFFICES ASSUME NEW h \in Gop PROVE Asked(h)'
    BY DEF Requests
  <2>1. sent[h] \in Seq(Waiting)
    BY DEF ScreenTypeOK, Waiting
  <2>2. CASE sent'[h] = sent[h]
    <3>1. h \in Doomed' <=> h \in Doomed
      BY <2>2, DoomedHas
    <3> QED BY <1>25, <2>2, <3>1 DEF Requests, Asked, MainIsAt, Ending,
                   ScreenTypeOK, Moved, screenVars, privateVars, globalVars
  <2>3. CASE sent[h] # <<>> /\ h = g /\ sent'[h] = Tail(sent[h]) /\ Head(sent[h]) # "destroy"
    <3>1. h \in Doomed' <=> h \in Doomed
      BY <2>1, <2>3, TailHas, DoomedHas
    <3> QED BY <1>25, <2>3, <3>1 DEF Requests, Asked, MainIsAt, Ending,
                   ScreenTypeOK, Moved, screenVars, privateVars, globalVars
  <2>4. \/ sent'[h] = sent[h]
        \/ sent[h] # <<>> /\ h = g /\ sent'[h] = Tail(sent[h]) /\ Head(sent[h]) # "destroy"
    BY <1>25 DEF ScreenTypeOK, Moved, IsFirst, Requests, Asked
  <2> QED BY <2>2, <2>3, <2>4
<1>26. ASSUME NEW g \in Gop, Destroy(g)
      PROVE  Requests'
  <2> SUFFICES ASSUME NEW h \in Gop PROVE Asked(h)'
    BY DEF Requests
  <2>1. sent[h] \in Seq(Waiting)
    BY DEF ScreenTypeOK, Waiting
  <2>2. sent'[h] = IF h = g THEN <<>> ELSE sent[h]
    BY <1>26 DEF Destroy, ScreenTypeOK
  <2> QED BY <1>26, <2>2, EmptyHas, DoomedHas
             DEF Requests, Asked, MainIsAt, Ending, ScreenTypeOK, Destroy,
                 privateVars, globalVars
<1>27. ASSUME NEW g \in Gop, Close(g)
      PROVE  Requests'
  BY <1>27, DoomedStays DEF Close, screenVars, privateVars, globalVars,
         Requests, Where, Asked, Ending, MainIsAt, ScreenTypeOK, Actor
<1>28. ASSUME NEW g \in Gop, Uncover(g)
      PROVE  Requests'
  BY <1>28, DoomedStays DEF Uncover, screenVars, privateVars, globalVars,
         Requests, Where, Asked, Ending, MainIsAt, ScreenTypeOK, Actor
<1>29. ASSUME UNCHANGED screenState PROVE Requests'
  BY <1>29, DoomedStays DEF screenState, displayVars, screenVars, privateVars,
         globalVars, Requests, Where, Asked, Ending, MainIsAt, ScreenTypeOK,
         Actor
<1> QED
  BY <1>1, <1>2, <1>3, <1>4, <1>5, <1>6, <1>7, <1>8, <1>9, <1>10, <1>11,
     <1>12, <1>13, <1>14, <1>15, <1>16, <1>17, <1>18, <1>19, <1>20, <1>21,
     <1>22, <1>23, <1>24, <1>25, <1>26, <1>27, <1>28, <1>29
     DEF ScreenNext, MainGoesOn, WindowGoesOn, Advance, Actor

(* Every step keeps what was checked for a Blt: nothing changes the mode of*)
(* a controller between the check and the copy.                            *)
LEMMA BltsAreKept ==
    Control /\ [ScreenNext]_screenState => Blts'
<1> SUFFICES ASSUME ScreenTypeOK, Where, Windows, Requests, Blts,
                    [ScreenNext]_screenState
             PROVE  Blts'
  BY DEF Control
<1>1. ASSUME NEW g \in Gop, Start(g)
      PROVE  Blts'
  BY <1>1, HeapAssumption DEF Start, At, Runs, displayVars, screenVars, Blts,
         Draws, Where, Windows, WindowThread, MainIsAt, ScreenTypeOK, Actor
<1>2. ASSUME NEW g \in Gop, NEW m \in Modes, SetMode(g, m)
      PROVE  Blts'
  BY <1>2, HeapAssumption DEF SetMode, At, Request, Runs, displayVars,
         screenVars, globalVars, Blts, Draws, Where, Windows, WindowThread, MainIsAt,
         ScreenTypeOK, Actor
<1>3. ASSUME StartWindow PROVE Blts'
  BY <1>3, HeapAssumption DEF StartWindow, At, Goto, Runs, screenVars,
         privateVars, Blts, Draws, Where, Windows, WindowThread, MainIsAt,
         ScreenTypeOK, Actor
<1>4. ASSUME WindowStarted PROVE Blts'
  BY <1>4, HeapAssumption DEF WindowStarted, At, Goto, Runs, screenVars,
         globalVars, Blts, Draws, Where, Windows, WindowThread, MainIsAt,
         ScreenTypeOK, Actor
<1>5. ASSUME FreeScreen PROVE Blts'
  BY <1>5, HeapAssumption DEF FreeScreen, At, Goto, Runs, displayVars,
         privateVars, globalVars, Blts, Draws, Where, Windows, WindowThread, MainIsAt,
         ScreenTypeOK, Actor
<1>6. ASSUME AllocScreen PROVE Blts'
  BY <1>6, HeapAssumption DEF AllocScreen, At, Goto, Runs, displayVars,
         privateVars, globalVars, Size, Blts, Draws, Where, Windows, WindowThread,
         MainIsAt, ScreenTypeOK, Actor
<1>7. ASSUME PointScreen PROVE Blts'
  BY <1>7, HeapAssumption DEF PointScreen, At, Goto, Runs, displayVars,
         privateVars, globalVars, Blts, Draws, Where, Windows, WindowThread, MainIsAt,
         ScreenTypeOK, Actor
<1>8. ASSUME MoveWindow PROVE Blts'
  BY <1>8, HeapAssumption DEF MoveWindow, At, Goto, Runs, displayVars,
         screenVars, privateVars, globalVars, Blts, Draws, Where, Windows,
         WindowThread, MainIsAt, ScreenTypeOK, Actor
<1>9. ASSUME MoveReturns PROVE Blts'
  BY <1>9, HeapAssumption DEF MoveReturns, At, Goto, Runs, Awaits, displayVars,
         screenVars, privateVars, globalVars, Blts, Draws, Where, Windows,
         WindowThread, MainIsAt, ScreenTypeOK, Actor
<1>10. ASSUME FillLine PROVE Blts'
  <2> DEFINE g == cur["main"]
             m == mode[g]
  <2>1. g \in Gop /\ m \in Modes
    BY <1>10 DEF ScreenTypeOK, FillLine, At, Where
  <2>2. Size(m) - 1 \in 0 .. Size(m) - 1
    BY <2>1, SizeIsPositive
  <2>3. /\ blt'["main"].last = Size(m) - 1
        /\ blt'["event"] = blt["event"] /\ pc["event"] # "copy"
    BY <1>10 DEF FillLine, At, Runs, ScreenTypeOK, Actor
  <2>4. ~needs[g] /\ thread[g] \in {"loop", "paint"}
    BY <1>10, <2>1 DEF ScreenTypeOK, FillLine, At, Where, Windows, WindowThread,
           MainIsAt, Ending, Off
  <2>5. /\ UNCHANGED <<mode, needs, thread, cur>>
        /\ pc' = [pc EXCEPT !["main"] = "copy"]
    BY <1>10 DEF FillLine, Goto, displayVars
  <2> QED BY <2>1, <2>2, <2>3, <2>4, <2>5 DEF Blts, Draws, Actor, ScreenTypeOK
<1>11. ASSUME FillLineFails PROVE Blts'
  BY <1>11, HeapAssumption DEF FillLineFails, At, Goto, Runs, displayVars,
         screenVars, privateVars, globalVars, Blts, Draws, Where, Windows,
         WindowThread, MainIsAt, ScreenTypeOK, Actor
<1>12. ASSUME NEW t \in Actor, NEW g \in Gop, NEW o \in {"fill", "write", "read"},
              Blt(t, g, o)
      PROVE  Blts'
  <2>1. PICK w \in 1 .. 2, h \in 1 .. 2, x \in 0 .. 1, y \in 0 .. 1 :
           /\ Fits(mode[g], x, y, w, h)
           /\ blt' = [blt EXCEPT ![t] =
                        [op |-> o, width |-> w,
                         last |-> LastPixel(mode[g], x, y, w)]]
    BY <1>12 DEF Blt
  <2>2. LastPixel(mode[g], x, y, w) \in 0 .. Size(mode[g]) - 1 /\ mode[g] # Nil
    <3>1. /\ mode[g] \in Modes \cup {Nil} /\ x \in Nat /\ y \in Nat
          /\ w \in Nat \ {0} /\ h \in Nat \ {0}
      BY DEF ScreenTypeOK
    <3> QED BY <2>1, <3>1, LastInside DEF Fits
  <2>3. /\ pc["main"] \notin {"stop", "kill", "off"}
        /\ t = "main" => pc["main"] = "idle" /\ pc["event"] = "idle"
    BY <1>12 DEF Blt, Request, At, Runs, Actor
  <2>4. ~needs[g]
    BY <1>12, <2>2, <2>3 DEF Blt, Windows, WindowThread, MainIsAt, Actor
  <2>5. thread[g] \in {"loop", "paint"}
    BY <1>12, <2>3, <2>4 DEF Blt, Request, Where, Windows, WindowThread, MainIsAt,
           Ending, Off, ScreenTypeOK, Actor
  <2>6. /\ blt'[t].last = LastPixel(mode[g], x, y, w)
        /\ \A u \in Actor \ {t} : blt'[u] = blt[u]
    BY <2>1 DEF ScreenTypeOK
  <2>7. mode' = mode /\ needs' = needs /\ thread' = thread
    BY <1>12 DEF Blt, privateVars, displayVars
  <2>8. pc' = [pc EXCEPT ![t] = "copy"] /\ cur' = [cur EXCEPT ![t] = g]
    BY <1>12 DEF Blt, Request
  <2> QED BY <2>2, <2>3, <2>4, <2>5, <2>6, <2>7, <2>8
             DEF Blts, Draws, Actor, ScreenTypeOK
<1>13. ASSUME NEW t \in Actor, Copy(t)
      PROVE  Blts'
  BY <1>13, HeapAssumption DEF Copy, At, Goto, Runs, screenVars, privateVars,
         globalVars, Blts, Draws, Where, Windows, WindowThread, MainIsAt,
         ScreenTypeOK, Actor
<1>14. ASSUME NEW t \in Actor, UpdateReturns(t)
      PROVE  Blts'
  BY <1>14, HeapAssumption DEF UpdateReturns, At, Goto, Runs, Awaits,
         displayVars, screenVars, privateVars, globalVars, Blts, Draws, Where,
         Windows, WindowThread, MainIsAt, ScreenTypeOK, Actor
<1>15. ASSUME NEW g \in Gop, Stop(g)
      PROVE  Blts'
  BY <1>15, HeapAssumption DEF Stop, At, Request, Runs, SendDestroy,
         displayVars, screenVars, globalVars, Blts, Draws, Where, Windows,
         WindowThread, MainIsAt, ScreenTypeOK, Actor
<1>16. ASSUME StopReturns PROVE Blts'
  BY <1>16, HeapAssumption DEF StopReturns, At, Goto, Runs, Awaits, ReleaseTls,
         displayVars, screenVars, Blts, Draws, Where, Windows, WindowThread, MainIsAt,
         ScreenTypeOK, Actor
<1>17. ASSUME ExitBootServices PROVE Blts'
  BY <1>17, HeapAssumption DEF ExitBootServices, At, Goto, Runs, displayVars,
         screenVars, privateVars, globalVars, Blts, Draws, Where, Windows,
         WindowThread, MainIsAt, ScreenTypeOK, Actor
<1>18. ASSUME NEW g \in Gop, Kill(g)
      PROVE  Blts'
  BY <1>18, HeapAssumption DEF Kill, At, Runs, SendDestroy, displayVars,
         screenVars, privateVars, Blts, Draws, Where, Windows, WindowThread, MainIsAt,
         ScreenTypeOK, Actor
<1>19. ASSUME KillReturns PROVE Blts'
  BY <1>19, HeapAssumption DEF KillReturns, At, Goto, Runs, Awaits, ReleaseTls,
         displayVars, screenVars, privateVars, Blts, Draws, Where, Windows,
         WindowThread, MainIsAt, ScreenTypeOK, Actor
<1>20. ASSUME NEW g \in Gop, Create(g)
      PROVE  Blts'
  BY <1>20, HeapAssumption DEF Create, privateVars, globalVars, Size, Blts,
         Draws, Where, Windows, WindowThread, MainIsAt, ScreenTypeOK, Actor
<1>21. ASSUME NEW g \in Gop, Show(g)
      PROVE  Blts'
  BY <1>21, HeapAssumption DEF Show, BeginPaint, screenVars, privateVars,
         globalVars, Blts, Draws, Where, Windows, WindowThread, MainIsAt,
         ScreenTypeOK, Actor
<1>22. ASSUME NEW g \in Gop, ReleaseInited(g)
      PROVE  Blts'
  BY <1>22, HeapAssumption DEF ReleaseInited, screenVars, privateVars,
         globalVars, Blts, Draws, Where, Windows, WindowThread, MainIsAt,
         ScreenTypeOK, Actor
<1>23. ASSUME NEW g \in Gop, Paint(g)
      PROVE  Blts'
  BY <1>23, HeapAssumption DEF Paint, IsFirst, BeginPaint, screenVars,
         privateVars, globalVars, Blts, Draws, Where, Windows, WindowThread, MainIsAt,
         ScreenTypeOK, Actor
<1>24. ASSUME NEW g \in Gop, PaintEnd(g)
      PROVE  Blts'
  BY <1>24, HeapAssumption DEF PaintEnd, screenVars, privateVars, globalVars,
         Blts, Draws, Where, Windows, WindowThread, MainIsAt, ScreenTypeOK, Actor
<1>25. ASSUME NEW g \in Gop, Moved(g)
      PROVE  Blts'
  BY <1>25, HeapAssumption DEF Moved, IsFirst, screenVars, privateVars,
         globalVars, Blts, Draws, Where, Windows, WindowThread, MainIsAt,
         ScreenTypeOK, Actor
<1>26. ASSUME NEW g \in Gop, Destroy(g)
      PROVE  Blts'
  <2>1. Ending(g)
    <3>1. Awaits(g, "destroy")
      <4>1. sent[g] # <<>> /\ Head(sent[g]) = "destroy"
        BY <1>26 DEF Destroy, IsFirst
      <4>2. sent[g] \in Seq(Waiting)
        BY DEF ScreenTypeOK, Waiting
      <4>3. 1 \in DOMAIN sent[g] /\ sent[g][1] = "destroy"
        BY <4>1, <4>2
      <4> QED BY <4>3 DEF Awaits
    <3> QED BY <3>1 DEF Requests, Asked, Awaits, Doomed
  <2> QED BY <1>26, <2>1 DEF Destroy, privateVars, globalVars, Blts, Draws,
                 MainIsAt, Ending, ScreenTypeOK, Actor
<1>27. ASSUME NEW g \in Gop, Close(g)
      PROVE  Blts'
  BY <1>27, HeapAssumption DEF Close, screenVars, privateVars, globalVars, Blts,
         Draws, Where, Windows, WindowThread, MainIsAt, ScreenTypeOK, Actor
<1>28. ASSUME NEW g \in Gop, Uncover(g)
      PROVE  Blts'
  BY <1>28, HeapAssumption DEF Uncover, screenVars, privateVars, globalVars,
         Blts, Draws, Where, Windows, WindowThread, MainIsAt, ScreenTypeOK, Actor
<1>29. ASSUME UNCHANGED screenState PROVE Blts'
  BY <1>29, HeapAssumption DEF screenState, displayVars, screenVars,
         privateVars, globalVars, Blts, Draws, Where, Windows, WindowThread, MainIsAt,
         ScreenTypeOK, Actor
<1> QED
  BY <1>1, <1>2, <1>3, <1>4, <1>5, <1>6, <1>7, <1>8, <1>9, <1>10, <1>11,
     <1>12, <1>13, <1>14, <1>15, <1>16, <1>17, <1>18, <1>19, <1>20, <1>21,
     <1>22, <1>23, <1>24, <1>25, <1>26, <1>27, <1>28, <1>29
     DEF ScreenNext, MainGoesOn, WindowGoesOn, Advance, Actor

(* Every step keeps the frame buffers apart and true to their modes.       *)
LEMMA ScreensAreKept ==
    Control /\ Screens /\ [ScreenNext]_screenState => Screens'
<1> SUFFICES ASSUME ScreenTypeOK, Where, Windows, Requests, Blts, Screens,
                    [ScreenNext]_screenState
             PROVE  Screens'
  BY DEF Control
<1>1. ASSUME NEW g \in Gop, Start(g)
      PROVE  Screens'
  BY <1>1, HeapAssumption DEF Start, At, Runs, displayVars, screenVars, Screens,
         Screen, Own, HasScreen, Live, Where, Windows, WindowThread, MainIsAt,
         ScreenTypeOK, Actor
<1>2. ASSUME NEW g \in Gop, NEW m \in Modes, SetMode(g, m)
      PROVE  Screens'
  BY <1>2, HeapAssumption DEF SetMode, At, Request, Runs, displayVars,
         screenVars, globalVars, Screens, Screen, Own, HasScreen, Live, Where,
         Windows, WindowThread, MainIsAt, ScreenTypeOK, Actor
<1>3. ASSUME StartWindow PROVE Screens'
  BY <1>3, HeapAssumption DEF StartWindow, At, Goto, Runs, screenVars,
         privateVars, Screens, Screen, Own, HasScreen, Live, Where, Windows,
         WindowThread, MainIsAt, ScreenTypeOK, Actor
<1>4. ASSUME WindowStarted PROVE Screens'
  BY <1>4, HeapAssumption DEF WindowStarted, At, Goto, Runs, screenVars,
         globalVars, Screens, Screen, Own, HasScreen, Live, Where, Windows,
         WindowThread, MainIsAt, ScreenTypeOK, Actor
<1>5. ASSUME FreeScreen PROVE Screens'
  <2> DEFINE g == cur["main"]
  <2>1. g \in Gop /\ HasScreen(g)
    BY <1>5 DEF FreeScreen, At, Where, Windows, WindowThread, MainIsAt, Ending, Off,
           HasScreen, ScreenTypeOK
  <2>2. ASSUME NEW h \in Gop \ {g}, HasScreen(h)
        PROVE  Live(dib[h]) /\ heap'[dib[h]] = heap[dib[h]]
    <3>1. Own(h)
      BY <2>2 DEF Screens, Screen, MainIsAt
    <3>2. dib[h] # dib[g] /\ Live(dib[h]) /\ dib[h] \in Addr
      BY <2>1, <2>2, <3>1 DEF Own, Live, ScreenTypeOK
    <3>3. DOMAIN heap = Addr /\ heap' = [heap EXCEPT ![dib[g]] = Nil]
      BY <1>5 DEF FreeScreen, ScreenTypeOK
    <3> QED BY <3>2, <3>3
  <2> QED BY <1>5, <2>1, <2>2 DEF Screens, Screen, Own, HasScreen, Live,
                 MainIsAt, ScreenTypeOK, Actor, FreeScreen, At, Goto, Runs,
                 displayVars, privateVars, globalVars
<1>6. ASSUME AllocScreen PROVE Screens'
  <2> DEFINE g == cur["main"]
             b == [mode |-> mode[g], room |-> Size(mode[g]) + Header]
  <2>1. g \in Gop /\ b \in Block
    BY <1>6, SizeIsPositive, HeapAssumption
       DEF ScreenTypeOK, AllocScreen, At, Where, Block
  <2>2. PICK a \in Addr : /\ heap[a] = Nil
                          /\ heap' = [heap EXCEPT ![a] = b]
                          /\ dib' = [dib EXCEPT ![g] = a]
    BY <1>6 DEF AllocScreen
  <2>3. ASSUME NEW h \in Gop \ {g}, HasScreen(h)
        PROVE  Live(dib[h]) /\ dib[h] # a /\ heap'[dib[h]] = heap[dib[h]]
    <3>1. Own(h)
      BY <2>3, <1>6 DEF Screens, Screen, MainIsAt, AllocScreen, At
    <3>2. dib[h] # a /\ Live(dib[h]) /\ dib[h] \in Addr
      BY <2>2, <3>1 DEF Own, Live, ScreenTypeOK
    <3>3. DOMAIN heap = Addr
      BY DEF ScreenTypeOK
    <3> QED BY <2>2, <3>2, <3>3
  <2>4. b # Nil /\ b.mode = mode[g]
    BY <2>1, HeapAssumption
  <2>5. heap'[a] = b /\ dib'[g] = a /\ (\A h \in Gop \ {g} : dib'[h] = dib[h])
    BY <2>1, <2>2 DEF ScreenTypeOK
  <2> HIDE DEF b
  <2>6. Live(a)' /\ heap'[a].mode = mode[g]
    BY <2>4, <2>5, HeapAssumption DEF Live
  <2> SUFFICES ASSUME NEW h \in Gop, HasScreen(h)'
               PROVE  /\ ~MainIsAt(h, {"alloc"})' => Own(h)'
                      /\ ~MainIsAt(h, {"free", "alloc"})' =>
                            heap'[dib'[h]].mode = mode'[h]
                      /\ ~MainIsAt(h, {"free", "alloc", "point"})' =>
                            pixels'[h] = dib'[h]
    BY DEF Screens, Screen
  <2>7. mode' = mode /\ pixels' = pixels
    BY <1>6 DEF AllocScreen, privateVars
  <2>8. CASE h = g
    BY <1>6, <2>3, <2>5, <2>6, <2>7, <2>8
       DEF Own, Live, HasScreen, MainIsAt, ScreenTypeOK, Actor, AllocScreen,
           At, Goto, Runs, displayVars, privateVars, globalVars
  <2>9. CASE h # g
    <3>1. HasScreen(h)
      BY <1>6, <2>9 DEF HasScreen, AllocScreen, ScreenTypeOK, displayVars
    <3> QED BY <1>6, <2>3, <2>5, <2>7, <2>9, <3>1
               DEF Screens, Screen, Own, Live, HasScreen, MainIsAt,
                   ScreenTypeOK, Actor, AllocScreen, At, Goto, Runs,
                   displayVars, privateVars, globalVars
  <2> QED BY <2>8, <2>9
<1>7. ASSUME PointScreen PROVE Screens'
  BY <1>7, HeapAssumption DEF PointScreen, At, Goto, Runs, displayVars,
         privateVars, globalVars, Screens, Screen, Own, HasScreen, Live, Where,
         Windows, WindowThread, MainIsAt, ScreenTypeOK, Actor
<1>8. ASSUME MoveWindow PROVE Screens'
  BY <1>8, HeapAssumption DEF MoveWindow, At, Goto, Runs, displayVars,
         screenVars, privateVars, globalVars, Screens, Screen, Own, HasScreen,
         Live, Where, Windows, WindowThread, MainIsAt, ScreenTypeOK, Actor
<1>9. ASSUME MoveReturns PROVE Screens'
  BY <1>9, HeapAssumption DEF MoveReturns, At, Goto, Runs, Awaits, displayVars,
         screenVars, privateVars, globalVars, Screens, Screen, Own, HasScreen,
         Live, Where, Windows, WindowThread, MainIsAt, ScreenTypeOK, Actor
<1>10. ASSUME FillLine PROVE Screens'
  BY <1>10, HeapAssumption DEF FillLine, At, Goto, Runs, displayVars,
         screenVars, globalVars, Size, Screens, Screen, Own, HasScreen, Live,
         Where, Windows, WindowThread, MainIsAt, ScreenTypeOK, Actor
<1>11. ASSUME FillLineFails PROVE Screens'
  BY <1>11, HeapAssumption DEF FillLineFails, At, Goto, Runs, displayVars,
         screenVars, privateVars, globalVars, Screens, Screen, Own, HasScreen,
         Live, Where, Windows, WindowThread, MainIsAt, ScreenTypeOK, Actor
<1>12. ASSUME NEW t \in Actor, NEW g \in Gop, NEW o \in {"fill", "write", "read"},
              Blt(t, g, o)
      PROVE  Screens'
  BY <1>12, HeapAssumption DEF Blt, At, Request, Runs, displayVars, screenVars,
         privateVars, globalVars, Fits, LastPixel, Screens, Screen, Own,
         HasScreen, Live, Where, Windows, WindowThread, MainIsAt, ScreenTypeOK, Actor
<1>13. ASSUME NEW t \in Actor, Copy(t)
      PROVE  Screens'
  BY <1>13, HeapAssumption DEF Copy, At, Goto, Runs, screenVars, privateVars,
         globalVars, Screens, Screen, Own, HasScreen, Live, Where, Windows,
         WindowThread, MainIsAt, ScreenTypeOK, Actor
<1>14. ASSUME NEW t \in Actor, UpdateReturns(t)
      PROVE  Screens'
  BY <1>14, HeapAssumption DEF UpdateReturns, At, Goto, Runs, Awaits,
         displayVars, screenVars, privateVars, globalVars, Screens, Screen, Own,
         HasScreen, Live, Where, Windows, WindowThread, MainIsAt, ScreenTypeOK, Actor
<1>15. ASSUME NEW g \in Gop, Stop(g)
      PROVE  Screens'
  BY <1>15, HeapAssumption DEF Stop, At, Request, Runs, SendDestroy,
         displayVars, screenVars, globalVars, Screens, Screen, Own, HasScreen,
         Live, Where, Windows, WindowThread, MainIsAt, ScreenTypeOK, Actor
<1>16. ASSUME StopReturns PROVE Screens'
  BY <1>16, HeapAssumption DEF StopReturns, At, Goto, Runs, Awaits, ReleaseTls,
         displayVars, screenVars, Screens, Screen, Own, HasScreen, Live, Where,
         Windows, WindowThread, MainIsAt, ScreenTypeOK, Actor
<1>17. ASSUME ExitBootServices PROVE Screens'
  BY <1>17, HeapAssumption DEF ExitBootServices, At, Goto, Runs, displayVars,
         screenVars, privateVars, globalVars, Screens, Screen, Own, HasScreen,
         Live, Where, Windows, WindowThread, MainIsAt, ScreenTypeOK, Actor
<1>18. ASSUME NEW g \in Gop, Kill(g)
      PROVE  Screens'
  BY <1>18, HeapAssumption DEF Kill, At, Runs, SendDestroy, displayVars,
         screenVars, privateVars, Screens, Screen, Own, HasScreen, Live, Where,
         Windows, WindowThread, MainIsAt, ScreenTypeOK, Actor
<1>19. ASSUME KillReturns PROVE Screens'
  BY <1>19, HeapAssumption DEF KillReturns, At, Goto, Runs, Awaits, ReleaseTls,
         displayVars, screenVars, privateVars, Screens, Screen, Own, HasScreen,
         Live, Where, Windows, WindowThread, MainIsAt, ScreenTypeOK, Actor
<1>20. ASSUME NEW g \in Gop, Create(g)
      PROVE  Screens'
  <2> DEFINE b == [mode |-> mode[g], room |-> Size(mode[g])]
  <2>1. b \in Block
    BY <1>20, SizeIsPositive DEF ScreenTypeOK, Create, Where, Windows, WindowThread,
           MainIsAt, Block
  <2>2. PICK a \in Addr : /\ heap[a] = Nil
                          /\ heap' = [heap EXCEPT ![a] = b]
                          /\ dib' = [dib EXCEPT ![g] = a]
                          /\ pixels' = [pixels EXCEPT ![g] = a]
    BY <1>20 DEF Create
  <2>3. ASSUME NEW h \in Gop \ {g}, HasScreen(h)
        PROVE  Live(dib[h]) /\ dib[h] # a /\ heap'[dib[h]] = heap[dib[h]]
    <3>1. Own(h)
      BY <2>3, <1>20 DEF Screens, Screen, MainIsAt, Create, Windows, WindowThread
    <3>2. dib[h] # a /\ Live(dib[h]) /\ dib[h] \in Addr
      BY <2>2, <3>1 DEF Own, Live, ScreenTypeOK
    <3>3. DOMAIN heap = Addr
      BY DEF ScreenTypeOK
    <3> QED BY <2>2, <3>2, <3>3
  <2>4. b # Nil /\ b.mode = mode[g]
    BY <2>1, HeapAssumption
  <2>5. /\ heap'[a] = b /\ dib'[g] = a /\ pixels'[g] = a
        /\ \A h \in Gop \ {g} : dib'[h] = dib[h] /\ pixels'[h] = pixels[h]
    BY <2>1, <2>2 DEF ScreenTypeOK
  <2> HIDE DEF b
  <2>6. Live(a)' /\ heap'[a].mode = mode[g]
    BY <2>4, <2>5, HeapAssumption DEF Live
  <2> SUFFICES ASSUME NEW h \in Gop, HasScreen(h)'
               PROVE  /\ ~MainIsAt(h, {"alloc"})' => Own(h)'
                      /\ ~MainIsAt(h, {"free", "alloc"})' =>
                            heap'[dib'[h]].mode = mode'[h]
                      /\ ~MainIsAt(h, {"free", "alloc", "point"})' =>
                            pixels'[h] = dib'[h]
    BY DEF Screens, Screen
  <2>7. mode' = mode /\ pc' = pc /\ cur' = cur
    BY <1>20 DEF Create, privateVars
  <2>8. CASE h = g
    BY <1>20, <2>3, <2>5, <2>6, <2>7, <2>8
       DEF Own, Live, HasScreen, MainIsAt, ScreenTypeOK, Actor, Create,
           privateVars, globalVars
  <2>9. CASE h # g
    <3>1. HasScreen(h)
      BY <1>20, <2>9 DEF HasScreen, Create, ScreenTypeOK, Create
    <3> QED BY <1>20, <2>3, <2>5, <2>7, <2>9, <3>1
               DEF Screens, Screen, Own, Live, HasScreen, MainIsAt,
                   ScreenTypeOK, Actor, Create, privateVars, globalVars
  <2> QED BY <2>8, <2>9
<1>21. ASSUME NEW g \in Gop, Show(g)
      PROVE  Screens'
  BY <1>21, HeapAssumption DEF Show, BeginPaint, screenVars, privateVars,
         globalVars, Screens, Screen, Own, HasScreen, Live, Where, Windows,
         WindowThread, MainIsAt, ScreenTypeOK, Actor
<1>22. ASSUME NEW g \in Gop, ReleaseInited(g)
      PROVE  Screens'
  BY <1>22, HeapAssumption DEF ReleaseInited, screenVars, privateVars,
         globalVars, Screens, Screen, Own, HasScreen, Live, Where, Windows,
         WindowThread, MainIsAt, ScreenTypeOK, Actor
<1>23. ASSUME NEW g \in Gop, Paint(g)
      PROVE  Screens'
  BY <1>23, HeapAssumption DEF Paint, IsFirst, BeginPaint, screenVars,
         privateVars, globalVars, Screens, Screen, Own, HasScreen, Live, Where,
         Windows, WindowThread, MainIsAt, ScreenTypeOK, Actor
<1>24. ASSUME NEW g \in Gop, PaintEnd(g)
      PROVE  Screens'
  BY <1>24, HeapAssumption DEF PaintEnd, screenVars, privateVars, globalVars,
         Screens, Screen, Own, HasScreen, Live, Where, Windows, WindowThread,
         MainIsAt, ScreenTypeOK, Actor
<1>25. ASSUME NEW g \in Gop, Moved(g)
      PROVE  Screens'
  BY <1>25, HeapAssumption DEF Moved, IsFirst, screenVars, privateVars,
         globalVars, Screens, Screen, Own, HasScreen, Live, Where, Windows,
         WindowThread, MainIsAt, ScreenTypeOK, Actor
<1>26. ASSUME NEW g \in Gop, Destroy(g)
      PROVE  Screens'
  BY <1>26, HeapAssumption DEF Destroy, IsFirst, privateVars, globalVars,
         Screens, Screen, Own, HasScreen, Live, Where, Windows, WindowThread,
         MainIsAt, ScreenTypeOK, Actor
<1>27. ASSUME NEW g \in Gop, Close(g)
      PROVE  Screens'
  BY <1>27, HeapAssumption DEF Close, screenVars, privateVars, globalVars,
         Screens, Screen, Own, HasScreen, Live, Where, Windows, WindowThread,
         MainIsAt, ScreenTypeOK, Actor
<1>28. ASSUME NEW g \in Gop, Uncover(g)
      PROVE  Screens'
  BY <1>28, HeapAssumption DEF Uncover, screenVars, privateVars, globalVars,
         Screens, Screen, Own, HasScreen, Live, Where, Windows, WindowThread,
         MainIsAt, ScreenTypeOK, Actor
<1>29. ASSUME UNCHANGED screenState PROVE Screens'
  BY <1>29, HeapAssumption DEF screenState, displayVars, screenVars,
         privateVars, globalVars, Screens, Screen, Own, HasScreen, Live, Where,
         Windows, WindowThread, MainIsAt, ScreenTypeOK, Actor
<1> QED
  BY <1>1, <1>2, <1>3, <1>4, <1>5, <1>6, <1>7, <1>8, <1>9, <1>10, <1>11,
     <1>12, <1>13, <1>14, <1>15, <1>16, <1>17, <1>18, <1>19, <1>20, <1>21,
     <1>22, <1>23, <1>24, <1>25, <1>26, <1>27, <1>28, <1>29
     DEF ScreenNext, MainGoesOn, WindowGoesOn, Advance, Actor

(* If nothing is stopped, or the firmware never exits, each window is      *)
(* destroyed once.                                                         *)
LEMMA EndsAreKept ==
    Control /\ Ends /\ [ScreenNext]_screenState => Ends'
<1> SUFFICES ASSUME ScreenTypeOK, Where, Windows, Requests, Blts, Ends,
                    [ScreenNext]_screenState
             PROVE  Ends'
  BY DEF Control
<1>1. ASSUME NEW g \in Gop, Start(g)
      PROVE  Ends'
  BY <1>1, ScenarioAssumption DEF Start, At, Runs, displayVars, screenVars,
         Ends, Orderly, HasWindow, Where, Windows, WindowThread, MainIsAt, Ending,
         Off, ScreenTypeOK, Actor
<1>2. ASSUME NEW g \in Gop, NEW m \in Modes, SetMode(g, m)
      PROVE  Ends'
  BY <1>2, ScenarioAssumption DEF SetMode, At, Request, Runs, displayVars,
         screenVars, globalVars, Ends, Orderly, HasWindow, Where, Windows,
         WindowThread, MainIsAt, Ending, Off, ScreenTypeOK, Actor
<1>3. ASSUME StartWindow PROVE Ends'
  BY <1>3, ScenarioAssumption DEF StartWindow, At, Goto, Runs, screenVars,
         privateVars, Ends, Orderly, HasWindow, Where, Windows, WindowThread,
         MainIsAt, Ending, Off, ScreenTypeOK, Actor
<1>4. ASSUME WindowStarted PROVE Ends'
  BY <1>4, ScenarioAssumption DEF WindowStarted, At, Goto, Runs, screenVars,
         globalVars, Ends, Orderly, HasWindow, Where, Windows, WindowThread, MainIsAt,
         Ending, Off, ScreenTypeOK, Actor
<1>5. ASSUME FreeScreen PROVE Ends'
  BY <1>5, ScenarioAssumption DEF FreeScreen, At, Goto, Runs, displayVars,
         privateVars, globalVars, Ends, Orderly, HasWindow, Where, Windows,
         WindowThread, MainIsAt, Ending, Off, ScreenTypeOK, Actor
<1>6. ASSUME AllocScreen PROVE Ends'
  BY <1>6, ScenarioAssumption DEF AllocScreen, At, Goto, Runs, displayVars,
         privateVars, globalVars, Size, Ends, Orderly, HasWindow, Where,
         Windows, WindowThread, MainIsAt, Ending, Off, ScreenTypeOK, Actor
<1>7. ASSUME PointScreen PROVE Ends'
  BY <1>7, ScenarioAssumption DEF PointScreen, At, Goto, Runs, displayVars,
         privateVars, globalVars, Ends, Orderly, HasWindow, Where, Windows,
         WindowThread, MainIsAt, Ending, Off, ScreenTypeOK, Actor
<1>8. ASSUME MoveWindow PROVE Ends'
  BY <1>8, ScenarioAssumption DEF MoveWindow, At, Goto, Runs, displayVars,
         screenVars, privateVars, globalVars, Ends, Orderly, HasWindow, Where,
         Windows, WindowThread, MainIsAt, Ending, Off, ScreenTypeOK, Actor
<1>9. ASSUME MoveReturns PROVE Ends'
  BY <1>9, ScenarioAssumption DEF MoveReturns, At, Goto, Runs, Awaits,
         displayVars, screenVars, privateVars, globalVars, Ends, Orderly,
         HasWindow, Where, Windows, WindowThread, MainIsAt, Ending, Off, ScreenTypeOK,
         Actor
<1>10. ASSUME FillLine PROVE Ends'
  BY <1>10, ScenarioAssumption DEF FillLine, At, Goto, Runs, displayVars,
         screenVars, globalVars, Size, Ends, Orderly, HasWindow, Where, Windows,
         WindowThread, MainIsAt, Ending, Off, ScreenTypeOK, Actor
<1>11. ASSUME FillLineFails PROVE Ends'
  BY <1>11, ScenarioAssumption DEF FillLineFails, At, Goto, Runs, displayVars,
         screenVars, privateVars, globalVars, Ends, Orderly, HasWindow, Where,
         Windows, WindowThread, MainIsAt, Ending, Off, ScreenTypeOK, Actor
<1>12. ASSUME NEW t \in Actor, NEW g \in Gop, NEW o \in {"fill", "write", "read"},
              Blt(t, g, o)
      PROVE  Ends'
  BY <1>12, ScenarioAssumption DEF Blt, At, Request, Runs, displayVars,
         screenVars, privateVars, globalVars, Fits, LastPixel, Ends, Orderly,
         HasWindow, Where, Windows, WindowThread, MainIsAt, Ending, Off, ScreenTypeOK,
         Actor
<1>13. ASSUME NEW t \in Actor, Copy(t)
      PROVE  Ends'
  BY <1>13, ScenarioAssumption DEF Copy, At, Goto, Runs, screenVars,
         privateVars, globalVars, Ends, Orderly, HasWindow, Where, Windows,
         WindowThread, MainIsAt, Ending, Off, ScreenTypeOK, Actor
<1>14. ASSUME NEW t \in Actor, UpdateReturns(t)
      PROVE  Ends'
  BY <1>14, ScenarioAssumption DEF UpdateReturns, At, Goto, Runs, Awaits,
         displayVars, screenVars, privateVars, globalVars, Ends, Orderly,
         HasWindow, Where, Windows, WindowThread, MainIsAt, Ending, Off, ScreenTypeOK,
         Actor
<1>15. ASSUME NEW g \in Gop, Stop(g)
      PROVE  Ends'
  BY <1>15, ScenarioAssumption DEF Stop, At, Request, Runs, SendDestroy,
         displayVars, screenVars, globalVars, Ends, Orderly, HasWindow, Where,
         Windows, WindowThread, MainIsAt, Ending, Off, ScreenTypeOK, Actor
<1>16. ASSUME StopReturns PROVE Ends'
  BY <1>16, ScenarioAssumption DEF StopReturns, At, Goto, Runs, Awaits,
         ReleaseTls, displayVars, screenVars, Ends, Orderly, HasWindow, Where,
         Windows, WindowThread, MainIsAt, Ending, Off, ScreenTypeOK, Actor
<1>17. ASSUME ExitBootServices PROVE Ends'
  BY <1>17, ScenarioAssumption DEF ExitBootServices, At, Goto, Runs,
         displayVars, screenVars, privateVars, globalVars, Ends, Orderly,
         HasWindow, Where, Windows, WindowThread, MainIsAt, Ending, Off, ScreenTypeOK,
         Actor
<1>18. ASSUME NEW g \in Gop, Kill(g)
      PROVE  Ends'
  BY <1>18, ScenarioAssumption DEF Kill, At, Runs, SendDestroy, displayVars,
         screenVars, privateVars, Ends, Orderly, HasWindow, Where, Windows,
         WindowThread, MainIsAt, Ending, Off, ScreenTypeOK, Actor
<1>19. ASSUME KillReturns PROVE Ends'
  BY <1>19, ScenarioAssumption DEF KillReturns, At, Goto, Runs, Awaits,
         ReleaseTls, displayVars, screenVars, privateVars, Ends, Orderly,
         HasWindow, Where, Windows, WindowThread, MainIsAt, Ending, Off, ScreenTypeOK,
         Actor
<1>20. ASSUME NEW g \in Gop, Create(g)
      PROVE  Ends'
  BY <1>20, ScenarioAssumption DEF Create, privateVars, globalVars, Size, Ends,
         Orderly, HasWindow, Where, Windows, WindowThread, MainIsAt, Ending, Off,
         ScreenTypeOK, Actor
<1>21. ASSUME NEW g \in Gop, Show(g)
      PROVE  Ends'
  BY <1>21, ScenarioAssumption DEF Show, BeginPaint, screenVars, privateVars,
         globalVars, Ends, Orderly, HasWindow, Where, Windows, WindowThread, MainIsAt,
         Ending, Off, ScreenTypeOK, Actor
<1>22. ASSUME NEW g \in Gop, ReleaseInited(g)
      PROVE  Ends'
  BY <1>22, ScenarioAssumption DEF ReleaseInited, screenVars, privateVars,
         globalVars, Ends, Orderly, HasWindow, Where, Windows, WindowThread, MainIsAt,
         Ending, Off, ScreenTypeOK, Actor
<1>23. ASSUME NEW g \in Gop, Paint(g)
      PROVE  Ends'
  BY <1>23, ScenarioAssumption DEF Paint, IsFirst, BeginPaint, screenVars,
         privateVars, globalVars, Ends, Orderly, HasWindow, Where, Windows,
         WindowThread, MainIsAt, Ending, Off, ScreenTypeOK, Actor
<1>24. ASSUME NEW g \in Gop, PaintEnd(g)
      PROVE  Ends'
  BY <1>24, ScenarioAssumption DEF PaintEnd, screenVars, privateVars,
         globalVars, Ends, Orderly, HasWindow, Where, Windows, WindowThread, MainIsAt,
         Ending, Off, ScreenTypeOK, Actor
<1>25. ASSUME NEW g \in Gop, Moved(g)
      PROVE  Ends'
  BY <1>25, ScenarioAssumption DEF Moved, IsFirst, screenVars, privateVars,
         globalVars, Ends, Orderly, HasWindow, Where, Windows, WindowThread, MainIsAt,
         Ending, Off, ScreenTypeOK, Actor
<1>26. ASSUME NEW g \in Gop, Destroy(g)
      PROVE  Ends'
  <2>1. Ending(g)
    <3>1. Awaits(g, "destroy")
      <4>1. sent[g] # <<>> /\ Head(sent[g]) = "destroy"
        BY <1>26 DEF Destroy, IsFirst
      <4>2. sent[g] \in Seq(Waiting)
        BY DEF ScreenTypeOK, Waiting
      <4>3. 1 \in DOMAIN sent[g] /\ sent[g][1] = "destroy"
        BY <4>1, <4>2
      <4> QED BY <4>3 DEF Awaits
    <3> QED BY <3>1 DEF Requests, Asked, Awaits, Doomed
  <2> QED BY <1>26, <2>1 DEF Destroy, privateVars, globalVars, Ends, Orderly,
                 HasWindow, Ending, MainIsAt, Off, ScreenTypeOK, Actor
<1>27. ASSUME NEW g \in Gop, Close(g)
      PROVE  Ends'
  BY <1>27, ScenarioAssumption DEF Close, screenVars, privateVars, globalVars,
         Ends, Orderly, HasWindow, Where, Windows, WindowThread, MainIsAt, Ending,
         Off, ScreenTypeOK, Actor
<1>28. ASSUME NEW g \in Gop, Uncover(g)
      PROVE  Ends'
  BY <1>28, ScenarioAssumption DEF Uncover, screenVars, privateVars, globalVars,
         Ends, Orderly, HasWindow, Where, Windows, WindowThread, MainIsAt, Ending,
         Off, ScreenTypeOK, Actor
<1>29. ASSUME UNCHANGED screenState PROVE Ends'
  BY <1>29, ScenarioAssumption DEF screenState, displayVars, screenVars,
         privateVars, globalVars, Ends, Orderly, HasWindow, Where, Windows,
         WindowThread, MainIsAt, Ending, Off, ScreenTypeOK, Actor
<1> QED
  BY <1>1, <1>2, <1>3, <1>4, <1>5, <1>6, <1>7, <1>8, <1>9, <1>10, <1>11,
     <1>12, <1>13, <1>14, <1>15, <1>16, <1>17, <1>18, <1>19, <1>20, <1>21,
     <1>22, <1>23, <1>24, <1>25, <1>26, <1>27, <1>28, <1>29
     DEF ScreenNext, MainGoesOn, WindowGoesOn, Advance, Actor

(* With one controller only its own window may need the index.             *)
LEMMA SingleIsKept ==
    Control /\ Single /\ [ScreenNext]_screenState => Single'
<1> SUFFICES ASSUME ScreenTypeOK, Where, Windows, Requests, Blts, Single,
                    [ScreenNext]_screenState
             PROVE  Single'
  BY DEF Control
<1>1. ASSUME NEW g \in Gop, Start(g)
      PROVE  Single'
  BY <1>1, ScenarioAssumption DEF Start, At, Runs, displayVars, screenVars,
         Single, Alone, Requests, Asked, Doomed, Awaits, HasWindow, Where,
         Windows, WindowThread, MainIsAt, Ending, Off, ScreenTypeOK, Actor
<1>2. ASSUME NEW g \in Gop, NEW m \in Modes, SetMode(g, m)
      PROVE  Single'
  BY <1>2, ScenarioAssumption DEF SetMode, At, Request, Runs, displayVars,
         screenVars, globalVars, Single, Alone, Requests, Asked, Doomed, Awaits,
         HasWindow, Where, Windows, WindowThread, MainIsAt, Ending, Off, ScreenTypeOK,
         Actor
<1>3. ASSUME StartWindow PROVE Single'
  BY <1>3, ScenarioAssumption DEF StartWindow, At, Goto, Runs, screenVars,
         privateVars, Single, Alone, Requests, Asked, Doomed, Awaits, HasWindow,
         Where, Windows, WindowThread, MainIsAt, Ending, Off, ScreenTypeOK, Actor
<1>4. ASSUME WindowStarted PROVE Single'
  BY <1>4, ScenarioAssumption DEF WindowStarted, At, Goto, Runs, screenVars,
         globalVars, Single, Alone, Requests, Asked, Doomed, Awaits, HasWindow,
         Where, Windows, WindowThread, MainIsAt, Ending, Off, ScreenTypeOK, Actor
<1>5. ASSUME FreeScreen PROVE Single'
  BY <1>5, ScenarioAssumption DEF FreeScreen, At, Goto, Runs, displayVars,
         privateVars, globalVars, Single, Alone, Requests, Asked, Doomed,
         Awaits, HasWindow, Where, Windows, WindowThread, MainIsAt, Ending, Off,
         ScreenTypeOK, Actor
<1>6. ASSUME AllocScreen PROVE Single'
  BY <1>6, ScenarioAssumption DEF AllocScreen, At, Goto, Runs, displayVars,
         privateVars, globalVars, Size, Single, Alone, Requests, Asked, Doomed,
         Awaits, HasWindow, Where, Windows, WindowThread, MainIsAt, Ending, Off,
         ScreenTypeOK, Actor
<1>7. ASSUME PointScreen PROVE Single'
  BY <1>7, ScenarioAssumption DEF PointScreen, At, Goto, Runs, displayVars,
         privateVars, globalVars, Single, Alone, Requests, Asked, Doomed,
         Awaits, HasWindow, Where, Windows, WindowThread, MainIsAt, Ending, Off,
         ScreenTypeOK, Actor
<1>8. ASSUME MoveWindow PROVE Single'
  BY <1>8, ScenarioAssumption DEF MoveWindow, At, Goto, Runs, displayVars,
         screenVars, privateVars, globalVars, Single, Alone, Requests, Asked,
         Doomed, Awaits, HasWindow, Where, Windows, WindowThread, MainIsAt, Ending,
         Off, ScreenTypeOK, Actor
<1>9. ASSUME MoveReturns PROVE Single'
  BY <1>9, ScenarioAssumption DEF MoveReturns, At, Goto, Runs, Awaits,
         displayVars, screenVars, privateVars, globalVars, Single, Alone,
         Requests, Asked, Doomed, HasWindow, Where, Windows, WindowThread, MainIsAt,
         Ending, Off, ScreenTypeOK, Actor
<1>10. ASSUME FillLine PROVE Single'
  BY <1>10, ScenarioAssumption DEF FillLine, At, Goto, Runs, displayVars,
         screenVars, globalVars, Size, Single, Alone, Requests, Asked, Doomed,
         Awaits, HasWindow, Where, Windows, WindowThread, MainIsAt, Ending, Off,
         ScreenTypeOK, Actor
<1>11. ASSUME FillLineFails PROVE Single'
  BY <1>11, ScenarioAssumption DEF FillLineFails, At, Goto, Runs, displayVars,
         screenVars, privateVars, globalVars, Single, Alone, Requests, Asked,
         Doomed, Awaits, HasWindow, Where, Windows, WindowThread, MainIsAt, Ending,
         Off, ScreenTypeOK, Actor
<1>12. ASSUME NEW t \in Actor, NEW g \in Gop, NEW o \in {"fill", "write", "read"},
              Blt(t, g, o)
      PROVE  Single'
  BY <1>12, ScenarioAssumption DEF Blt, At, Request, Runs, displayVars,
         screenVars, privateVars, globalVars, Fits, LastPixel, Single, Alone,
         Requests, Asked, Doomed, Awaits, HasWindow, Where, Windows, WindowThread,
         MainIsAt, Ending, Off, ScreenTypeOK, Actor
<1>13. ASSUME NEW t \in Actor, Copy(t)
      PROVE  Single'
  BY <1>13, ScenarioAssumption DEF Copy, At, Goto, Runs, screenVars,
         privateVars, globalVars, Single, Alone, Requests, Asked, Doomed,
         Awaits, HasWindow, Where, Windows, WindowThread, MainIsAt, Ending, Off,
         ScreenTypeOK, Actor
<1>14. ASSUME NEW t \in Actor, UpdateReturns(t)
      PROVE  Single'
  BY <1>14, ScenarioAssumption DEF UpdateReturns, At, Goto, Runs, Awaits,
         displayVars, screenVars, privateVars, globalVars, Single, Alone,
         Requests, Asked, Doomed, HasWindow, Where, Windows, WindowThread, MainIsAt,
         Ending, Off, ScreenTypeOK, Actor
<1>15. ASSUME NEW g \in Gop, Stop(g)
      PROVE  Single'
  BY <1>15, ScenarioAssumption DEF Stop, At, Request, Runs, SendDestroy,
         displayVars, screenVars, globalVars, Single, Alone, Requests, Asked,
         Doomed, Awaits, HasWindow, Where, Windows, WindowThread, MainIsAt, Ending,
         Off, ScreenTypeOK, Actor
<1>16. ASSUME StopReturns PROVE Single'
  BY <1>16, ScenarioAssumption DEF StopReturns, At, Goto, Runs, Awaits,
         ReleaseTls, displayVars, screenVars, Single, Alone, Requests, Asked,
         Doomed, HasWindow, Where, Windows, WindowThread, MainIsAt, Ending, Off,
         ScreenTypeOK, Actor
<1>17. ASSUME ExitBootServices PROVE Single'
  BY <1>17, ScenarioAssumption DEF ExitBootServices, At, Goto, Runs,
         displayVars, screenVars, privateVars, globalVars, Single, Alone,
         Requests, Asked, Doomed, Awaits, HasWindow, Where, Windows, WindowThread,
         MainIsAt, Ending, Off, ScreenTypeOK, Actor
<1>18. ASSUME NEW g \in Gop, Kill(g)
      PROVE  Single'
  BY <1>18, ScenarioAssumption DEF Kill, At, Runs, SendDestroy, displayVars,
         screenVars, privateVars, Single, Alone, Requests, Asked, Doomed,
         Awaits, HasWindow, Where, Windows, WindowThread, MainIsAt, Ending, Off,
         ScreenTypeOK, Actor
<1>19. ASSUME KillReturns PROVE Single'
  BY <1>19, ScenarioAssumption DEF KillReturns, At, Goto, Runs, Awaits,
         ReleaseTls, displayVars, screenVars, privateVars, Single, Alone,
         Requests, Asked, Doomed, HasWindow, Where, Windows, WindowThread, MainIsAt,
         Ending, Off, ScreenTypeOK, Actor
<1>20. ASSUME NEW g \in Gop, Create(g)
      PROVE  Single'
  BY <1>20, ScenarioAssumption DEF Create, privateVars, globalVars, Size,
         Single, Alone, Requests, Asked, Doomed, Awaits, HasWindow, Where,
         Windows, WindowThread, MainIsAt, Ending, Off, ScreenTypeOK, Actor
<1>21. ASSUME NEW g \in Gop, Show(g)
      PROVE  Single'
  BY <1>21, ScenarioAssumption DEF Show, BeginPaint, screenVars, privateVars,
         globalVars, Single, Alone, Requests, Asked, Doomed, Awaits, HasWindow,
         Where, Windows, WindowThread, MainIsAt, Ending, Off, ScreenTypeOK, Actor
<1>22. ASSUME NEW g \in Gop, ReleaseInited(g)
      PROVE  Single'
  BY <1>22, ScenarioAssumption DEF ReleaseInited, screenVars, privateVars,
         globalVars, Single, Alone, Requests, Asked, Doomed, Awaits, HasWindow,
         Where, Windows, WindowThread, MainIsAt, Ending, Off, ScreenTypeOK, Actor
<1>23. ASSUME NEW g \in Gop, Paint(g)
      PROVE  Single'
  BY <1>23, ScenarioAssumption DEF Paint, IsFirst, BeginPaint, screenVars,
         privateVars, globalVars, Single, Alone, Requests, Asked, Doomed,
         Awaits, HasWindow, Where, Windows, WindowThread, MainIsAt, Ending, Off,
         ScreenTypeOK, Actor
<1>24. ASSUME NEW g \in Gop, PaintEnd(g)
      PROVE  Single'
  BY <1>24, ScenarioAssumption DEF PaintEnd, screenVars, privateVars,
         globalVars, Single, Alone, Requests, Asked, Doomed, Awaits, HasWindow,
         Where, Windows, WindowThread, MainIsAt, Ending, Off, ScreenTypeOK, Actor
<1>25. ASSUME NEW g \in Gop, Moved(g)
      PROVE  Single'
  BY <1>25, ScenarioAssumption DEF Moved, IsFirst, screenVars, privateVars,
         globalVars, Single, Alone, Requests, Asked, Doomed, Awaits, HasWindow,
         Where, Windows, WindowThread, MainIsAt, Ending, Off, ScreenTypeOK, Actor
<1>26. ASSUME NEW g \in Gop, Destroy(g)
      PROVE  Single'
  BY <1>26, ScenarioAssumption DEF Destroy, IsFirst, privateVars, globalVars,
         Single, Alone, Requests, Asked, Doomed, Awaits, HasWindow, Where,
         Windows, WindowThread, MainIsAt, Ending, Off, ScreenTypeOK, Actor
<1>27. ASSUME NEW g \in Gop, Close(g)
      PROVE  Single'
  BY <1>27, ScenarioAssumption DEF Close, screenVars, privateVars, globalVars,
         Single, Alone, Requests, Asked, Doomed, Awaits, HasWindow, Where,
         Windows, WindowThread, MainIsAt, Ending, Off, ScreenTypeOK, Actor
<1>28. ASSUME NEW g \in Gop, Uncover(g)
      PROVE  Single'
  BY <1>28, ScenarioAssumption DEF Uncover, screenVars, privateVars, globalVars,
         Single, Alone, Requests, Asked, Doomed, Awaits, HasWindow, Where,
         Windows, WindowThread, MainIsAt, Ending, Off, ScreenTypeOK, Actor
<1>29. ASSUME UNCHANGED screenState PROVE Single'
  BY <1>29, ScenarioAssumption DEF screenState, displayVars, screenVars,
         privateVars, globalVars, Single, Alone, Requests, Asked, Doomed,
         Awaits, HasWindow, Where, Windows, WindowThread, MainIsAt, Ending, Off,
         ScreenTypeOK, Actor
<1> QED
  BY <1>1, <1>2, <1>3, <1>4, <1>5, <1>6, <1>7, <1>8, <1>9, <1>10, <1>11,
     <1>12, <1>13, <1>14, <1>15, <1>16, <1>17, <1>18, <1>19, <1>20, <1>21,
     <1>22, <1>23, <1>24, <1>25, <1>26, <1>27, <1>28, <1>29
     DEF ScreenNext, MainGoesOn, WindowGoesOn, Advance, Actor

(* Only three steps change the windows that count.                         *)
LEMMA CountedStays ==
    Control /\ Ends /\ [ScreenNext]_screenState
    /\ ~(StartWindow \/ StopReturns \/ KillReturns) =>
        SameUsers
<1> SUFFICES ASSUME ScreenTypeOK, Where, Windows, Requests, Blts, Ends,
                    [ScreenNext]_screenState,
                    ~(StartWindow \/ StopReturns \/ KillReturns)
             PROVE  SameUsers
  BY DEF Control
<1>1. ASSUME NEW g \in Gop, Start(g)
      PROVE  SameUsers
  BY <1>1 DEF Start, At, Runs, displayVars, screenVars, Ends, Orderly, Counted,
         HasWindow, Where, Windows, WindowThread, MainIsAt, Ending, Off, ScreenTypeOK,
         Actor, SameUsers
<1>2. ASSUME NEW g \in Gop, NEW m \in Modes, SetMode(g, m)
      PROVE  SameUsers
  BY <1>2 DEF SetMode, At, Request, Runs, displayVars, screenVars, globalVars,
         Ends, Orderly, Counted, HasWindow, Where, Windows, WindowThread, MainIsAt,
         Ending, Off, ScreenTypeOK, Actor, SameUsers
<1>3. ASSUME WindowStarted PROVE SameUsers
  BY <1>3 DEF WindowStarted, At, Goto, Runs, screenVars, globalVars, Ends,
         Orderly, Counted, HasWindow, Where, Windows, WindowThread, MainIsAt, Ending,
         Off, ScreenTypeOK, Actor, SameUsers
<1>4. ASSUME FreeScreen PROVE SameUsers
  BY <1>4 DEF FreeScreen, At, Goto, Runs, displayVars, privateVars, globalVars,
         Ends, Orderly, Counted, HasWindow, Where, Windows, WindowThread, MainIsAt,
         Ending, Off, ScreenTypeOK, Actor, SameUsers
<1>5. ASSUME AllocScreen PROVE SameUsers
  BY <1>5 DEF AllocScreen, At, Goto, Runs, displayVars, privateVars, globalVars,
         Size, Ends, Orderly, Counted, HasWindow, Where, Windows, WindowThread,
         MainIsAt, Ending, Off, ScreenTypeOK, Actor, SameUsers
<1>6. ASSUME PointScreen PROVE SameUsers
  BY <1>6 DEF PointScreen, At, Goto, Runs, displayVars, privateVars, globalVars,
         Ends, Orderly, Counted, HasWindow, Where, Windows, WindowThread, MainIsAt,
         Ending, Off, ScreenTypeOK, Actor, SameUsers
<1>7. ASSUME MoveWindow PROVE SameUsers
  BY <1>7 DEF MoveWindow, At, Goto, Runs, displayVars, screenVars, privateVars,
         globalVars, Ends, Orderly, Counted, HasWindow, Where, Windows, WindowThread,
         MainIsAt, Ending, Off, ScreenTypeOK, Actor, SameUsers
<1>8. ASSUME MoveReturns PROVE SameUsers
  BY <1>8 DEF MoveReturns, At, Goto, Runs, Awaits, displayVars, screenVars,
         privateVars, globalVars, Ends, Orderly, Counted, HasWindow, Where,
         Windows, WindowThread, MainIsAt, Ending, Off, ScreenTypeOK, Actor, SameUsers
<1>9. ASSUME FillLine PROVE SameUsers
  BY <1>9 DEF FillLine, At, Goto, Runs, displayVars, screenVars, globalVars,
         Size, Ends, Orderly, Counted, HasWindow, Where, Windows, WindowThread,
         MainIsAt, Ending, Off, ScreenTypeOK, Actor, SameUsers
<1>10. ASSUME FillLineFails PROVE SameUsers
  BY <1>10 DEF FillLineFails, At, Goto, Runs, displayVars, screenVars,
         privateVars, globalVars, Ends, Orderly, Counted, HasWindow, Where,
         Windows, WindowThread, MainIsAt, Ending, Off, ScreenTypeOK, Actor, SameUsers
<1>11. ASSUME NEW t \in Actor, NEW g \in Gop, NEW o \in {"fill", "write", "read"},
              Blt(t, g, o)
      PROVE  SameUsers
  BY <1>11 DEF Blt, At, Request, Runs, displayVars, screenVars, privateVars,
         globalVars, Fits, LastPixel, Ends, Orderly, Counted, HasWindow, Where,
         Windows, WindowThread, MainIsAt, Ending, Off, ScreenTypeOK, Actor, SameUsers
<1>12. ASSUME NEW t \in Actor, Copy(t)
      PROVE  SameUsers
  BY <1>12 DEF Copy, At, Goto, Runs, screenVars, privateVars, globalVars, Ends,
         Orderly, Counted, HasWindow, Where, Windows, WindowThread, MainIsAt, Ending,
         Off, ScreenTypeOK, Actor, SameUsers
<1>13. ASSUME NEW t \in Actor, UpdateReturns(t)
      PROVE  SameUsers
  BY <1>13 DEF UpdateReturns, At, Goto, Runs, Awaits, displayVars, screenVars,
         privateVars, globalVars, Ends, Orderly, Counted, HasWindow, Where,
         Windows, WindowThread, MainIsAt, Ending, Off, ScreenTypeOK, Actor, SameUsers
<1>14. ASSUME NEW g \in Gop, Stop(g)
      PROVE  SameUsers
  BY <1>14 DEF Stop, At, Request, Runs, SendDestroy, displayVars, screenVars,
         globalVars, Ends, Orderly, Counted, HasWindow, Where, Windows, WindowThread,
         MainIsAt, Ending, Off, ScreenTypeOK, Actor, SameUsers
<1>15. ASSUME ExitBootServices PROVE SameUsers
  BY <1>15 DEF ExitBootServices, At, Goto, Runs, displayVars, screenVars,
         privateVars, globalVars, Ends, Orderly, Counted, HasWindow, Where,
         Windows, WindowThread, MainIsAt, Ending, Off, ScreenTypeOK, Actor, SameUsers
<1>16. ASSUME NEW g \in Gop, Kill(g)
      PROVE  SameUsers
  BY <1>16 DEF Kill, At, Runs, SendDestroy, displayVars, screenVars,
         privateVars, Ends, Orderly, Counted, HasWindow, Where, Windows, WindowThread,
         MainIsAt, Ending, Off, ScreenTypeOK, Actor, SameUsers
<1>17. ASSUME NEW g \in Gop, Create(g)
      PROVE  SameUsers
  BY <1>17 DEF Create, privateVars, globalVars, Size, Ends, Orderly, Counted,
         HasWindow, Where, Windows, WindowThread, MainIsAt, Ending, Off, ScreenTypeOK,
         Actor, SameUsers
<1>18. ASSUME NEW g \in Gop, Show(g)
      PROVE  SameUsers
  BY <1>18 DEF Show, BeginPaint, screenVars, privateVars, globalVars, Ends,
         Orderly, Counted, HasWindow, Where, Windows, WindowThread, MainIsAt, Ending,
         Off, ScreenTypeOK, Actor, SameUsers
<1>19. ASSUME NEW g \in Gop, ReleaseInited(g)
      PROVE  SameUsers
  BY <1>19 DEF ReleaseInited, screenVars, privateVars, globalVars, Ends,
         Orderly, Counted, HasWindow, Where, Windows, WindowThread, MainIsAt, Ending,
         Off, ScreenTypeOK, Actor, SameUsers
<1>20. ASSUME NEW g \in Gop, Paint(g)
      PROVE  SameUsers
  BY <1>20 DEF Paint, IsFirst, BeginPaint, screenVars, privateVars, globalVars,
         Ends, Orderly, Counted, HasWindow, Where, Windows, WindowThread, MainIsAt,
         Ending, Off, ScreenTypeOK, Actor, SameUsers
<1>21. ASSUME NEW g \in Gop, PaintEnd(g)
      PROVE  SameUsers
  BY <1>21 DEF PaintEnd, screenVars, privateVars, globalVars, Ends, Orderly,
         Counted, HasWindow, Where, Windows, WindowThread, MainIsAt, Ending, Off,
         ScreenTypeOK, Actor, SameUsers
<1>22. ASSUME NEW g \in Gop, Moved(g)
      PROVE  SameUsers
  BY <1>22 DEF Moved, IsFirst, screenVars, privateVars, globalVars, Ends,
         Orderly, Counted, HasWindow, Where, Windows, WindowThread, MainIsAt, Ending,
         Off, ScreenTypeOK, Actor, SameUsers
<1>23. ASSUME NEW g \in Gop, Destroy(g)
      PROVE  SameUsers
  <2>1. Ending(g)
    <3>1. Awaits(g, "destroy")
      <4>1. sent[g] # <<>> /\ Head(sent[g]) = "destroy"
        BY <1>23 DEF Destroy, IsFirst, SameUsers
      <4>2. sent[g] \in Seq(Waiting)
        BY DEF ScreenTypeOK, Waiting, SameUsers
      <4>3. 1 \in DOMAIN sent[g] /\ sent[g][1] = "destroy"
        BY <4>1, <4>2
      <4> QED BY <4>3 DEF Awaits, SameUsers
    <3> QED BY <3>1 DEF Requests, Asked, Awaits, Doomed, SameUsers
  <2> QED BY <1>23, <2>1 DEF Destroy, privateVars, globalVars, Ends, Counted,
                 HasWindow, Ending, MainIsAt, ScreenTypeOK, Actor, SameUsers
<1>24. ASSUME NEW g \in Gop, Close(g)
      PROVE  SameUsers
  BY <1>24 DEF Close, screenVars, privateVars, globalVars, Ends, Orderly,
         Counted, HasWindow, Where, Windows, WindowThread, MainIsAt, Ending, Off,
         ScreenTypeOK, Actor, SameUsers
<1>25. ASSUME NEW g \in Gop, Uncover(g)
      PROVE  SameUsers
  BY <1>25 DEF Uncover, screenVars, privateVars, globalVars, Ends, Orderly,
         Counted, HasWindow, Where, Windows, WindowThread, MainIsAt, Ending, Off,
         ScreenTypeOK, Actor, SameUsers
<1>26. ASSUME UNCHANGED screenState PROVE SameUsers
  BY <1>26 DEF screenState, displayVars, screenVars, privateVars, globalVars,
         Ends, Orderly, Counted, HasWindow, Where, Windows, WindowThread, MainIsAt,
         Ending, Off, ScreenTypeOK, Actor, SameUsers
<1> QED
  BY <1>1, <1>2, <1>3, <1>4, <1>5, <1>6, <1>7, <1>8, <1>9, <1>10, <1>11,
     <1>12, <1>13, <1>14, <1>15, <1>16, <1>17, <1>18, <1>19, <1>20, <1>21,
     <1>22, <1>23, <1>24, <1>25, <1>26
     DEF ScreenNext, MainGoesOn, WindowGoesOn, Advance, Actor

(* The life of the firmware is chosen once.                                *)
LEMMA ScenarioIsKept == [ScreenNext]_screenState => scenario' = scenario
BY DEF ScreenNext, MainGoesOn, WindowGoesOn, Advance, screenState, globalVars,
       Start, SetMode, StartWindow, WindowStarted, FreeScreen, AllocScreen,
       PointScreen, MoveWindow, MoveReturns, FillLine, FillLineFails, Blt, Copy,
       UpdateReturns, Stop, StopReturns, ExitBootServices, Kill, KillReturns,
       Create, Show, ReleaseInited, Paint, PaintEnd, Moved, Destroy, Close,
       Uncover

(* mTlsIndexUseCount is the number of windows that count: it does not wrap,*)
(* since there are fewer controllers than it has values.                   *)
LEMMA CountsAreKept ==
    ASSUME IsFiniteSet(Gop), Cardinality(Gop) < CountLimit
    PROVE  Control /\ Ends /\ Counts
             /\ [ScreenNext]_screenState => Counts'
<1> SUFFICES ASSUME ScreenTypeOK, Where, Windows, Requests, Blts, Ends, Counts,
                    [ScreenNext]_screenState
             PROVE  Counts'
  BY DEF Control
<1>1. /\ IsFiniteSet(Counted)
      /\ Cardinality(Counted) \in Nat /\ Cardinality(Gop) \in Nat
      /\ Cardinality(Counted) <= Cardinality(Gop)
  BY FS_Subset, FS_CardinalityType DEF Counted
<1>2. scenario' = scenario
  BY ScenarioIsKept
<1>3. Orderly' <=> Orderly
  BY <1>2 DEF Orderly
<1>4. ASSUME StartWindow, Orderly
      PROVE  users' = Cardinality(Counted)' /\ (Counted # {} => tls)'
  <2> DEFINE g == cur["main"]
  <2>1. g \in Gop /\ g \notin Counted
    BY <1>4 DEF StartWindow, At, Where, Counted, HasWindow, Ending, MainIsAt
  <2>2. Counted' = Counted \cup {g}
    BY <1>4, <2>1 DEF StartWindow, At, Goto, Counted, HasWindow, Ending,
           MainIsAt, ScreenTypeOK, Actor
  <2>3. Cardinality(Counted \cup {g}) = Cardinality(Counted) + 1
    BY <1>1, <2>1, FS_AddElement
  <2>4. Cardinality(Counted \cup {g}) <= Cardinality(Gop)
    <3>1. Counted \cup {g} \subseteq Gop
      BY <2>1 DEF Counted
    <3> QED BY <3>1, FS_Subset
  <2>5. users = Cardinality(Counted)
    BY <1>4 DEF Counts
  <2>6. users + 1 \in 0 .. CountLimit - 1
    BY <1>1, <2>3, <2>4, <2>5, ScenarioAssumption
  <2>7. (users + 1) % CountLimit = users + 1
    BY <2>6, ScenarioAssumption
  <2>8. users' = users + 1 /\ tls' = TRUE
    BY <1>4, <2>7 DEF StartWindow
  <2> QED BY <2>2, <2>3, <2>5, <2>8
<1>5. ASSUME ReleaseTls, Orderly, cur["main"] \in Counted,
             Counted' = Counted \ {cur["main"]}
      PROVE  users' = Cardinality(Counted)' /\ (Counted # {} => tls)'
  <2> DEFINE g == cur["main"]
  <2>1. Cardinality(Counted \ {g}) = Cardinality(Counted) - 1 /\ IsFiniteSet(Counted \ {g})
    BY <1>1, <1>5, FS_RemoveElement
  <2>2. Cardinality(Counted \ {g}) \in Nat
    BY <2>1, FS_CardinalityType
  <2>3. users = Cardinality(Counted) /\ tls
    BY <1>5 DEF Counts
  <2>4. users - 1 \in 0 .. CountLimit - 1
    BY <1>1, <2>1, <2>2, <2>3, ScenarioAssumption
  <2>5. (users + CountLimit - 1) % CountLimit = users - 1
    <3> DEFINE k == users - 1
    <3>1. users + CountLimit - 1 = k + CountLimit
      BY <2>3, <1>1, ScenarioAssumption
    <3>2. k \in 0 .. CountLimit - 1
      BY <2>4
    <3> HIDE DEF k
    <3>3. (k + CountLimit) % CountLimit = k
      BY <3>2, ScenarioAssumption
    <3> QED BY <3>1, <3>3 DEF k
  <2>6. users' = users - 1 /\ tls' = IF users - 1 = 0 THEN FALSE ELSE tls
    BY <1>5, <2>5 DEF ReleaseTls
  <2>7. users' = Cardinality(Counted')
    BY <1>5, <2>1, <2>3, <2>6
  <2>8. Counted' # {} => users' # 0
    BY <1>5, <2>1, <2>7, FS_EmptySet
  <2> QED BY <2>3, <2>6, <2>7, <2>8
<1>6. ASSUME StopReturns \/ KillReturns
      PROVE  cur["main"] \in Counted /\ Counted' = Counted \ {cur["main"]} /\ ReleaseTls
  <2> DEFINE g == cur["main"]
  <2>1. g \in Gop /\ Ending(g) /\ thread[g] = "exited" /\ thread' = thread
    BY <1>6 DEF StopReturns, KillReturns, At, Where, Requests, Asked, Ending,
           MainIsAt, Doomed, Awaits,
                displayVars, ScreenTypeOK, Actor
  <2>2. \A h \in Gop : ~Ending(h)' /\ (Ending(h) => h = g)
    BY <1>6 DEF StopReturns, KillReturns, At, Goto, Ending, MainIsAt,
           ScreenTypeOK, Actor
  <2>3. Counted' = Counted \ {g}
    BY <2>1, <2>2 DEF Counted, HasWindow, Ending, MainIsAt
  <2> QED BY <1>6, <2>1, <2>3 DEF Counted, StopReturns, KillReturns
<1>7. CASE StartWindow
  BY <1>3, <1>4, <1>7 DEF Counts
<1>8. CASE StopReturns \/ KillReturns
  BY <1>3, <1>5, <1>6, <1>8 DEF Counts
<1>9. CASE ~(StartWindow \/ StopReturns \/ KillReturns)
  BY <1>3, <1>9, CountedStays DEF Counts, Control, SameUsers
<1> QED BY <1>7, <1>8, <1>9
(* The inductive invariant.                                                *)
DisplayInv ==
    /\ Control
    /\ Screens /\ Ends /\ Single

(* It holds in every reachable state.                                      *)
LEMMA DisplayInvHolds == ScreenSpec => []DisplayInv
<1>1. ScreenInit => DisplayInv
  <2> SUFFICES ASSUME ScreenInit PROVE DisplayInv
    OBVIOUS
  <2>0. sent \in [Gop -> Seq(Waiting)]
    BY EmptySeq DEF ScreenInit
  <2>1. ScreenTypeOK
    <3>1. users \in 0 .. CountLimit - 1
      BY ScenarioAssumption DEF ScreenInit
    <3> QED BY <2>0, <3>1 DEF ScreenInit, ScreenTypeOK, Actor, Waiting
  <2>2. Where /\ Windows /\ Blts /\ Screens
    BY HeapAssumption DEF ScreenInit, Where, Windows, WindowThread, Blts, Draws,
           Screens, Screen, HasScreen, Actor
  <2>3. Requests
    <3>1. \A g \in Gop : g \notin Doomed
      BY EmptyHas, DoomedHas DEF ScreenInit
    <3> QED BY <3>1 DEF ScreenInit, Requests, Asked, Ending, MainIsAt, Actor
  <2>4. Ends /\ Single
    BY DEF ScreenInit, Ends, Single, HasWindow, Actor
  <2> QED BY <2>1, <2>2, <2>3, <2>4 DEF DisplayInv, Control
<1>2. DisplayInv /\ [ScreenNext]_screenState => DisplayInv'
  BY TypesAreKept, WhereIsKept, WindowsAreKept, AskedIsKept, BltsAreKept,
     ScreensAreKept,
     EndsAreKept, SingleIsKept DEF DisplayInv, Control
<1> QED BY <1>1, <1>2, PTL DEF ScreenSpec

(* Every variable of the display keeps its type.                           *)
THEOREM ScreenTypes == ScreenSpec => []ScreenTypeOK
<1>1. DisplayInv => ScreenTypeOK
  BY DEF DisplayInv, Control
<1> QED BY <1>1, DisplayInvHolds, PTL

(* Main is replacing the frame buffer of g; what t copies to or from is    *)
(* live, of the right mode, and large enough.                              *)
Replacing(g) == MainIsAt(g, {"free", "alloc", "point"})
SeesItsScreen(t) ==
    /\ Live(pixels[cur[t]])
    /\ heap[pixels[cur[t]]].mode = mode[cur[t]]
    /\ blt[t].last \in 0 .. Size(mode[cur[t]]) - 1
BltsOutsideSetMode ==
    \A t \in Actor : pc[t] = "copy" =>
        SeesItsScreen(t) \/ (t = "event" /\ Replacing(cur[t]))

(* In every life of the firmware, whatever draws and is stopped, a Blt     *)
(* copies to or from a live frame buffer of the mode it was checked against,*)
(* and inside it. The one exception is a Blt by an event notification that *)
(* interrupts the SetMode of the same controller between its new resolution*)
(* and its new VirtualScreen.                                              *)
THEOREM BltIsSafeOutsideSetMode == ScreenSpec => []BltsOutsideSetMode
<1>1. DisplayInv => BltsOutsideSetMode
  <2> SUFFICES ASSUME DisplayInv, NEW t \in Actor, pc[t] = "copy",
                      ~(t = "event" /\ Replacing(cur[t]))
               PROVE  SeesItsScreen(t)
    BY DEF BltsOutsideSetMode
  <2>1. /\ cur[t] \in Gop /\ thread[cur[t]] \in {"loop", "paint"}
        /\ blt[t].last \in 0 .. Size(mode[cur[t]]) - 1
    BY DEF DisplayInv, Control, Blts, Draws
  <2>2. ~MainIsAt(cur[t], {"free", "alloc", "point"})
    BY DEF Replacing, MainIsAt, Actor
  <2>3. /\ Own(cur[t]) /\ heap[dib[cur[t]]].mode = mode[cur[t]]
        /\ pixels[cur[t]] = dib[cur[t]]
    BY <2>1, <2>2 DEF DisplayInv, Screens, Screen, HasScreen, MainIsAt
  <2> QED BY <2>1, <2>3 DEF SeesItsScreen, Own
<1> QED BY <1>1, DisplayInvHolds, PTL

(* So where no notification draws, every Blt sees its own screen.          *)
THEOREM BltSeesScreen ==
    ASSUME \A s \in Scenarios : s.cursor = {}
    PROVE  ScreenSpec => []BltSeesItsScreen
<1> DEFINE Alone2 == pc["event"] = "idle" /\ scenario.cursor = {}
<1>1. ScreenInit => Alone2
  BY DEF ScreenInit, Actor
<1>2. DisplayInv /\ Alone2 /\ [ScreenNext]_screenState => Alone2'
  <2> SUFFICES ASSUME DisplayInv, Alone2, [ScreenNext]_screenState PROVE Alone2'
    OBVIOUS
  <2>1. scenario' = scenario
    BY ScenarioIsKept
  <2>2. pc'["event"] = "idle"
    <3>1. DOMAIN pc = Actor /\ "event" \in Actor /\ pc["event"] = "idle" /\ scenario.cursor = {}
      BY DEF DisplayInv, Control, ScreenTypeOK, Actor
    <3> DEFINE OnlyMain == pc' = pc \/ \E label : pc' = [pc EXCEPT !["main"] = label]
    <3>2. OnlyMain => pc'["event"] = "idle"
      BY <3>1
    <3>3. CASE UNCHANGED screenState
      BY <3>1, <3>3 DEF screenState
    <3>4. ASSUME NEW g \in Gop, Start(g) \/ Stop(g) \/ Kill(g) PROVE OnlyMain
      BY <3>4 DEF Start, Stop, Kill, Request, Goto
    <3>5. ASSUME NEW g \in Gop, NEW m \in Modes, SetMode(g, m) PROVE OnlyMain
      BY <3>5 DEF SetMode, Request
    <3>6. ASSUME NEW g \in Gop, NEW t \in Actor, NEW o, Blt(t, g, o) PROVE OnlyMain
      <4>1. t = "main"
        BY <3>1, <3>6 DEF Blt, Actor
      <4> QED BY <3>6, <4>1 DEF Blt, Request
    <3>7. ASSUME NEW g \in Gop, WindowGoesOn(g) \/ Close(g) \/ Uncover(g) PROVE OnlyMain
      BY <3>7 DEF WindowGoesOn, Create, Show, ReleaseInited, Paint, PaintEnd, Moved, Destroy,
                  Close, Uncover
    <3>8. CASE ExitBootServices
      BY <3>2, <3>8 DEF ExitBootServices, Goto
    <3>9. CASE MainGoesOn
      <4>1. OnlyMain
        BY <3>9 DEF MainGoesOn, StartWindow, WindowStarted, FreeScreen, AllocScreen, PointScreen,
                    MoveWindow, MoveReturns, FillLine, FillLineFails, StopReturns, KillReturns,
                    Advance, Copy, UpdateReturns, Goto
      <4> QED BY <3>2, <4>1
    <3>10. CASE Advance("event")
      BY <3>1, <3>10 DEF Advance, Copy, UpdateReturns, At
    <3> HIDE DEF OnlyMain
    <3> QED BY <3>2, <3>3, <3>4, <3>5, <3>6, <3>7, <3>8, <3>9, <3>10 DEF ScreenNext
  <2> QED BY <2>1, <2>2
<1>3. BltsOutsideSetMode /\ Alone2 => BltSeesItsScreen
  BY DEF BltsOutsideSetMode, SeesItsScreen, BltSeesItsScreen, Actor
<1> QED BY <1>1, <1>2, <1>3, DisplayInvHolds, BltIsSafeOutsideSetMode, PTL
           DEF ScreenSpec

(* The thread-local index outlives every window thread, if nothing is      *)
(* stopped, or the firmware does not exit, or there is one controller: in  *)
(* the other lives a controller that was stopped is taken off the count    *)
(* again at ExitBootServices. There are fewer controllers than             *)
(* mTlsIndexUseCount has values.                                           *)
THEOREM IndexServesWindows ==
    ASSUME IsFiniteSet(Gop), Cardinality(Gop) < CountLimit,
           \A s \in Scenarios : \/ s.stops = {} \/ ~s.exits
                               \/ \E g \in Gop : s.starts \subseteq {g}
    PROVE  ScreenSpec => []TlsServesWindows
<1>1. ScreenInit => Counts
  <2> SUFFICES ASSUME ScreenInit PROVE Counts
    OBVIOUS
  <2>1. Counted = {}
    BY DEF ScreenInit, Counted, HasWindow, Ending, MainIsAt, Actor
  <2> QED BY <2>1, FS_EmptySet DEF ScreenInit, Counts
<1>2. DisplayInv /\ Counts /\ [ScreenNext]_screenState => Counts'
  BY CountsAreKept DEF DisplayInv
<1>3. DisplayInv /\ Counts => TlsServesWindows
  <2> SUFFICES ASSUME DisplayInv, Counts, NEW g \in Gop, HasWindow(g) PROVE tls
    BY DEF TlsServesWindows
  <2>1. Orderly \/ Alone
    BY DEF Orderly, Alone, DisplayInv, Control, ScreenTypeOK
  <2> QED BY <2>1 DEF DisplayInv, Single, Counts, Counted
<1> QED BY <1>1, <1>2, <1>3, DisplayInvHolds, PTL DEF ScreenSpec
=============================================================================
