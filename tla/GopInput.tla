------------------------------ MODULE GopInput ------------------------------
(***************************************************************************)
(* The keyboard of the emulated console, WinNtGopDxe/WinNtGopInput.c.      *)
(*                                                                         *)
(* The window thread puts every key into two bounded rings, one for the    *)
(* hot key callbacks and one for the readers; the firmware empties them.   *)
(* A ring has a critical section, but CheckQ and WaitForKey look at it     *)
(* without.  The firmware has one more actor: the periodic timer event,    *)
(* whose handler interrupts the firmware wherever it runs below            *)
(* TPL_NOTIFY.  Keys are numbered as they are typed; all that matters of a *)
(* key is its number and whether it is partial (a shift or a control key   *)
(* alone: SCAN_NULL and CHAR_NULL).                                        *)
(***************************************************************************)
EXTENDS Integers, Sequences

CONSTANTS
    MAX_Q,      \* slots of a ring, 256 in the code
    MaxTyped    \* bound: the number of keys typed

ASSUME SizeAssumption == MAX_Q \in Nat /\ MAX_Q > 1
ASSUME TypedAssumption == MaxTyped \in Nat

Queues == {"Notify", "Read"}
Keys == 1 .. MaxTyped

VARIABLES
    \* the two GOP_QUEUE_FIXED, with the owner of each critical section
    Q, Front, Rear, Cs,
    IsPartialKeySupport,
    \* the window thread: keys typed, those of them that are partial, and
    \* where AddKey is
    typed, partial, wpc, wq,
    \* the firmware: the protocol function it is in, where, on which ring
    fop, fpc, fq,
    \* WinNtGopSimpleTextInTimerHandler, called or run by the timer event
    hpc,
    \* history: the key last taken from each ring, the key WaitForKey has
    \* signalled and nobody has read yet, the result of the last read
    taken, signalled, result

rings == <<Q, Front, Rear, Cs>>
windowVars == <<typed, partial, wpc, wq>>
firmwareVars == <<fop, fpc, fq>>
vars == <<rings, IsPartialKeySupport, windowVars, firmwareVars, hpc,
          taken, signalled, result>>

EFI_NOT_READY == 0          \* as a result of a read: no key

Init ==
    /\ Q = [q \in Queues |-> [i \in 0 .. MAX_Q - 1 |-> 0]]
    /\ Front = [q \in Queues |-> 0]
    /\ Rear = [q \in Queues |-> 0]
    /\ Cs = [q \in Queues |-> "free"]
    /\ IsPartialKeySupport = FALSE
    /\ typed = 0 /\ partial = {} /\ wpc = "idle" /\ wq = "Notify"
    /\ fop = "none" /\ fpc = "idle" /\ fq = "Read" /\ hpc = "idle"
    /\ taken = [q \in Queues |-> 0]
    /\ signalled = 0 /\ result = EFI_NOT_READY

-----------------------------------------------------------------------------
(* The rings. *)

SuccNoWrap(i) == i + 1      \* variant: the index never wraps
Succ(i) == (i + 1) % MAX_Q

(* One slot stays empty, or a full ring would look empty; a variant uses all. *)
IsFullAllSlots(q) == FALSE
IsFull(q) == Succ(Rear[q]) = Front[q]
CheckQ(q) == Front[q] # Rear[q]     \* not locked

(* The keys waiting, oldest first. *)
Distance(f, r) == (r - f) % MAX_Q
Slot(f, i) == (f + i - 1) % MAX_Q
Ring(f, r, a) == [i \in 1 .. Distance(f, r) |-> a[Slot(f, i)]]
Contents(q) == Ring(Front[q], Rear[q], Q[q])

Lock(q, t) == Cs[q] = "free" /\ Cs' = [Cs EXCEPT ![q] = t]
Unlock(q) == Cs' = [Cs EXCEPT ![q] = "free"]

(***************************************************************************)
(* DeleteQ takes the oldest key whatever it is; a partial key nobody asked *)
(* for is dropped, and the caller told EFI_NOT_READY as from an empty      *)
(* ring.  Thread t has locked the ring with Lock (q, t) in a step before.  *)
(***************************************************************************)
Dropped(k) == k \in partial /\ ~IsPartialKeySupport
Succeeds(q) == CheckQ(q) /\ ~Dropped(Q[q][Front[q]])

(* Variants: a dropped key is left in the ring, or another goes with it. *)
DeleteQKeepsDropped(q) ==
    /\ IF Succeeds(q)
       THEN /\ taken' = [taken EXCEPT ![q] = Q[q][Front[q]]]
            /\ Front' = [Front EXCEPT ![q] = Succ(Front[q])]
       ELSE UNCHANGED <<taken, Front>>
    /\ Unlock(q)
    /\ UNCHANGED <<Q, Rear>>

DeleteQDropsTwo(q) ==
    /\ IF CheckQ(q)
       THEN /\ taken' = [taken EXCEPT ![q] = Q[q][Front[q]]]
            /\ Front' = [Front EXCEPT ![q] =
                            IF Succeeds(q) THEN Succ(Front[q]) ELSE Succ(Succ(Front[q]))]
       ELSE UNCHANGED <<taken, Front>>
    /\ Unlock(q)
    /\ UNCHANGED <<Q, Rear>>

DeleteQ(q) ==
    /\ IF CheckQ(q)
       THEN /\ taken' = [taken EXCEPT ![q] = Q[q][Front[q]]]
            /\ Front' = [Front EXCEPT ![q] = Succ(Front[q])]
       ELSE UNCHANGED <<taken, Front>>
    /\ Unlock(q)
    /\ UNCHANGED <<Q, Rear>>

-----------------------------------------------------------------------------
(* The window thread: GopPrivateAddKey for every key message. *)

WindowOnly ==
    UNCHANGED <<IsPartialKeySupport, firmwareVars, hpc, taken, signalled, result>>

(* AddKey fills both rings, the one for the callbacks first. *)
KeyDown ==
    /\ wpc = "idle" /\ typed < MaxTyped
    /\ wpc' = "enter" /\ wq' = "Notify"
    /\ typed' = typed + 1
    /\ \E modifier \in BOOLEAN :
           partial' = IF modifier THEN partial \cup {typed + 1} ELSE partial
    /\ UNCHANGED rings /\ WindowOnly

AddNext ==
    /\ wpc' = IF wq = "Notify" THEN "enter" ELSE "idle"
    /\ wq' = "Read"
    /\ UNCHANGED <<typed, partial>>

(* Variant of AddQFull: the early return keeps the critical section. *)
AddQFullNoLeave ==
    /\ wpc = "enter" /\ Lock(wq, "window") /\ IsFull(wq)
    /\ AddNext
    /\ UNCHANGED <<Q, Front, Rear>> /\ WindowOnly

(* Variant: room is made by giving up the oldest key. *)
AddQFullDropsOldest ==
    /\ wpc = "enter" /\ Cs[wq] = "free" /\ IsFull(wq)
    /\ Front' = [Front EXCEPT ![wq] = Succ(Front[wq])]
    /\ UNCHANGED <<Q, Rear, Cs, windowVars>> /\ WindowOnly

(* AddQ on a full ring: the key is lost for this ring. *)
AddQFull ==
    /\ wpc = "enter" /\ Cs[wq] = "free" /\ IsFull(wq)
    /\ AddNext
    /\ UNCHANGED rings /\ WindowOnly

AddQCopy ==
    /\ wpc = "enter" /\ Lock(wq, "window") /\ ~IsFull(wq)
    /\ wpc' = "publish"
    /\ Q' = [Q EXCEPT ![wq][Rear[wq]] = typed]
    /\ UNCHANGED <<Front, Rear, wq, typed, partial>> /\ WindowOnly

AddQPublish ==
    /\ wpc = "publish"
    /\ Rear' = [Rear EXCEPT ![wq] = Succ(Rear[wq])]
    /\ Unlock(wq)
    /\ AddNext
    /\ UNCHANGED <<Q, Front>> /\ WindowOnly

-----------------------------------------------------------------------------
(***************************************************************************)
(* The handler of the timer event.  The functions below call it too, at    *)
(* TPL_NOTIFY, and then wait for hpc to be "idle" again.                   *)
(***************************************************************************)
AtTplNotify == fpc # "idle" /\ fop # "SetState"

HandlerOnly ==
    UNCHANGED <<IsPartialKeySupport, windowVars, firmwareVars, signalled, result>>

TimerEvent ==
    /\ hpc = "idle" /\ ~AtTplNotify
    /\ hpc' = "enter"
    /\ UNCHANGED <<rings, taken>> /\ HandlerOnly

HandlerEnter ==
    /\ hpc = "enter" /\ Lock("Notify", "handler")
    /\ hpc' = "delete"
    /\ UNCHANGED <<Q, Front, Rear, taken>> /\ HandlerOnly

(* A key that is not dropped goes to the callbacks, and the loop goes on. *)
HandlerDelete ==
    /\ hpc = "delete" /\ DeleteQ("Notify")
    /\ hpc' = IF Succeeds("Notify") THEN "enter" ELSE "idle"
    /\ HandlerOnly

-----------------------------------------------------------------------------
(* The firmware's own calls; it does not run while the handler does. *)

ReadOps == {"ReadKeyStroke", "ReadKeyStrokeEx"}

FirmwareStep(ops, from, to) ==
    /\ hpc = "idle" /\ fop \in ops /\ fpc = from /\ fpc' = to
    /\ UNCHANGED windowVars

Call(op, to) ==
    /\ hpc = "idle" /\ fpc = "idle"
    /\ fop' = op /\ fpc' = to /\ fq' = "Read"
    /\ UNCHANGED <<rings, windowVars, taken, result>>

(* The read functions and WaitForKey raise the TPL and call the handler first. *)
CallRead(op) ==
    /\ op \in ReadOps \cup {"WaitForKey"}
    /\ Call(op, "check") /\ hpc' = "enter"
    /\ UNCHANGED <<IsPartialKeySupport, signalled>>

Enter ==
    /\ FirmwareStep(ReadOps \cup {"WaitForKey", "Reset"}, "enter", "delete")
    /\ Lock(fq, "firmware")
    /\ UNCHANGED <<Q, Front, Rear, IsPartialKeySupport, fop, fq, hpc, taken,
                   signalled, result>>

ReadCheck ==
    /\ FirmwareStep(ReadOps, "check", "enter")
    /\ CheckQ("Read")
    /\ UNCHANGED <<rings, IsPartialKeySupport, fop, fq, hpc, taken, signalled, result>>

ReadNothing ==
    /\ FirmwareStep(ReadOps, "check", "idle")
    /\ ~CheckQ("Read")
    /\ result' = EFI_NOT_READY /\ signalled' = 0
    /\ UNCHANGED <<rings, IsPartialKeySupport, fop, fq, hpc, taken>>

Oldest == Q["Read"][Front["Read"]]

(* ReadKeyStroke reads on over a partial key that DeleteQ let pass. *)
ReadAgain ==
    /\ FirmwareStep({"ReadKeyStroke"}, "delete", "check")
    /\ DeleteQ("Read") /\ Succeeds("Read") /\ Oldest \in partial
    /\ hpc' = "enter"
    /\ UNCHANGED <<IsPartialKeySupport, fop, fq, signalled, result>>

ReadReturn ==
    /\ FirmwareStep(ReadOps, "delete", "idle")
    /\ DeleteQ("Read")
    /\ fop = "ReadKeyStroke" /\ Succeeds("Read") => Oldest \notin partial
    /\ result' = IF Succeeds("Read") THEN Oldest ELSE EFI_NOT_READY
    /\ signalled' = 0
    /\ UNCHANGED <<IsPartialKeySupport, fop, fq, hpc>>

WaitCheck ==
    /\ FirmwareStep({"WaitForKey"}, "check", IF CheckQ("Read") THEN "peek" ELSE "idle")
    /\ UNCHANGED <<rings, IsPartialKeySupport, fop, fq, hpc, taken, signalled, result>>

(* WaitForKey looks at the oldest key without the lock, skips it or signals. *)
WaitSkip ==
    /\ FirmwareStep({"WaitForKey"}, "peek", "enter")
    /\ Oldest \in partial
    /\ UNCHANGED <<rings, IsPartialKeySupport, fop, fq, hpc, taken, signalled, result>>

WaitSignal ==
    /\ FirmwareStep({"WaitForKey"}, "peek", "idle")
    /\ Oldest \notin partial
    /\ signalled' = Oldest
    /\ UNCHANGED <<rings, IsPartialKeySupport, fop, fq, hpc, taken, result>>

WaitDelete ==
    /\ FirmwareStep({"WaitForKey"}, "delete", "check")
    /\ DeleteQ("Read")
    /\ UNCHANGED <<IsPartialKeySupport, fop, fq, hpc, signalled, result>>

CallReset ==
    /\ Call("Reset", "enter") /\ signalled' = 0
    /\ UNCHANGED <<IsPartialKeySupport, hpc>>

(* One loop over each ring; each ends when DeleteQ does not succeed. *)
ResetDelete ==
    /\ FirmwareStep({"Reset"}, "delete", "enter")
    /\ DeleteQ(fq)
    /\ Succeeds(fq) \/ fq = "Read"
    /\ fq' = IF Succeeds(fq) THEN fq ELSE "Notify"
    /\ UNCHANGED <<IsPartialKeySupport, fop, hpc, signalled, result>>

ResetReturn ==
    /\ FirmwareStep({"Reset"}, "delete", "idle")
    /\ DeleteQ(fq)
    /\ ~Succeeds(fq) /\ fq = "Notify"
    /\ IsPartialKeySupport' = FALSE
    /\ UNCHANGED <<fop, fq, hpc, signalled, result>>

(***************************************************************************)
(* SetState does not raise the TPL: between the reset of the flag and its  *)
(* new value the timer event may run.                                      *)
(***************************************************************************)
CallSetState ==
    /\ Call("SetState", "set")
    /\ IsPartialKeySupport' = FALSE
    /\ UNCHANGED <<hpc, signalled>>

SetStateReturn ==
    /\ FirmwareStep({"SetState"}, "set", "idle")
    /\ IsPartialKeySupport' \in BOOLEAN
    /\ UNCHANGED <<rings, fop, fq, hpc, taken, signalled, result>>

-----------------------------------------------------------------------------
Window == AddQFull \/ AddQCopy \/ AddQPublish
Handler == HandlerEnter \/ HandlerDelete
Firmware ==
    \/ Enter
    \/ ReadCheck \/ ReadNothing \/ ReadAgain \/ ReadReturn
    \/ WaitCheck \/ WaitSkip \/ WaitSignal \/ WaitDelete
    \/ ResetDelete \/ ResetReturn
    \/ SetStateReturn

Next ==
    \/ KeyDown \/ Window
    \/ TimerEvent \/ Handler
    \/ \E op \in ReadOps \cup {"WaitForKey"} : CallRead(op)
    \/ CallReset \/ CallSetState
    \/ Firmware

(* Keys are typed and functions called at will; what has begun goes on.   *)
(* The timer is periodic, and leaves the firmware time between two events.  *)
Fairness ==
    WF_vars(Window) /\ WF_vars(TimerEvent) /\ WF_vars(Handler) /\ SF_vars(Firmware)

Spec == Init /\ [][Next]_vars /\ Fairness

-----------------------------------------------------------------------------
(* The types of the variables: every index stays inside its ring. *)
TypeOK ==
    /\ Q \in [Queues -> [0 .. MAX_Q - 1 -> 0 .. MaxTyped]]
    /\ Front \in [Queues -> 0 .. MAX_Q - 1]
    /\ Rear \in [Queues -> 0 .. MAX_Q - 1]
    /\ Cs \in [Queues -> {"free", "window", "handler", "firmware"}]
    /\ IsPartialKeySupport \in BOOLEAN
    /\ typed \in 0 .. MaxTyped /\ partial \subseteq Keys
    /\ wpc \in {"idle", "enter", "publish"} /\ wq \in Queues
    /\ fop \in ReadOps \cup {"none", "WaitForKey", "Reset", "SetState"}
    /\ fpc \in {"idle", "check", "peek", "enter", "delete", "set"}
    /\ fq \in Queues
    /\ hpc \in {"idle", "enter", "delete"}
    /\ taken \in [Queues -> 0 .. MaxTyped]
    /\ signalled \in 0 .. MaxTyped /\ result \in 0 .. MaxTyped

(* How many of the keys typed AddKey has offered to ring q. *)
Offered(q) ==
    IF wpc # "idle" /\ (wq = "Notify" \/ q = "Read") THEN typed - 1 ELSE typed

(* Each ring is a first-in first-out queue of MAX_Q - 1 keys: no key comes   *)
(* out twice, late, or out of order, and AddQ loses none that there is room  *)
(* for, whatever the window thread and the firmware do to it at once.        *)
ReadRing == INSTANCE KeyFifo WITH
    Cap <- MAX_Q - 1, queue <- Contents("Read"),
    next <- Offered("Read") + 1, taken <- taken["Read"]
NotifyRing == INSTANCE KeyFifo WITH
    Cap <- MAX_Q - 1, queue <- Contents("Notify"),
    next <- Offered("Notify") + 1, taken <- taken["Notify"]
ReadRingIsFifo == ReadRing!Spec
NotifyRingIsFifo == NotifyRing!Spec

Returns == fop \in ReadOps /\ fpc # "idle" /\ fpc' = "idle"

(* Once WaitForKey has signalled its event, the next read succeeds and       *)
(* returns the very key WaitForKey had seen, although WaitForKey looks at    *)
(* the ring without the lock.  Only a reset in between takes it away.        *)
SignalIsKept == [][Returns /\ signalled # 0 => result' = signalled]_vars

(* Every key in the ring of the callbacks leaves it, and so do the partial   *)
(* ones on which the handler's loop stops: the timer event comes again.      *)
InRing(q, k) == \E i \in DOMAIN Contents(q) : Contents(q)[i] = k
CallbacksAreCalled == \A k \in Keys : InRing("Notify", k) ~> ~InRing("Notify", k)

(* No call hangs: not on a ring's critical section, which the window thread  *)
(* and the timer handler also take, nor in the loops over partial keys.      *)
CallsReturn == fpc # "idle" ~> fpc = "idle"

(* WinNtGopInput.c:430: "A reset is draining the Queue".  A loop of Reset    *)
(* ends only when its ring is empty.                                         *)
LoopEnds(q) == fop = "Reset" /\ fpc = "delete" /\ fq = q /\ (fq' # q \/ fpc' = "idle")
ResetDrains == [][\A q \in Queues : LoopEnds(q) => Front'[q] = Rear'[q]]_vars

(* WinNtGopInput.c:482: EFI_NOT_READY, "There was no keystroke data          *)
(* availiable."  A read that says so leaves no whole key in the ring.        *)
NotReadyMeansEmpty ==
    [][Returns /\ result' = EFI_NOT_READY
           => \A k \in Keys \ partial : ~InRing("Read", k)]_vars

(* WinNtGopInput.c:502 and :643: "Call hot key callback before telling       *)
(* caller there is a key available".  The key a read returns or WaitForKey   *)
(* signals has left the ring of the callbacks.                               *)
HotKeyFirst ==
    [][/\ Returns /\ result' \notin partial => result' <= taken["Notify"]
       /\ signalled' # signalled => signalled' <= taken["Notify"]]_vars
=============================================================================
