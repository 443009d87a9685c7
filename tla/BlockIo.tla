------------------------------ MODULE BlockIo ------------------------------
(***************************************************************************)
(* The disk driver (WinNtBlockIoDxe) on the devices of the bus: a Block    *)
(* I/O protocol over a file of the host (a virtual disk) or over a drive   *)
(* of the host (a physical disk, whose medium the user may change).        *)
(*                                                                         *)
(* The functions run at TPL_CALLBACK, each one step.  The host's handle is *)
(* closed by Reset and by a changed medium, and opened by the next access. *)
(***************************************************************************)
EXTENDS Bus

CONSTANTS
    VirtualDisks,   \* the type of the devices that are files
    PhysicalDisks,  \* the type of those that are drives
    Data,           \* what a block may hold
    Zero,           \* a block of a file that was extended
    MaxMedium,      \* bound on the changes of a medium
    MaxLeak,        \* bound on the handles lost by CreateMapping
    Null

Virtual == {d \in Device : d.type = VirtualDisks}
Physical == {d \in Device : d.type = PhysicalDisks}
Disk == Virtual \cup Physical

(* The string of a disk: of a drive its letter or number and a colon, then *)
(* whether it is removable or fixed, to be read only or written, and its   *)
(* blocks and their size.                                                  *)
WellFormed(d) ==
    /\ d \in Physical => String(d).drive
    /\ String(d).media \in {"R", "F"} /\ String(d).access \in {"O", "W"}
    /\ String(d).blocks # 0 /\ String(d).size # 0

(* What the string of a disk gives CreateMapping.                          *)
Mapped == {d \in Disk : WellFormed(d)}
Protected == {d \in Mapped : String(d).access = "O"}
NumberOfBlocks(d) == IF d \in Mapped THEN String(d).blocks ELSE 0

ASSUME DiskAssumption ==
    /\ {VirtualDisks, PhysicalDisks} \subseteq Type /\ Zero \notin Data
    /\ \A d \in Disk : String(d).blocks \in Nat /\ String(d).size \in Nat

Lba(d) == 0 .. NumberOfBlocks(d) - 1
Block == Data \cup {Zero}

(* WIN_NT_BLOCK_IO_PRIVATE: the medium its handle is open on,              *)
(* MediaPresent, ReadOnly and MediaId; what the host has of a disk; and    *)
(* what a client knows of it.                                              *)
Privates == [handle : Nat \cup {Null}, present : BOOLEAN, readOnly : BOOLEAN, mediaId : Nat]
Hosts(d) == [medium : Nat, last : Nat, size : 0 .. NumberOfBlocks(d), blocks : [Lba(d) -> Block]]
Clients == [id : Nat, medium : Nat \cup {Null}]

ASSUME NullAssumption == Null \notin Nat \cup Privates \cup Data

VARIABLES
    private,  \* WIN_NT_BLOCK_IO_PRIVATE of an installed device, or Null
    host,     \* the medium there is, its size in blocks and their contents
    handles,  \* the open handles of the host's file or drive
    leaked,   \* the ones that nobody will close
    acked,    \* the block last written with success, for each Lba, or Null
    short,    \* SetEndOfFile has failed: the file is not as long as the disk
    known,    \* a client's MediaId and the medium it had it from
    reset     \* Reset was called since the client looked
vars == <<busVars, private, host, handles, leaked, acked, short, known, reset>>

NoAck(d) == [b \in Lba(d) |-> Null]
Unknown == [id |-> 0, medium |-> Null]

Init ==
    /\ BusInit
    /\ private = [d \in Device |-> Null]
    /\ \E existing \in SUBSET Mapped :
         /\ Physical \cap Mapped \subseteq existing
         /\ host = [d \in Device |-> [medium |-> 1, last |-> 1,
                                     size |-> IF d \in existing THEN NumberOfBlocks(d) ELSE 0,
                                     blocks |-> [b \in Lba(d) |-> Zero]]]
    /\ handles = [d \in Device |-> 0] /\ leaked = [d \in Device |-> 0]
    /\ acked = [d \in Device |-> NoAck(d)] /\ short = [d \in Device |-> FALSE]
    /\ known = [d \in Device |-> Unknown] /\ reset = [d \in Device |-> FALSE]

----------------------------------------------------------------------------
(* OpenDevice.  A file that has not the size of the disk is cut to nothing *)
(* and extended; neither SetEndOfFile is looked at.  (A variant with a     *)
(* fault does so to every file.)                                           *)
Emptied(h, size) == [h EXCEPT !.size = size, !.blocks = [b \in DOMAIN @ |-> Zero]]
Resized(h, size) == {Emptied(h, 0), Emptied(h, size), h, [h EXCEPT !.size = size]}
SizedAlways(d, h) == IF d \in Virtual \ Protected THEN Resized(h, NumberOfBlocks(d)) ELSE {h}
Sized(d, h) ==
    IF d \in Virtual \ Protected /\ h.size # NumberOfBlocks(d)
    THEN Resized(h, NumberOfBlocks(d)) ELSE {h}

Opened(d, p, h) ==
    {[private |-> [p EXCEPT !.handle = h.medium, !.present = TRUE], host |-> g, ok |-> TRUE] :
        g \in IF h.medium = 0 THEN {} ELSE Sized(d, h)}
NotOpened(p, h) == [private |-> [p EXCEPT !.present = FALSE], host |-> h, ok |-> FALSE]
(* The host does not open it; or, for a file, does not tell its size.      *)
OpenDevice(d, p, h) ==
    Opened(d, p, h) \cup {NotOpened(p, h)}
    \cup {[private |-> [p EXCEPT !.present = TRUE], host |-> h, ok |-> FALSE] : x \in {d} \cap Virtual}

Held(p) == IF p = Null \/ p.handle = Null THEN 0 ELSE 1

(* Reset closes the handle.                                                *)
Closed(p) == [p EXCEPT !.handle = Null]

(* WinNtBlockIoError, by the host's reason.  (A variant with a fault       *)
(* leaves the MediaId alone.)                                              *)
FailedSameId(p, why) ==
    IF why = "wrong disk" THEN [Closed(p) EXCEPT !.readOnly = FALSE, !.present = TRUE] ELSE p
Failed(p, why) ==
    CASE why = "not ready"  -> [p EXCEPT !.readOnly = FALSE, !.present = FALSE]
      [] why = "wrong disk" -> [Closed(p) EXCEPT !.readOnly = FALSE, !.present = TRUE, !.mediaId = @ + 1]
      [] why = "protected"  -> [p EXCEPT !.readOnly = TRUE]
      [] OTHER -> p

(* What the host may answer: a handle outlives its medium, not silently.   *)
Reasons(p, h) ==
    IF h.medium = 0 THEN {"not ready"}
    ELSE IF p.handle # h.medium THEN {"wrong disk"} ELSE {"protected", "other"}
Works(p, h) == h.medium = p.handle

Put(d, p, h) ==
    /\ private' = [private EXCEPT ![d] = p]
    /\ host' = [host EXCEPT ![d] = h]
    /\ handles' = [handles EXCEPT ![d] = @ - Held(private[d]) + Held(p)]
    /\ short' = [short EXCEPT ![d] = @ \/ (d \in Virtual /\ Held(p) = 1 /\ h.size # NumberOfBlocks(d))]

(* ReadWriteCommon: an access needs a handle, a medium, the caller's       *)
(* MediaId and a range of the disk.  For no block at all it neither looks  *)
(* at the range nor seeks; the seek may fail.  (A variant with a fault     *)
(* allows one block too many.)                                             *)
Ready(d) == IF Held(private[d]) = 1 THEN {[private |-> private[d], host |-> host[d], ok |-> TRUE]}
            ELSE OpenDevice(d, private[d], host[d])
Refused(o, id) == ~o.ok \/ ~o.private.present \/ o.private.mediaId # id
InRangeOff(d, from, n) == n = 0 \/ from + n - 1 <= NumberOfBlocks(d)
InRange(d, from, n) == n = 0 \/ from + n - 1 <= NumberOfBlocks(d) - 1
Fails(o) == {[o EXCEPT !.private = Failed(@, why), !.ok = FALSE] : why \in Reasons(o.private, o.host)}
Common(d, id, from, n) ==
    UNION {IF Refused(o, id) \/ ~InRange(d, from, n) THEN {[o EXCEPT !.ok = FALSE]}
           ELSE {o} \cup (IF n = 0 THEN {} ELSE Fails(o)) : o \in Ready(d)}

ReadBlocks(d, id, from, n) ==
    /\ private[d] # Null
    /\ \E o \in Common(d, id, from, n) :
         \/ (o.ok => Works(o.private, o.host)) /\ Put(d, o.private, o.host)
         \/ o.ok /\ \E f \in Fails(o) : Put(d, f.private, f.host)
    /\ UNCHANGED <<busVars, leaked, acked, known, reset>>

(* A drive's volume is locked for the write, which may fail; a write that  *)
(* fails may have written a part.                                          *)
Written(h, from, n, x) ==
    [h EXCEPT !.blocks = [b \in DOMAIN @ |-> IF b \in from .. from + n - 1 THEN x ELSE @[b]],
              !.size = IF @ < from + n THEN from + n ELSE @]
Acked(d, from, n, x) ==
    acked' = [acked EXCEPT ![d] = [b \in Lba(d) |-> IF b \in from .. from + n - 1 THEN x ELSE @[b]]]

WriteBlocks(d, id, from, n, x) ==
    /\ private[d] # Null
    /\ \E o \in Common(d, id, from, n) :
         \/ ~o.ok /\ Put(d, o.private, o.host) /\ UNCHANGED acked
         \/ /\ o.ok /\ Works(o.private, o.host) /\ d \notin Protected
            /\ Put(d, [o.private EXCEPT !.readOnly = FALSE], Written(o.host, from, n, x))
            /\ Acked(d, from, n, x)
         \/ /\ o.ok
            /\ \E f \in Fails(o), part \in 0 .. n :
                 /\ part > 0 => Works(o.private, o.host) /\ d \notin Protected
                 /\ Put(d, f.private, Written(f.host, from, part, x))
            /\ Acked(d, from, n, Null)
    /\ UNCHANGED <<busVars, leaked, known, reset>>

(* FlushBlocks writes nothing back and always succeeds.                    *)
FlushBlocks(d) == private[d] # Null /\ UNCHANGED vars

Reset(d) ==
    /\ private[d] # Null
    /\ Put(d, Closed(private[d]), host[d])
    /\ reset' = [reset EXCEPT ![d] = TRUE]
    /\ UNCHANGED <<busVars, leaked, acked, known>>

----------------------------------------------------------------------------
(* The driver binding, of a disk whose WinNtIo nobody has open BY_DRIVER.  *)
Supported(d) == d \in children \cap Disk /\ private[d] = Null

(* Start opens the device of a well-formed string and installs Block I/O.  *)
(* If that fails after the open, the handle is forgotten.                  *)
New(d) == [handle |-> Null, present |-> TRUE, readOnly |-> d \in Protected, mediaId |-> 0]

Start(d) ==
    /\ Supported(d) /\ WellFormed(d)
    /\ \E o \in OpenDevice(d, New(d), host[d]) :
         \/ o.ok /\ Put(d, o.private, o.host) /\ UNCHANGED leaked
         \/ /\ o.ok /\ leaked[d] < MaxLeak
            /\ leaked' = [leaked EXCEPT ![d] = @ + 1]
            /\ handles' = [handles EXCEPT ![d] = @ + 1]
            /\ host' = [host EXCEPT ![d] = o.host]
            /\ short' = [short EXCEPT ![d] = @ \/ (d \in Virtual /\ o.host.size # NumberOfBlocks(d))]
            /\ UNCHANGED private
    /\ UNCHANGED <<busVars, acked, known, reset>>

(* Stop, which Block I/O's user may refuse: then nothing changes.  (A      *)
(* variant with a fault leaves the handle open.)                           *)
StopKeepsHandle(d) == private' = [private EXCEPT ![d] = Null] /\ UNCHANGED handles
StopDevice(d) ==
    /\ private' = [private EXCEPT ![d] = Null]
    /\ handles' = [handles EXCEPT ![d] = @ - Held(private[d])]
Stop(d) ==
    /\ private[d] # Null /\ StopDevice(d)
    /\ known' = [known EXCEPT ![d] = Unknown] /\ reset' = [reset EXCEPT ![d] = FALSE]
    /\ UNCHANGED <<busVars, host, leaked, acked, short>>

----------------------------------------------------------------------------
(* The user takes a medium out or puts one in, with what others wrote.     *)
Change(d) ==
    /\ d \in Physical /\ host[d].last < MaxMedium
    /\ \E m \in {0, host[d].last + 1} :
         host' = [host EXCEPT ![d].medium = m, ![d].last = IF m = 0 THEN @ ELSE m,
                              ![d].blocks = [b \in Lba(d) |-> Zero]]
    /\ acked' = [acked EXCEPT ![d] = NoAck(d)]
    /\ UNCHANGED <<busVars, private, handles, leaked, short, known, reset>>

(* A client reads Media->MediaId, and the medium under the open handle.    *)
Look(d) ==
    /\ private[d] # Null
    /\ known' = [known EXCEPT ![d] = [id |-> private[d].mediaId, medium |-> private[d].handle]]
    /\ reset' = [reset EXCEPT ![d] = FALSE]
    /\ UNCHANGED <<busVars, private, host, handles, leaked, acked, short>>

(* The bus creates and removes devices; a device that is in use stays.     *)
OnlyBus == UNCHANGED <<private, host, handles, leaked, acked, short, known, reset>>
BusSteps ==
    \/ \E path \in Path : BusStart(path) /\ OnlyBus
    \/ \E d \in Device : private[d] = Null /\ BusStopChild(d) /\ OnlyBus
    \/ BusStop /\ OnlyBus

DiskSteps(d) ==
    \/ Start(d) \/ Stop(d) \/ Reset(d) \/ FlushBlocks(d)
    \/ \E from \in Lba(d), n \in 0 .. NumberOfBlocks(d) :
         \/ ReadBlocks(d, known[d].id, from, n)
         \/ \E x \in Data : WriteBlocks(d, known[d].id, from, n, x)
    \/ Change(d) \/ Look(d)

Next == BusSteps \/ \E d \in Device : DiskSteps(d)
Spec == Init /\ [][Next]_vars

----------------------------------------------------------------------------
TypeOK ==
    /\ children \subseteq Device
    /\ \A d \in Device :
         /\ private[d] \in Privates \cup {Null} /\ host[d] \in Hosts(d)
         /\ handles[d] \in Nat /\ leaked[d] \in Nat /\ short[d] \in BOOLEAN
         /\ acked[d] \in [Lba(d) -> Data \cup {Null}]
         /\ known[d] \in Clients /\ reset[d] \in BOOLEAN

(* The host's handle of a device is open once while the device is          *)
(* installed and not reset, and never after; Start loses one if it cannot  *)
(* install the protocol.                                                   *)
HandleIsOwned == \A d \in Device : handles[d] = Held(private[d]) + leaked[d]

(* A block that was written with success keeps its data over resets,       *)
(* stops, starts and failures of other calls, until it is written again or *)
(* the medium leaves: but a file that could not be extended is cut again   *)
(* by the next open.                                                       *)
WrittenIsKept ==
    \A d \in Device : ~short[d] =>
        \A b \in Lba(d) : acked[d][b] # Null => host[d].blocks[b] = acked[d][b]

(* A client with the MediaId of one medium never writes to another one,    *)
(* except after a Reset: that closes the handle, and the next open finds   *)
(* the new medium and does not compare.                                    *)
MediaIdGuards ==
    [][\A d \in Device :
        acked'[d] # acked[d] /\ acked'[d] # NoAck(d) /\ known[d].medium # Null
            => known[d].medium = host[d].medium \/ reset[d]]_vars
=============================================================================
