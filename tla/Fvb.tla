--------------------------------- MODULE Fvb ---------------------------------
(***************************************************************************)
(* The firmware volume block driver, FvbServicesRuntimeDxe: the flash of   *)
(* the emulator is a file mapped into memory, and each firmware volume in  *)
(* it is a range of addresses divided into blocks by the block map of its  *)
(* header.  FvbInitialize has found the volumes.                           *)
(*                                                                         *)
(* The driver has a lock (FvbDevLock) that it never takes: an event        *)
(* notification ("event") may call it while a call of the interrupted code *)
(* ("main") is under way, between any two bytes that this call copies.     *)
(***************************************************************************)
EXTENDS Integers, Sequences, SequencesExt

CONSTANTS
    Volume,       \* the instances, 0 .. NumFv - 1
    Base,         \* FvBase of each
    BlockMap,     \* the block map of each, without the terminating entry
    Capability,   \* what each may be set to: see Allowed
    Initial,      \* the status of each when the driver starts
    Flash,        \* the addresses of the flash
    Byte,         \* the values of a byte
    Erased,       \* what EFI_FVB2_ERASE_POLARITY makes of an erased byte
    LbaLimit,     \* an EFI_LBA wraps here (2^64)
    FarLba,       \* block numbers beyond every volume that a caller may pass
    MaxBytes,     \* bound, for main and event: a read or write, and its offset
    MaxRanges,    \* bound, for main and event: the list of ranges to erase
    EventCalls,   \* the calls an event notification makes
    Nil

Status == [read : BOOLEAN, write : BOOLEAN, lock : BOOLEAN]

ASSUME FlashAssumption ==
    /\ Flash \subseteq Nat /\ Erased \in Byte
    /\ Nil \notin Byte /\ Nil \notin {"INVALID_PARAMETER", "ACCESS_DENIED"}
ASSUME VolumeAssumption ==
    /\ Base \in [Volume -> Flash]
    /\ \A v \in Volume : BlockMap[v] \in
         Seq([NumBlocks : Nat \ {0}, Length : Nat \ {0}]) \ {<<>>}
    /\ Initial \in [Volume -> Status]
ASSUME LimitAssumption ==
    LbaLimit \in Nat \ {0} /\ FarLba \subseteq Nat
    /\ MaxBytes \in [{"main", "event"} -> Nat]
    /\ MaxRanges \in [{"main", "event"} -> Nat]

VARIABLES
    memory,      \* the bytes of the flash
    attributes,  \* the status bits in each volume header
    op,          \* the call under way: see Idle
    result       \* what the last step returned, if it ended a call
flashVars == <<memory, attributes, op, result>>

Actor == {"main", "event"}
Idle == [call |-> "idle"]

(* The blocks of a volume and their lengths, as the header describes them. *)
Lengths == [v \in Volume |->
    FlattenSeq([i \in DOMAIN BlockMap[v] |->
        [n \in 1 .. BlockMap[v][i].NumBlocks |-> BlockMap[v][i].Length]])]
NumOfBlocks == [v \in Volume |-> Len(Lengths[v])]
LbaOf(v) == 0 .. NumOfBlocks[v] - 1

FlashInit ==
    /\ memory \in [Flash -> {Erased}]
    /\ attributes = Initial
    /\ op = [t \in Actor |-> Idle]
    /\ result = Nil

----------------------------------------------------------------------------
(* FvbGetLbaAddress walks the block map.  start and offset are its         *)
(* StartLba and Offset when it comes to entry i.  A variant with a fault   *)
(* advances by the length of the entry it comes to.                        *)
WalkAhead == [v \in Volume |->
    LET map == BlockMap[v]
        at[i \in DOMAIN map] ==
            IF i = 1 THEN [start |-> 0, offset |-> 0]
            ELSE [start |-> at[i - 1].start + map[i - 1].NumBlocks,
                  offset |-> at[i - 1].offset + map[i - 1].NumBlocks * map[i].Length]
    IN  at]

Walk == [v \in Volume |->
    LET map == BlockMap[v]
        at[i \in DOMAIN map] ==
            IF i = 1 THEN [start |-> 0, offset |-> 0]
            ELSE [start |-> at[i - 1].start + map[i - 1].NumBlocks,
                  offset |-> at[i - 1].offset + map[i - 1].NumBlocks * map[i - 1].Length]
    IN  at]

(* The place of a block: a set of one element, or none for EFI_INVALID_PARAMETER. *)
FvbGetLbaAddress(v, lba) ==
    LET map == BlockMap[v]
        at == Walk[v]
    IN  {[address |-> Base[v] + at[i].offset + (lba - at[i].start) * map[i].Length,
          length |-> map[i].Length] :
            i \in {j \in DOMAIN map : at[j].start <= lba
                                     /\ lba < at[j].start + map[j].NumBlocks}}

Bytes(address, length) == address .. address + length - 1

----------------------------------------------------------------------------
(* An event notification runs to its end before main goes on.              *)
Runs(t) == t = "main" => op["event"] = Idle
Calls(t, call) ==
    /\ Runs(t)
    /\ op[t] = Idle
    /\ t = "event" => call \in EventCalls

Return(t, outcome) ==
    /\ op' = [op EXCEPT ![t] = Idle]
    /\ result' = outcome

(* FvbWriteBlock: the checks, in their order, and the clip to the block.   *)
ClipLate(length, offset, n) == IF length < n THEN length - offset ELSE n
Clip(length, offset, n) == IF length < n + offset THEN length - offset ELSE n

Refusal(v, lba, offset, n, enabled) ==
    LET place == FvbGetLbaAddress(v, lba) IN
    CASE n = 0 -> "INVALID_PARAMETER"
      [] place = {} -> "INVALID_PARAMETER"
      [] ~enabled -> "ACCESS_DENIED"
      [] \E p \in place : offset > p.length -> "INVALID_PARAMETER"
      [] OTHER -> Nil

Write(t, v, lba, offset, n, b) ==
    LET refusal == Refusal(v, lba, offset, n, attributes[v].write) IN
    /\ Calls(t, "write")
    /\ IF refusal # Nil
         THEN Return(t, [code |-> refusal, changed |-> {}])
         ELSE \E p \in FvbGetLbaAddress(v, lba) :
                LET some == Clip(p.length, offset, n) IN
                /\ op' = [op EXCEPT ![t] =
                     [call |-> "write", volume |-> v, byte |-> b,
                      todo |-> Bytes(p.address + offset, some), done |-> {},
                      blocks |-> <<>>,
                      code |-> IF some < n THEN "BAD_BUFFER_SIZE" ELSE "SUCCESS",
                      asked |-> [lba |-> lba, offset |-> offset, n |-> n]]]
                /\ result' = Nil
    /\ UNCHANGED <<memory, attributes>>

(* FvbReadBlock makes the same checks and the same clip.                   *)
Read(t, v, lba, offset, n) ==
    LET refusal == Refusal(v, lba, offset, n, attributes[v].read) IN
    /\ Calls(t, "read")
    /\ \/ /\ refusal # Nil
          /\ Return(t, [code |-> refusal, changed |-> {}])
       \/ /\ refusal = Nil
          /\ \E p \in FvbGetLbaAddress(v, lba) :
               LET some == Clip(p.length, offset, n) IN
               Return(t, [code |-> IF some < n THEN "BAD_BUFFER_SIZE" ELSE "SUCCESS",
                          changed |-> {}])
    /\ UNCHANGED <<memory, attributes>>

(* CopyMem and SetMem, a byte at a time.                                   *)
PutByte(t) ==
    /\ Runs(t)
    /\ op[t].call \in {"write", "erase"}
    /\ \E a \in op[t].todo :
         /\ memory' = [memory EXCEPT ![a] = op[t].byte]
         /\ op' = [op EXCEPT ![t].todo = @ \ {a}, ![t].done = @ \cup {a}]
    /\ result' = Nil
    /\ UNCHANGED attributes

(* FvbProtocolEraseBlocks: a first pass over the list of ranges checks     *)
(* them all (a variant with a fault checks only where each starts).        *)
ExistsStart(v, start, n) == n # 0 /\ start < NumOfBlocks[v]
Exists(v, start, n) == n # 0 /\ (start + n) % LbaLimit <= NumOfBlocks[v]

EraseBlocks(t, v, ranges) ==
    /\ Calls(t, "erase")
    /\ IF \A i \in DOMAIN ranges : Exists(v, ranges[i].start, ranges[i].n)
         THEN /\ op' = [op EXCEPT ![t] =
                   [call |-> "erase", volume |-> v, byte |-> Erased, todo |-> {},
                    done |-> {}, code |-> "SUCCESS", asked |-> Nil,
                    blocks |-> FlattenSeq([i \in DOMAIN ranges |->
                        [k \in 1 .. ranges[i].n |->
                            (ranges[i].start + k - 1) % LbaLimit]])]]
              /\ result' = Nil
         ELSE Return(t, [code |-> "INVALID_PARAMETER", changed |-> {}])
    /\ UNCHANGED <<memory, attributes>>

(* FvbEraseBlock, for the next block of the second pass: the attributes    *)
(* are tested for every block.                                             *)
EraseBlock(t) ==
    LET v == op[t].volume
        place == FvbGetLbaAddress(v, Head(op[t].blocks))
    IN
    /\ Runs(t)
    /\ op[t].call = "erase" /\ op[t].todo = {} /\ op[t].blocks # <<>>
    /\ CASE ~attributes[v].write ->
              Return(t, [code |-> "ACCESS_DENIED", changed |-> op[t].done])
         [] attributes[v].write /\ place = {} ->
              Return(t, [code |-> "INVALID_PARAMETER", changed |-> op[t].done])
         [] OTHER ->
              /\ \E p \in place :
                   op' = [op EXCEPT ![t].todo = Bytes(p.address, p.length),
                                    ![t].blocks = Tail(@)]
              /\ result' = Nil
    /\ UNCHANGED <<memory, attributes>>

Finish(t) ==
    /\ Runs(t)
    /\ op[t].call \in {"write", "erase"}
    /\ op[t].todo = {} /\ op[t].blocks = <<>>
    /\ Return(t, [code |-> op[t].code, changed |-> op[t].done])
    /\ UNCHANGED <<memory, attributes>>

(* FvbSetVolumeAttributes.  A status may only be chosen if its capability  *)
(* is declared, and a locked volume only takes the status it has.  The new *)
(* status is stored in two steps: the bits are cleared, then set.          *)
Allowed(v, s) ==
    /\ IF s.read THEN "readEnable" \in Capability[v] ELSE "readDisable" \in Capability[v]
    /\ IF s.write THEN "writeEnable" \in Capability[v] ELSE "writeDisable" \in Capability[v]
    /\ s.lock => "lock" \in Capability[v]

SettledLock(v, s) == attributes[v].lock => s.lock
Settled(v, s) == attributes[v].lock => s = attributes[v]

SetAttributes(t, v, s) ==
    /\ Calls(t, "set")
    /\ IF Settled(v, s) /\ Allowed(v, s)
         THEN /\ op' = [op EXCEPT ![t] = [call |-> "set", volume |-> v, status |-> s]]
              /\ attributes' = [attributes EXCEPT ![v] =
                                  [read |-> FALSE, write |-> FALSE, lock |-> FALSE]]
              /\ result' = Nil
         ELSE /\ Return(t, [code |-> IF Settled(v, s) THEN "INVALID_PARAMETER"
                                                     ELSE "ACCESS_DENIED",
                            changed |-> {}])
              /\ UNCHANGED attributes
    /\ UNCHANGED memory

StoreStatus(t) ==
    /\ Runs(t)
    /\ op[t].call = "set"
    /\ LET v == op[t].volume
           s == op[t].status IN
       attributes' = [attributes EXCEPT ![v] =
           [read |-> @.read \/ s.read, write |-> @.write \/ s.write,
            lock |-> @.lock \/ s.lock]]
    /\ Return(t, [code |-> "SUCCESS", changed |-> {}])
    /\ UNCHANGED memory
----------------------------------------------------------------------------
LbaAsked(v) == (0 .. NumOfBlocks[v]) \cup FarLba
Ranges(t, v) ==
    UNION {[1 .. k -> [start : LbaAsked(v), n : 0 .. NumOfBlocks[v]]] : k \in 0 .. MaxRanges[t]}

FlashNext ==
    \E t \in Actor :
      \/ \E v \in Volume :
           \/ \E lba \in LbaAsked(v), offset, n \in 0 .. MaxBytes[t] :
                \/ Read(t, v, lba, offset, n)
                \/ \E b \in Byte : Write(t, v, lba, offset, n, b)
           \/ \E ranges \in Ranges(t, v) : EraseBlocks(t, v, ranges)
           \/ \E s \in Status : SetAttributes(t, v, s)
      \/ PutByte(t) \/ EraseBlock(t) \/ Finish(t) \/ StoreStatus(t)

FlashSpec == FlashInit /\ [][FlashNext]_flashVars

----------------------------------------------------------------------------
(* Where block lba of volume v lies: behind all the blocks before it.      *)
First == [v \in Volume |->
    LET first[lba \in 0 .. NumOfBlocks[v]] ==
            IF lba = 0 THEN Base[v] ELSE first[lba - 1] + Lengths[v][lba]
    IN  first]
Place == [v \in Volume |->
    [lba \in LbaOf(v) |-> Bytes(First[v][lba], Lengths[v][lba + 1])]]
Extent(v) == UNION {Place[v][lba] : lba \in LbaOf(v)}

(* The volumes, which FvbInitialize has from the HOBs that PEI built of    *)
(* the regions of the flash, lie in it side by side.                       *)
ASSUME LayoutAssumption ==
    /\ \A v \in Volume : Extent(v) \subseteq Flash
    /\ \A v, w \in Volume : v # w => Extent(v) \cap Extent(w) = {}

(* The bytes stay bytes of the flash; a call has bytes of one block left   *)
(* to write.                                                               *)
Job == [call : {"write", "erase"}, volume : Volume, byte : Byte,
        todo : SUBSET Flash, done : SUBSET Flash, blocks : Seq(Nat),
        code : {"SUCCESS", "BAD_BUFFER_SIZE"},
        asked : [lba : Nat, offset : Nat, n : Nat] \cup {Nil}]
Setting == [call : {"set"}, volume : Volume, status : Status]
FlashTypeOK ==
    /\ memory \in [Flash -> Byte]
    /\ attributes \in [Volume -> Status]
    /\ op \in [Actor -> {Idle} \cup Job \cup Setting]
    /\ \A t \in Actor : op[t] \in Job =>
         \E lba \in LbaOf(op[t].volume) : op[t].todo \subseteq Place[op[t].volume][lba]

(* A write changes exactly the bytes asked for that lie in the block asked *)
(* for, and says so: SUCCESS if that is all of them, and otherwise         *)
(* BAD_BUFFER_SIZE.                                                        *)
Clipped(job) ==
    job.call = "write" =>
      LET asked == job.asked
          block == Place[job.volume][asked.lba]
          all == {First[job.volume][asked.lba] + i : i \in asked.offset .. asked.offset + asked.n - 1}
      IN  /\ job.todo \cup job.done = all \cap block
          /\ job.code = "SUCCESS" <=> all \subseteq block
WriteIsClipped == \A t \in Actor : Clipped(op[t])

(* A call that ends with INVALID_PARAMETER has changed nothing: the whole  *)
(* list of ranges is verified before the first block is erased.            *)
InvalidChangesNothing ==
    result # Nil => (result.code = "INVALID_PARAMETER" => result.changed = {})

(* The driver implements BlockDevice.  A status being stored counts as     *)
(* stored; an operation is admitted while it has bytes to write.           *)
Blocks == [v \in Volume |-> [lba \in LbaOf(v) |-> [a \in Place[v][lba] |-> memory[a]]]]
NotOwned == Flash \ UNION {Extent(v) : v \in Volume}
Rest == [a \in NotOwned |-> memory[a]]
StatusStored == [v \in Volume |->
    IF op["main"].call = "set" /\ op["main"].volume = v THEN op["main"].status
                                                       ELSE attributes[v]]
Writes(job, v) == job.call \in {"write", "erase"} /\ job.volume = v /\ job.todo # {}
Admitted == {v \in Volume : \E t \in Actor : Writes(op[t], v)}
Promised == INSTANCE BlockDevice WITH
    block <- Blocks, other <- Rest, status <- StatusStored, admitted <- Admitted
ImplementsBlockDevice == Promised!Spec
============================================================================
