------------------------------- MODULE FvbInit -------------------------------
(***************************************************************************)
(* FvbInitialize of FvbServicesRuntimeDxe and of its twin in SMM: the      *)
(* announced volumes are measured in a first pass and set up in a second,  *)
(* in a buffer of the size that the first one found.                       *)
(***************************************************************************)
EXTENDS Pei

CONSTANT HeaderLength   \* of each volume, and of the "platform"'s own headers

ASSUME FvbInitAssumption == \A v \in Volumes \cup {"platform"} : HeaderLength[v] \in Nat

VARIABLES
    driver,     \* which of the two the image holds, Null when it is not at work
    next,       \* the announced volume that is next
    left,       \* what is left of the buffer
    FvInstance  \* the volumes that are set up

fvbVars == <<driver, next, left, FvInstance>>

ValidateFvHeader(volume) == flash[volume] = "valid"

(* The platform knows its own volumes by their length.                     *)
GetFvbInfo(volume) ==
    volume \in Volumes \ {"Other"} /\ flash[volume] # "erased"

IsFlash(volume) == volume # "memory"   \* the descriptor says memory-mapped I/O

IsServed(volume) ==
    IsFlash(volume) /\ (ValidateFvHeader(volume) \/ GetFvbInfo(volume))

(* The length of the header a volume gets: its own, or the platform's.     *)
LengthOf(volume) ==
    IF ValidateFvHeader(volume) THEN HeaderLength[volume] ELSE HeaderLength["platform"]

BufferSize ==
    MapThenSumSet(LAMBDA i : LengthOf(hobs[i]), {i \in DOMAIN hobs : IsServed(hobs[i])})

(* A volume that cannot be set up is passed over.  A variant with a fault  *)
(* ends the pass there.                                                    *)
PassOverStop == next' = Len(hobs) + 1
PassOver == next' = next + 1

FirstPass ==
    /\ driver' = "dxe" /\ next' = 1 /\ left' = BufferSize /\ FvInstance' = <<>>

SmmFirstPass ==
    /\ driver' = "smm" /\ next' = 1 /\ left' = BufferSize /\ FvInstance' = <<>>

(* A damaged header is replaced in the flash by the platform's.            *)
TakeHeader(volume) ==
    /\ flash' = [flash EXCEPT ![volume] = "valid"]
    /\ left' = left - LengthOf(volume)
    /\ next' = next + 1

(* The instance is put on the handle of the volume's device path, where    *)
(* one may be already.                                                     *)
SecondPass ==
    \/ /\ ~IsServed(hobs[next])
       /\ PassOver /\ UNCHANGED <<flash, left, FvInstance>>
    \/ /\ IsServed(hobs[next])
       /\ TakeHeader(hobs[next])
       /\ FvInstance' = IF \E i \in DOMAIN FvInstance : FvInstance[i] = hobs[next]
                          THEN FvInstance ELSE Append(FvInstance, hobs[next])

(* In SMM each instance gets a handle of its own.                          *)
SmmSecondPass ==
    \/ /\ ~IsServed(hobs[next])
       /\ PassOver /\ UNCHANGED <<flash, left, FvInstance>>
    \/ /\ IsServed(hobs[next])
       /\ TakeHeader(hobs[next])
       /\ FvInstance' = Append(FvInstance, hobs[next])

FvbInitialize ==
    /\ \/ /\ phase = "size" /\ phase' = "fvb"
          /\ FirstPass \/ SmmFirstPass
          /\ UNCHANGED <<flash, hobs>>
       \/ /\ phase = "fvb" /\ next \in DOMAIN hobs
          /\ \/ driver = "dxe" /\ SecondPass
             \/ driver = "smm" /\ SmmSecondPass
          /\ UNCHANGED <<phase, driver, hobs>>
       \/ /\ phase = "fvb" /\ next \notin DOMAIN hobs
          /\ phase' = "power" /\ hobs' = <<>>
          /\ driver' = Null /\ next' = 0 /\ left' = 0 /\ FvInstance' = <<>>
          /\ UNCHANGED flash
    /\ UNCHANGED <<lives, gFdInfo, PeiCoreFile, gSystemMemory, memory, files,
                   bootMode, Index, CapsuleUpdateData, capsule>>
=============================================================================
