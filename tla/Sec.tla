--------------------------------- MODULE Sec ---------------------------------
(***************************************************************************)
(* Sec/SecMain.c: the host process that plays the machine.  It maps the    *)
(* firmware devices (FDs), finds the PEI core in them, hands it the        *)
(* services to find memory and flash, and starts it.  A life of the        *)
(* process is one boot; what the next life finds is what the host keeps:   *)
(* the memory files, which the reset driver writes.                        *)
(***************************************************************************)
EXTENDS FwVol

CONSTANTS
    Null,
    Images,       \* what an FD may hold: volumes, see FwVol
    FdCount,      \* the FDs that PcdWinNtFirmwareVolume names
    RegionCount,  \* the regions that PcdWinNtMemorySizeForSecMain names
    Bases,        \* the addresses that VirtualAlloc may give them
    Capsules,     \* what a region may hold for the next life
    MaxLives      \* bound: the lives of the process

ASSUME SecAssumption ==
    /\ FdCount \in Nat \ {0} /\ RegionCount \in Nat \ {0} /\ MaxLives \in Nat
    /\ Null \notin Capsules \cup Bases
ASSUME ImageAssumption ==
    /\ \A volume \in Images : IsVolume(volume)
    /\ Null \notin [fd : Nat, file : Nat, section : Nat]

VARIABLES
    lives,
    phase,          \* what the life is about to do, "off" between two
    gFdInfo,        \* the FDs that are mapped, until the core is started
    PeiCoreFile,    \* where the core was found, or Null
    gSystemMemory,  \* the base of each region, Null until it is allocated
    memory,         \* what each region holds: a capsule or Null, nothing
    files           \* the memory file of each region: {} if there is none

secVars == <<lives, phase, gFdInfo, PeiCoreFile, gSystemMemory, memory, files>>

Regions == 0 .. RegionCount - 1
Content == Capsules \cup {Null}

(* The process starts with its tables cleared.                             *)
SecMain ==
    /\ phase = "off" /\ lives < MaxLives
    /\ lives' = lives + 1 /\ phase' = "open"
    /\ UNCHANGED <<gFdInfo, PeiCoreFile, gSystemMemory, memory, files>>

IsLast(n) == n = FdCount

(* A file is opened, mapped and measured, or one of the three fails.       *)
WinNtOpenFile == Images \cup {Null}

(* Each FD is mapped; the first core that is found is the one.             *)
SecOpenFile ==
    /\ phase = "open"
    /\ \E volume \in WinNtOpenFile :
         \/ volume = Null /\ phase' = "exit" /\ UNCHANGED <<gFdInfo, PeiCoreFile>>
         \/ LET fd == Len(gFdInfo) + 1
                found == {[fd |-> fd, file |-> core.file, section |-> core.section] :
                            core \in SecFfsFindPeiCore(volume)}
            IN  /\ volume # Null
                /\ gFdInfo' = Append(gFdInfo, volume)
                /\ PeiCoreFile' = IF PeiCoreFile # Null \/ found = {} THEN PeiCoreFile
                                  ELSE CHOOSE core \in found : TRUE
                /\ phase' = IF IsLast(fd) THEN "load" ELSE "open"
    /\ UNCHANGED <<lives, gSystemMemory, memory, files>>

(* Whether an image could be loaded and relocated.                         *)
SecWinNtPeiLoadFile == BOOLEAN

(* The core is loaded and started on the temporary memory.  If it cannot   *)
(* be, or there is none, the process ends.                                 *)
SecLoadFromCore ==
    /\ phase = "load"
    /\ \E isLoaded \in SecWinNtPeiLoadFile :
         phase' = IF PeiCoreFile # Null /\ isLoaded THEN "mode" ELSE "exit"
    /\ gFdInfo' = <<>> /\ PeiCoreFile' = Null
    /\ UNCHANGED <<lives, gSystemMemory, memory, files>>

SecWinNtFdAddress(fd) == fd < FdCount

(* The service behind the PEI of memory: a region is allocated wherever    *)
(* the host has room, and filled from its file if the last life left one.  *)
SecWinNtPeiAutoScan(Index) ==
    /\ Index < RegionCount
    /\ \E base \in Bases \ {gSystemMemory[r] : r \in Regions} :
         gSystemMemory' = [gSystemMemory EXCEPT ![Index] = base]
    /\ \E content \in files[Index] \cup {Null} :   \* Null: no file, or no reading it
         memory' = [memory EXCEPT ![Index] = content]
    /\ UNCHANGED <<lives, gFdInfo, PeiCoreFile, files>>

(* The recovery mode is a file that exists or not.                         *)
SecWinNtIsRecoveryMode == BOOLEAN

(* The process ends, of itself or by the user: what the host does not keep *)
(* is gone.                                                                *)
Vanish ==
    /\ phase' = "off" /\ gFdInfo' = <<>> /\ PeiCoreFile' = Null
    /\ gSystemMemory' = [r \in Regions |-> Null]
    /\ memory' = [r \in Regions |-> Null]
=============================================================================
