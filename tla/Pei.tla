--------------------------------- MODULE Pei ---------------------------------
(***************************************************************************)
(* What the PEI phase of the emulator finds out: BootModePei, the boot     *)
(* mode; WinNtAutoScanPei, the memory, and with it a capsule that an       *)
(* earlier life left there; WinNtFirmwareVolumePei, the flash.  The        *)
(* capsule driver (CapsulePei) and the variable it reads are external.     *)
(***************************************************************************)
EXTENDS Sec

CONSTANTS
    RegionSize,   \* of each region
    SmramSize,    \* taken from the end of the first
    CapsuleSize   \* of each capsule

ASSUME PeiAssumption ==
    /\ RegionSize[0] \in Nat /\ SmramSize \in Nat
    /\ \A c \in Capsules : CapsuleSize[c] \in Nat

VARIABLES
    bootMode,
    Index,               \* the region that is next; at the end, their number
    CapsuleUpdateData,   \* the variable: where the capsule lies, or Null
    capsule,             \* what was coalesced, or Null
    flash,               \* the header of each volume in the flash
    hobs                 \* the volumes that are announced

peiVars == <<bootMode, Index, CapsuleUpdateData, capsule, flash, hobs>>

Volumes == {"Recovery", "Variable", "Microcode", "Main", "Other"}
Headers == {"valid", "damaged", "erased"}   \* damaged: the length still stands

CheckUpdateCapsule == CapsuleUpdateData # Null

(* The marker of the recovery wins over a capsule that waits.              *)
InitializeBootMode ==
    /\ phase = "mode" /\ phase' = "scan"
    /\ \E recovery \in SecWinNtIsRecoveryMode :
         bootMode' = IF recovery THEN "recovery"
                     ELSE IF CheckUpdateCapsule THEN "flashUpdate" ELSE "full"
    /\ Index' = 0
    /\ UNCHANGED <<lives, gFdInfo, PeiCoreFile, gSystemMemory, memory, files,
                   CapsuleUpdateData, capsule, flash, hobs>>

(* The memory of PEI lies in the first region, below SMRAM; its upper half *)
(* is for the capsule.                                                     *)
CapsuleBufferLength == (RegionSize[0] - SmramSize) \div 2

ScanRegion ==
    /\ phase = "scan"
    /\ SecWinNtPeiAutoScan(Index)
    /\ Index' = Index + 1
    /\ UNCHANGED <<phase, bootMode, CapsuleUpdateData, capsule, flash, hobs>>

(* No region is left, or the host has no room for the next.                *)
ScanEnds ==
    /\ phase = "scan" /\ Index > 0
    /\ phase' = "coalesce"
    /\ UNCHANGED <<lives, gFdInfo, PeiCoreFile, gSystemMemory, memory, files>>
    /\ UNCHANGED peiVars

(* What the capsule driver finds where the variable points to, if it fits. *)
Coalesced ==
    {memory[r] : r \in {q \in Regions : /\ gSystemMemory[q] = CapsuleUpdateData
                                        /\ memory[q] # Null
                                        /\ CapsuleSize[memory[q]] <= CapsuleBufferLength}}

Coalesce ==
    /\ phase = "coalesce" /\ phase' = "hobs"
    /\ capsule' = IF bootMode = "flashUpdate" /\ Coalesced # {}
                    THEN CHOOSE c \in Coalesced : TRUE ELSE Null
    /\ UNCHANGED <<lives, gFdInfo, PeiCoreFile, gSystemMemory, memory, files,
                   bootMode, Index, CapsuleUpdateData, flash, hobs>>

(* The volumes of the first FD lie at fixed places, and their length is    *)
(* what the header says; the main volume is left out in recovery, and DXE  *)
(* finds the recovered one in memory instead.  Another FD is searched      *)
(* until something is not a volume.                                        *)
PeimInitializeWinNtFwh ==
    /\ phase = "hobs" /\ phase' = "size"
    /\ hobs' = <<"Recovery", "Variable", "Microcode">>
                 \o (IF bootMode = "recovery" THEN <<"memory">> ELSE <<"Main">>)
                 \o (IF ~SecWinNtFdAddress(1) \/ flash["Other"] = "erased" THEN <<>> ELSE <<"Other">>)
    /\ UNCHANGED <<lives, gFdInfo, PeiCoreFile, gSystemMemory, memory, files,
                   bootMode, Index, CapsuleUpdateData, capsule, flash>>
=============================================================================
