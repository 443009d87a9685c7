--------------------------------- MODULE Boot ---------------------------------
(***************************************************************************)
(* The life of the emulator from its start to its reset, and on to the     *)
(* next: Sec, Pei, FvbInit and Tpm put together, with the platform's boot  *)
(* manager (Library/PlatformBootManagerLib) and the reset driver           *)
(* (ResetRuntimeDxe).  A capsule that an application leaves in memory has  *)
(* to survive the end of the process: a warm reset writes the memory to    *)
(* files, any other deletes them, and the next life may find its memory    *)
(* elsewhere.  The process may also just end, at any point.                *)
(***************************************************************************)
EXTENDS Tpm

CONSTANTS
    Flashes,   \* the headers that the flash may have to begin with
    Refusals   \* what the host may refuse to a reset, by the region

VARIABLES
    applied,     \* the capsule that the boot manager handed to the update
    resetType, region,   \* the reset under way, and the region that is next
    failing,     \* what the host refuses to it, for each region
    staged,      \* history: the capsule that was left last, where and in
                 \* which life, and whether that life's reset took care of it
    due          \* history: the capsule that the next boot has to find

bootVars == <<applied, resetType, region, failing, staged, due>>
vars == <<secVars, peiVars, fvbVars, tpmVars, bootVars>>

Outcomes == {"fine", "noOpen", "noWrite"}
ASSUME BootAssumption ==
    Refusals \subseteq [Regions -> Outcomes] /\ Flashes \subseteq [Volumes -> Headers]

(* What is known of the capsule that was left last.                        *)
Stagings == [capsule : Capsules, region : Regions, base : Bases, life : Nat, kept : BOOLEAN]
ASSUME StagingAssumption == Null \notin Stagings

Fine == [r \in Regions |-> "fine"]

Init ==
    /\ lives = 0 /\ phase = "off" /\ gFdInfo = <<>> /\ PeiCoreFile = Null
    /\ gSystemMemory = [r \in Regions |-> Null]
    /\ memory = [r \in Regions |-> Null] /\ files = [r \in Regions |-> {}]
    /\ bootMode = Null /\ Index = 0 /\ CapsuleUpdateData = Null /\ capsule = Null
    /\ flash \in Flashes /\ hobs = <<>>
    /\ driver = Null /\ next = 0 /\ left = 0 /\ FvInstance = <<>>
    /\ sim = [power |-> FALSE, nv |-> FALSE, shut |-> TRUE]
    /\ stream = [p \in Ports |-> <<>>] /\ mTpmCommandSocket = FALSE
    /\ exchange = NoExchange /\ commands = 0 /\ inStep = TRUE
    /\ applied = Null /\ resetType = Null /\ region = 0 /\ failing = Fine
    /\ staged = Null /\ due = Null

----------------------------------------------------------------------------
(* What may stand in the way of the capsule that is due: a recovery,       *)
(* another place or no place for its region, a file that cannot be read,   *)
(* or no room for it.                                                      *)
IsExcused ==
    \/ bootMode' = "recovery"
    \/ /\ phase' = "scan" /\ Index' = staged.region + 1
       /\ \/ gSystemMemory'[staged.region] # staged.base
          \/ due \in files[staged.region] /\ memory'[staged.region] # due
    \/ phase' = "coalesce" /\ Index <= staged.region
    \/ CapsuleSize[due] > CapsuleBufferLength

Excuse == due' = IF due # Null /\ IsExcused THEN Null ELSE due

SecPhase ==
    /\ SecMain \/ SecOpenFile \/ SecLoadFromCore
    /\ UNCHANGED <<peiVars, fvbVars, tpmVars, bootVars>>

PeiPhase ==
    /\ InitializeBootMode \/ ScanRegion \/ ScanEnds \/ Coalesce \/ PeimInitializeWinNtFwh
    /\ Excuse
    /\ UNCHANGED <<fvbVars, tpmVars, applied, resetType, region, failing, staged>>

DxePhase ==
    /\ \/ FvbInitialize /\ UNCHANGED tpmVars
       \/ CreateTpmSocket
       \/ Tpm2SubmitCommand
       \/ /\ Communicate
          /\ UNCHANGED <<secVars, peiVars, fvbVars, mTpmCommandSocket, commands>>
    /\ UNCHANGED bootVars

----------------------------------------------------------------------------
(* ProcessCapsules hands over what was coalesced and forgets the variable. *)
PlatformBootManagerBeforeConsole ==
    /\ phase = "before" /\ phase' = "after"
    /\ IF bootMode = "flashUpdate"
         THEN applied' = capsule /\ CapsuleUpdateData' = Null
         ELSE UNCHANGED <<applied, CapsuleUpdateData>>
    /\ due' = IF applied' = due THEN Null ELSE due
    /\ UNCHANGED <<lives, gFdInfo, PeiCoreFile, gSystemMemory, memory, files>>
    /\ UNCHANGED <<bootMode, Index, capsule, flash, hobs, resetType, region, failing, staged>>
    /\ UNCHANGED <<fvbVars, tpmVars>>

(* After the console it is called again, and resets if it has applied one. *)
PlatformBootManagerAfterConsole ==
    /\ phase = "after"
    /\ IF bootMode = "flashUpdate" /\ applied # Null
         THEN /\ phase' = "reset" /\ resetType' = "cold"
              /\ failing' \in Refusals
         ELSE /\ phase' = "booted" /\ UNCHANGED <<resetType, failing>>
    /\ applied' = Null /\ capsule' = Null
    /\ UNCHANGED <<lives, gFdInfo, PeiCoreFile, gSystemMemory, memory, files>>
    /\ UNCHANGED <<bootMode, Index, CapsuleUpdateData, flash, hobs, region, staged, due>>
    /\ UNCHANGED <<fvbVars, tpmVars>>

(* UpdateCapsule: an application leaves a capsule in a region.             *)
StageCapsule ==
    /\ phase = "booted" /\ exchange = NoExchange /\ CapsuleUpdateData = Null
    /\ \E c \in Capsules, r \in 0 .. Index - 1 :
         /\ memory' = [memory EXCEPT ![r] = c]
         /\ CapsuleUpdateData' = gSystemMemory[r]
         /\ staged' = [capsule |-> c, region |-> r, base |-> gSystemMemory[r],
                        life |-> lives, kept |-> FALSE]
    /\ UNCHANGED <<lives, phase, gFdInfo, PeiCoreFile, gSystemMemory, files>>
    /\ UNCHANGED <<bootMode, Index, capsule, flash, hobs>>
    /\ UNCHANGED <<fvbVars, tpmVars, applied, resetType, region, failing, due>>

(* Somebody calls ResetSystem.                                             *)
RequestReset ==
    /\ phase = "booted" /\ exchange = NoExchange /\ phase' = "reset"
    /\ resetType' \in {"warm", "cold"} /\ failing' \in Refusals
    /\ due' = IF /\ resetType' = "warm" /\ CapsuleUpdateData # Null
                 /\ memory[staged.region] = staged.capsule
                 /\ staged.region < Index /\ failing'[staged.region] = "fine"
                THEN staged.capsule ELSE Null
    /\ UNCHANGED <<lives, gFdInfo, PeiCoreFile, gSystemMemory, memory, files>>
    /\ UNCHANGED <<peiVars, fvbVars, tpmVars, applied, region, staged>>

(* A file that cannot be opened is skipped.  A variant with a fault leaves *)
(* the loop there.                                                         *)
SkipRest == region' = Index
SkipRegion == region' = region + 1

(* Whatever the file held is gone.  A variant with a fault leaves it.      *)
LeaveFile == files[region]
DeleteFile == {}

(* What a region's file may hold when the loop has come past it.  A write  *)
(* that fails may leave what was there, or a file with nothing in it.      *)
Outcome ==
    CASE failing[region] = "noOpen" -> {files[region]}
      [] resetType = "warm" /\ failing[region] = "fine" -> {{memory[region]}}
      [] resetType = "warm" /\ failing[region] = "noWrite" ->
           {{Null}} \cup {file \in {files[region]} : file # {}}
      [] resetType = "cold" /\ failing[region] = "fine" -> {DeleteFile}
      [] OTHER -> {files[region]}

WinNtResetSystem ==
    /\ phase = "reset"
    /\ \/ /\ region < Index
          /\ \E file \in Outcome : files' = [files EXCEPT ![region] = file]
          /\ IF failing[region] = "noOpen" THEN SkipRegion ELSE region' = region + 1
          /\ staged' = IF /\ staged # Null /\ staged.region = region /\ staged.life = lives
                             /\ failing[region] = "fine"
                         THEN [staged EXCEPT !.kept = TRUE] ELSE staged
          /\ UNCHANGED <<phase, resetType, failing>>
       \/ /\ region = Index
          /\ phase' = "shutdown" /\ region' = 0 /\ resetType' = Null /\ failing' = Fine
          /\ UNCHANGED <<files, staged>>
    /\ UNCHANGED <<lives, gFdInfo, PeiCoreFile, gSystemMemory, memory, applied, due>>
    /\ UNCHANGED <<peiVars, fvbVars, tpmVars>>

Shutdown ==
    /\ phase = "shutdown"
    /\ TpmShutdown \/ DestroyTpmSocket
    /\ UNCHANGED <<secVars, peiVars, fvbVars, bootVars>>

----------------------------------------------------------------------------
(* What a new process does not know.                                       *)
Forget ==
    /\ Vanish /\ UNCHANGED <<lives, files>>
    /\ bootMode' = Null /\ Index' = 0 /\ capsule' = Null /\ hobs' = <<>>
    /\ driver' = Null /\ next' = 0 /\ left' = 0 /\ FvInstance' = <<>>
    /\ exchange' = NoExchange /\ stream' = [p \in Ports |-> <<>>] /\ inStep' = TRUE
    /\ mTpmCommandSocket' = FALSE /\ commands' = 0
    /\ applied' = Null /\ resetType' = Null /\ region' = 0 /\ failing' = Fine
    /\ UNCHANGED <<CapsuleUpdateData, flash, sim, staged>>

ExitProcess ==
    /\ phase = "shutdown"
    /\ mTpmCommandSocket => IsOver /\ exchange.command = "PowerOff"
    /\ Forget /\ UNCHANGED due

(* SEC gives up.                                                           *)
Exit == phase = "exit" /\ Forget /\ UNCHANGED due

(* The reset that PEI modules may ask for ends the process at once.        *)
PeiResetSystem ==
    /\ phase \in {"mode", "scan", "coalesce", "hobs"}
    /\ Forget /\ UNCHANGED due

(* The process may end anywhere.  That costs a capsule only while a reset  *)
(* is saving it.                                                           *)
Die ==
    /\ phase # "off"
    /\ Forget /\ due' = IF phase = "reset" THEN Null ELSE due

Next ==
    \/ SecPhase \/ PeiPhase \/ DxePhase
    \/ PlatformBootManagerBeforeConsole \/ PlatformBootManagerAfterConsole
    \/ StageCapsule \/ RequestReset \/ WinNtResetSystem \/ Shutdown
    \/ ExitProcess \/ Exit \/ PeiResetSystem \/ Die

Spec == Init /\ [][Next]_vars

----------------------------------------------------------------------------
TypeOK ==
    /\ lives \in 0 .. MaxLives /\ gFdInfo \in Seq(Images) /\ Len(gFdInfo) <= FdCount
    /\ gSystemMemory \in [Regions -> Bases \cup {Null}]
    /\ memory \in [Regions -> Content] /\ files \in [Regions -> SUBSET Content]
    /\ Index \in 0 .. RegionCount /\ CapsuleUpdateData \in Bases \cup {Null}
    /\ {capsule, applied, due} \subseteq Content
    /\ flash \in [Volumes -> Headers] /\ hobs \in Seq(Volumes \cup {"memory"})
    /\ next \in Nat /\ left \in Int /\ FvInstance \in Seq(Volumes)
    /\ commands \in 0 .. MaxCommands /\ inStep \in BOOLEAN
    /\ region \in 0 .. RegionCount /\ failing \in [Regions -> Outcomes]

(* SecWinNtOpenFile stops at the first FD with a core and SecFfsFindPeiCore*)
(* at the first file of the type: what is started is the first file that   *)
(* is whole, of the FDs in their order, never a deleted or a torn one.     *)
CoreIsFirst ==
    PeiCoreFile # Null =>
      /\ PeiCoreFile.file \in FirstOf(gFdInfo[PeiCoreFile.fd], "PEI_CORE")
      /\ gFdInfo[PeiCoreFile.fd].at[PeiCoreFile.file].sections[PeiCoreFile.section] = "PE32"
      /\ \A fd \in 1 .. PeiCoreFile.fd - 1 : \A o \in FirstOf(gFdInfo[fd], "PEI_CORE") :
           SecFfsFindSectionData(gFdInfo[fd].at[o], "PE32") = {}

(* FvbInitialize sizes its buffer in one pass over the announced volumes   *)
(* and fills it in another, which rewrites the headers the first one read: *)
(* the second never runs past the buffer, fills it to the end, and sets up *)
(* every volume that has or can be given a header, and no other, in the    *)
(* order they are announced in.                                            *)
VolumesAreServed ==
    /\ left >= 0
    /\ phase = "fvb" /\ next \notin DOMAIN hobs =>
         /\ left = 0
         /\ \A n \in DOMAIN hobs : IsServed(hobs[n]) => \E i \in DOMAIN FvInstance : FvInstance[i] = hobs[n]
         /\ \A i \in DOMAIN FvInstance :
              \E n \in DOMAIN hobs :
                /\ FvInstance[i] = hobs[n] /\ IsServed(hobs[n])
                /\ \A j \in 1 .. i - 1 : \E m \in 1 .. n - 1 : FvInstance[j] = hobs[m]

(* Across a reset a capsule is found where it was left: when its region is *)
(* at the same place, and the reset could do its work on the region's      *)
(* file, the boot manager is handed that capsule or none, never one from   *)
(* an earlier life.                                                        *)
AppliedIsStaged ==
    applied # Null /\ staged.kept /\ gSystemMemory[staged.region] = staged.base
      => applied = staged.capsule

(* A capsule that was left before a warm reset is processed by the first   *)
(* boot that comes to the console, whatever ends the boots before it, and  *)
(* unless something that the code accepts stands in the way (IsExcused): a *)
(* region whose file cannot be opened does not keep the others from being  *)
(* saved.                                                                  *)
StagedIsApplied == phase \in {"after", "booted"} => due = Null

(* ReadBytes collects an answer that comes in pieces: as long as no        *)
(* exchange has broken off, a command that succeeds has its own answer, to *)
(* the last byte.                                                          *)
ResponseIsOwn ==
    exchange.at = "done" /\ inStep =>
      exchange.read = Data(exchange.command)

(* The simulator is cut off by the firmware only when it was shut down and *)
(* its storage is off, whatever became of the commands before, as long as  *)
(* the answers were read to their ends.                                    *)
PowerOffIsOrderly ==
    [][sim.power /\ ~sim'.power /\ inStep => sim.shut /\ ~sim.nv]_vars
=============================================================================
