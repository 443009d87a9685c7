------------------------------ MODULE BootProofs ------------------------------
(***************************************************************************)
(* What Boot keeps over any number of lives, regions and addresses: the    *)
(* capsule that is applied is the one that was left, one that was saved    *)
(* is applied, an answer of the TPM is read to its end, and the simulator  *)
(* is turned off in order; and that SEC starts the first core there is,    *)
(* whatever the volumes hold.                                              *)
(***************************************************************************)
EXTENDS Boot, SequenceTheorems, FiniteSetTheorems, WellFoundedInduction, TLAPS

Phases == {"off", "open", "load", "exit", "mode", "scan", "coalesce", "hobs", "size", "fvb",
           "power", "before", "after", "booted", "reset", "shutdown"}

(* From the scan of the memory to the boot manager, and the part of that   *)
(* where the capsule was coalesced.                                        *)
Carrying == {"hobs", "size", "fvb", "power", "before"}
Scanned == {"scan", "coalesce"} \cup Carrying

Types ==
    /\ lives \in Nat /\ phase \in Phases
    /\ gSystemMemory \in [Regions -> Bases \cup {Null}]
    /\ memory \in [Regions -> Content] /\ files \in [Regions -> SUBSET Content]
    /\ Index \in 0 .. RegionCount /\ CapsuleUpdateData \in Bases \cup {Null}
    /\ capsule \in Content /\ applied \in Content /\ due \in Content
    /\ staged \in Stagings \cup {Null} /\ failing \in [Regions -> Outcomes]
    /\ region \in 0 .. RegionCount /\ (phase # "reset" => region = 0)
    /\ phase = "reset" => resetType \in {"warm", "cold"}

(* The regions that were found lie at different places.                    *)
Placed ==
    /\ \A r \in Regions : r < Index => gSystemMemory[r] # Null
    /\ \A r, q \in Regions : gSystemMemory[r] = gSystemMemory[q] /\ gSystemMemory[r] # Null => r = q

(* Where the capsule that was left last is: in its region until that life  *)
(* ends; then, if the life's reset did its work, in the region's file or   *)
(* nowhere.                                                                *)
Left ==
    /\ CapsuleUpdateData # Null => staged # Null /\ CapsuleUpdateData = staged.base
    /\ staged # Null =>
         /\ staged.life <= lives
         /\ staged.life = lives /\ phase # "off" =>
              phase \in {"booted", "reset", "shutdown"} /\ memory[staged.region] = staged.capsule
         /\ staged.kept => /\ files[staged.region] \subseteq {staged.capsule, Null}
                           /\ memory[staged.region] \in {staged.capsule, Null}

(* What was coalesced, and what was handed on.                             *)
Found(c) ==
    /\ staged # Null
    /\ staged.kept /\ gSystemMemory[staged.region] = staged.base => c = staged.capsule
Carried ==
    /\ bootMode = "flashUpdate" /\ phase \in Scanned => CapsuleUpdateData # Null
    /\ capsule # Null => phase \in Carrying \cup {"after"} /\ Found(capsule)
    /\ applied # Null => phase = "after" /\ Found(applied)

(* Where the capsule is that the next boot has to find.                    *)
Saving ==
    /\ resetType = "warm" /\ failing[staged.region] = "fine" /\ staged.region < Index
    /\ memory[staged.region] = due
    /\ region <= staged.region \/ files[staged.region] = {due}
Here == gSystemMemory[staged.region] = staged.base /\ memory[staged.region] = due
Saved ==
    due # Null =>
      /\ staged # Null /\ due = staged.capsule /\ CapsuleUpdateData = staged.base
      /\ phase \notin {"after", "booted"}
      /\ phase = "reset" => Saving
      /\ phase # "reset" => files[staged.region] = {due}
      /\ phase \in Scanned => bootMode = "flashUpdate"
      /\ phase = "scan" /\ staged.region < Index => Here
      /\ phase = "coalesce" => Here /\ CapsuleSize[due] <= CapsuleBufferLength
      /\ phase \in Carrying => capsule = due

CapsuleInv == Types /\ Placed /\ Left /\ Carried /\ Saved

(* The exchange with the simulator belongs to the phase; while the answers *)
(* are read to their ends the streams hold what is left of the present     *)
(* one, and the simulator is where the firmware thinks it is.              *)
Known == Commands \cup Signals \cup {"Shutdown"}
Words == {w \in [word : {"length", "data", "status"}, of : Known] :
            w.word = "length" => w.of \notin Signals}
Quiet == [p \in Ports |-> <<>>]
Remains(n) ==
    LET answer == Answer(exchange.command)
    IN  stream = [Quiet EXCEPT ![PortOf(exchange.command)] = SubSeq(answer, n + 1, Len(answer))]

OfPhase ==
    \/ exchange = NoExchange
    \/ /\ exchange.at \in {"send", "length", "data", "status", "done", "failed"}
       /\ \/ phase = "power" /\ exchange.command \in {"PowerOn", "NvOn"}
          \/ phase = "booted" /\ exchange.command \in Commands
          \/ phase = "shutdown" /\ exchange.command \in {"Shutdown", "NvOff", "PowerOff"}
Exchanges == [command : Known \cup {Null},
              at : {"none", "send", "length", "data", "status", "done", "failed"},
              toSend : Nat, max : Nat, length : Nat, read : Seq(Words)]
ReadSoFar ==
    CASE exchange.at \in {"none", "send"} -> stream = Quiet /\ exchange.read = <<>>
      [] exchange.at = "length" -> exchange.command \notin Signals /\ Remains(0) /\ exchange.read = <<>>
      [] exchange.at = "data" ->
           /\ exchange.command \notin Signals /\ exchange.length = AnswerLength[exchange.command]
           /\ Len(exchange.read) < exchange.length
           /\ exchange.read = SubSeq(Data(exchange.command), 1, Len(exchange.read))
           /\ Remains(Len(exchange.read) + 1)
      [] exchange.at = "status" ->
           exchange.read = Data(exchange.command) /\ Remains(Len(Answer(exchange.command)) - 1)
      [] exchange.at = "done" -> exchange.read = Data(exchange.command) /\ stream = Quiet
      [] OTHER -> FALSE
InOrder ==
    /\ exchange.command = "Shutdown" /\ exchange.at \notin {"none", "send"} => sim.shut
    /\ exchange.command \in {"NvOff", "PowerOff"} /\ exchange.at # "none" => sim.shut
    /\ exchange.command = "NvOff" /\ exchange.at \notin {"none", "send"} => ~sim.nv
    /\ exchange.command = "PowerOff" /\ exchange.at # "none" => ~sim.nv
TpmInv ==
    /\ sim \in [power : BOOLEAN, nv : BOOLEAN, shut : BOOLEAN] /\ inStep \in BOOLEAN
    /\ stream \in [Ports -> Seq(Words)] /\ exchange \in Exchanges /\ OfPhase
    /\ inStep => ReadSoFar /\ InOrder

----------------------------------------------------------------------------
(* The capsule.                                                            *)
capsuleVars == <<lives, gSystemMemory, memory, files, bootMode, Index, CapsuleUpdateData,
                 capsule, applied, resetType, region, failing, staged, due>>

LEMMA StagedIs ==
    ASSUME CapsuleInv, staged # Null
    PROVE  /\ staged \in Stagings /\ staged.capsule \in Capsules /\ staged.region \in Regions
           /\ staged.base \in Bases /\ staged.life \in Nat /\ staged.kept \in BOOLEAN
BY DEF CapsuleInv, Types, Stagings

LEMMA RegionsAre == RegionCount \in Nat \ {0} /\ \A r \in Regions : r \in Nat /\ r < RegionCount
BY SecAssumption DEF Regions

LEMMA CapsuleInit == Init => CapsuleInv
<1> SUFFICES ASSUME Init PROVE CapsuleInv
  OBVIOUS
<1>1. Types
  BY RegionsAre DEF Init, Types, Phases, Content, Fine, Outcomes
<1>2. Placed /\ Left /\ Carried /\ Saved
  BY RegionsAre DEF Init, Placed, Left, Carried, Saved, Scanned, Carrying
<1> QED BY <1>1, <1>2 DEF CapsuleInv

(* A step that sees none of it, or goes on from one part of DXE to the     *)
(* next.                                                                   *)
LEMMA ElsewhereKeeps ==
    ASSUME CapsuleInv, UNCHANGED capsuleVars,
           \/ phase' = phase
           \/ phase \in {"size", "fvb", "power"} /\ phase' \in {"fvb", "power", "before"}
    PROVE  CapsuleInv'
<1>1. Types'
  BY DEF CapsuleInv, Types, Phases, capsuleVars
<1>2. Placed'
  BY DEF CapsuleInv, Placed, capsuleVars
<1>3. Left'
  BY DEF CapsuleInv, Left, capsuleVars
<1>4. Carried'
  BY DEF CapsuleInv, Carried, Found, Scanned, Carrying, capsuleVars
<1>5. Saved'
  BY DEF CapsuleInv, Saved, Saving, Here, Scanned, Carrying, capsuleVars
<1> QED BY <1>1, <1>2, <1>3, <1>4, <1>5 DEF CapsuleInv

(* SEC: the phase before the memory is scanned.                            *)
LEMMA SecKeeps ==
    ASSUME CapsuleInv, SecPhase
    PROVE  CapsuleInv'
<1>1. /\ phase \in {"off", "open", "load"} /\ phase' \in {"open", "load", "exit", "mode"}
      /\ lives' \in Nat /\ (lives' = lives \/ (lives' = lives + 1 /\ phase = "off"))
      /\ UNCHANGED <<gSystemMemory, memory, files, bootMode, Index, CapsuleUpdateData, capsule,
                     applied, resetType, region, failing, staged, due>>
  <2>1. lives \in Nat
    BY DEF CapsuleInv, Types
  <2>2. CASE SecMain
    BY <2>1, <2>2 DEF SecPhase, SecMain, peiVars, bootVars
  <2>3. CASE SecOpenFile
    BY <2>1, <2>3 DEF SecPhase, SecOpenFile, peiVars, bootVars
  <2>4. CASE SecLoadFromCore
    BY <2>1, <2>4 DEF SecPhase, SecLoadFromCore, peiVars, bootVars
  <2> QED BY <2>2, <2>3, <2>4 DEF SecPhase
<1>2. Types'
  BY <1>1 DEF CapsuleInv, Types, Phases
<1>3. Placed'
  BY <1>1 DEF CapsuleInv, Placed
<1>4. Left'
  <2>1. CapsuleUpdateData' # Null => staged' # Null /\ CapsuleUpdateData' = staged'.base
    BY <1>1 DEF CapsuleInv, Left
  <2>2. ASSUME staged # Null
        PROVE  staged.life <= lives' /\ ~(staged.life = lives')
    <3>1. staged.life \in Nat /\ lives \in Nat /\ staged.life <= lives
      BY <2>2, StagedIs DEF CapsuleInv, Types, Left
    <3>2. CASE lives' = lives + 1
      BY <3>1, <3>2
    <3>3. CASE lives' = lives /\ phase # "off"
      BY <1>1, <2>2, <3>1, <3>3 DEF CapsuleInv, Left
    <3>4. lives' = lives => phase # "off"
      BY <1>1, <3>1 DEF SecPhase, SecMain, SecOpenFile, SecLoadFromCore
    <3> QED BY <1>1, <3>2, <3>3, <3>4
  <2>3. staged # Null /\ staged.kept => /\ files[staged.region] \subseteq {staged.capsule, Null}
                                        /\ memory[staged.region] \in {staged.capsule, Null}
    BY DEF CapsuleInv, Left
  <2> QED BY <1>1, <2>1, <2>2, <2>3 DEF Left
<1>5. Carried'
  BY <1>1 DEF CapsuleInv, Carried, Found, Scanned, Carrying
<1>6. Saved'
  BY <1>1 DEF CapsuleInv, Saved, Scanned, Carrying
<1> QED BY <1>2, <1>3, <1>4, <1>5, <1>6 DEF CapsuleInv

(* PEI.  A capsule that is still due after a step has met nothing that     *)
(* excuses its loss.                                                       *)
LEMMA DueIs ==
    ASSUME CapsuleInv, PeiPhase
    PROVE  /\ due' \in Content
           /\ due' # Null =>
                /\ due' = due /\ bootMode' # "recovery"
                /\ phase' = "scan" /\ Index' = staged.region + 1 =>
                     /\ gSystemMemory'[staged.region] = staged.base
                     /\ due \in files[staged.region] => memory'[staged.region] = due
                /\ phase' = "coalesce" => staged.region < Index
                /\ CapsuleSize[due] <= CapsuleBufferLength
           /\ UNCHANGED <<lives, files, applied, resetType, region, failing, staged, CapsuleUpdateData>>
           /\ phase \in {"mode", "scan", "coalesce", "hobs"}
           /\ phase' \in {"scan", "coalesce", "hobs", "size"}
<1>1. due' = (IF due # Null /\ IsExcused THEN Null ELSE due)
  BY DEF PeiPhase, Excuse
<1>2. /\ UNCHANGED <<lives, files, applied, resetType, region, failing, staged, CapsuleUpdateData>>
      /\ phase \in {"mode", "scan", "coalesce", "hobs"}
      /\ phase' \in {"scan", "coalesce", "hobs", "size"}
  BY DEF PeiPhase, InitializeBootMode, ScanRegion, SecWinNtPeiAutoScan, ScanEnds, peiVars,
         Coalesce, PeimInitializeWinNtFwh, fvbVars, tpmVars
<1>3. ASSUME due' # Null
      PROVE  /\ due' = due /\ bootMode' # "recovery"
             /\ phase' = "scan" /\ Index' = staged.region + 1 =>
                  /\ gSystemMemory'[staged.region] = staged.base
                  /\ due \in files[staged.region] => memory'[staged.region] = due
             /\ phase' = "coalesce" => ~(Index <= staged.region)
             /\ ~(CapsuleSize[due] > CapsuleBufferLength)
  BY <1>1, <1>3 DEF IsExcused
<1>4. ASSUME due' # Null
      PROVE  /\ staged.region \in Nat /\ Index \in Nat
             /\ CapsuleSize[due] \in Nat /\ CapsuleBufferLength \in Int
  <2>1. due # Null /\ due \in Content /\ staged # Null /\ Index \in 0 .. RegionCount
    BY <1>3, <1>4 DEF CapsuleInv, Types, Saved
  <2>2. (RegionSize[0] - SmramSize) \div 2 \in Int
    BY PeiAssumption
  <2> QED BY <2>1, <2>2, StagedIs, RegionsAre, PeiAssumption DEF Content, CapsuleBufferLength
<1>5. due' \in Content
  BY <1>1 DEF CapsuleInv, Types, Content
<1> QED BY <1>2, <1>3, <1>4, <1>5

LEMMA ModeKeeps ==
    ASSUME CapsuleInv, PeiPhase, InitializeBootMode
    PROVE  CapsuleInv'
<1>1. /\ phase = "mode" /\ phase' = "scan" /\ Index' = 0
      /\ UNCHANGED <<lives, gSystemMemory, memory, files, CapsuleUpdateData, capsule,
                     applied, resetType, region, failing, staged>>
      /\ bootMode' = "flashUpdate" => CapsuleUpdateData # Null
      /\ CapsuleUpdateData # Null => bootMode' \in {"recovery", "flashUpdate"}
  BY DueIs DEF InitializeBootMode, CheckUpdateCapsule
<1>2. Types'
  BY <1>1, DueIs, RegionsAre DEF CapsuleInv, Types, Phases
<1>3. Placed'
  BY <1>1, RegionsAre DEF CapsuleInv, Placed
<1>4. Left'
  BY <1>1 DEF CapsuleInv, Left
<1>5. Carried'
  BY <1>1 DEF CapsuleInv, Carried, Scanned, Carrying
<1>6. Saved'
  <2> SUFFICES ASSUME due' # Null PROVE Saved'
    BY DEF Saved
  <2>1. /\ due' = due /\ staged # Null /\ due = staged.capsule /\ CapsuleUpdateData = staged.base
        /\ files[staged.region] = {due} /\ bootMode' # "recovery"
    BY <1>1, DueIs DEF CapsuleInv, Saved
  <2>2. CapsuleUpdateData # Null
    BY <2>1, StagedIs, SecAssumption
  <2>3. staged.region \in Nat
    BY <2>1, StagedIs, RegionsAre
  <2> QED BY <1>1, <2>1, <2>2, <2>3 DEF Saved, Scanned, Carrying
<1> QED BY <1>2, <1>3, <1>4, <1>5, <1>6 DEF CapsuleInv

LEMMA ScanKeeps ==
    ASSUME CapsuleInv, PeiPhase, ScanRegion
    PROVE  CapsuleInv'
<1>1. /\ phase = "scan" /\ phase' = "scan" /\ Index < RegionCount /\ Index' = Index + 1
      /\ UNCHANGED <<lives, files, bootMode, CapsuleUpdateData, capsule, applied, resetType,
                     region, failing, staged>>
  BY DueIs DEF ScanRegion, SecWinNtPeiAutoScan
<1>2. PICK base \in Bases \ {gSystemMemory[r] : r \in Regions} :
        gSystemMemory' = [gSystemMemory EXCEPT ![Index] = base]
  BY DEF ScanRegion, SecWinNtPeiAutoScan
<1>3. PICK content \in files[Index] \cup {Null} : memory' = [memory EXCEPT ![Index] = content]
  BY DEF ScanRegion, SecWinNtPeiAutoScan
<1>4. Index \in Regions /\ Index \in Nat /\ Null \notin Bases
  BY <1>1, RegionsAre, SecAssumption DEF CapsuleInv, Types, Regions
<1>5. /\ gSystemMemory \in [Regions -> Bases \cup {Null}] /\ memory \in [Regions -> Content]
      /\ files[Index] \subseteq Content /\ Null \in Content
  BY <1>4 DEF CapsuleInv, Types, Content
<1>6. /\ gSystemMemory'[Index] = base /\ memory'[Index] = content
      /\ \A r \in Regions \ {Index} : gSystemMemory'[r] = gSystemMemory[r] /\ memory'[r] = memory[r]
  BY <1>2, <1>3, <1>4, <1>5
<1>7. Types'
  <2>1. gSystemMemory' \in [Regions -> Bases \cup {Null}] /\ memory' \in [Regions -> Content]
    BY <1>2, <1>3, <1>5
  <2>2. Index' \in 0 .. RegionCount
    BY <1>1, <1>4, RegionsAre
  <2> QED BY <1>1, <2>1, <2>2, DueIs DEF CapsuleInv, Types
<1>8. Placed'
  <2>1. \A r \in Regions : r < Index' => gSystemMemory'[r] # Null
    BY <1>1, <1>2, <1>4, <1>6, RegionsAre DEF CapsuleInv, Placed
  <2>2. \A r \in Regions : gSystemMemory[r] # base
    BY <1>2
  <2> QED BY <1>6, <2>1, <2>2 DEF CapsuleInv, Placed
<1>9. Left'
  <2> SUFFICES ASSUME staged # Null, staged.kept
               PROVE  memory'[staged.region] \in {staged.capsule, Null}
    BY <1>1 DEF CapsuleInv, Left
  <2>1. /\ files[staged.region] \subseteq {staged.capsule, Null}
        /\ memory[staged.region] \in {staged.capsule, Null} /\ staged.region \in Regions
    BY StagedIs DEF CapsuleInv, Left
  <2> QED BY <1>3, <1>6, <2>1
<1>10. Carried'
  BY <1>1 DEF CapsuleInv, Carried, Scanned, Carrying
<1>11. Saved'
  <2> SUFFICES ASSUME due' # Null PROVE Saved'
    BY DEF Saved
  <2>1. /\ due' = due /\ staged # Null /\ due = staged.capsule /\ CapsuleUpdateData = staged.base
        /\ files[staged.region] = {due} /\ bootMode = "flashUpdate"
        /\ staged.region < Index => Here
    BY <1>1, DueIs DEF CapsuleInv, Saved, Scanned
  <2>2. staged.region \in Regions /\ staged.region \in Nat
    BY <2>1, StagedIs, RegionsAre
  <2>3. staged.region < Index' => Here'
    <3>1. CASE staged.region = Index
      <4>1. gSystemMemory'[staged.region] = staged.base /\ memory'[staged.region] = due
        BY <1>1, <2>1, <3>1, DueIs
      <4> QED BY <1>1, <2>1, <4>1 DEF Here
    <3>2. CASE staged.region # Index
      <4>1. staged.region < Index' => staged.region < Index
        BY <1>1, <1>4, <2>2, <3>2
      <4> QED BY <1>1, <1>6, <2>1, <2>2, <3>2, <4>1 DEF Here
    <3> QED BY <3>1, <3>2
  <2> QED BY <1>1, <2>1, <2>3 DEF Saved, Scanned, Carrying
<1> QED BY <1>7, <1>8, <1>9, <1>10, <1>11 DEF CapsuleInv

LEMMA ScanEndsKeeps ==
    ASSUME CapsuleInv, PeiPhase, ScanEnds
    PROVE  CapsuleInv'
<1>1. /\ phase = "scan" /\ phase' = "coalesce"
      /\ UNCHANGED <<lives, gSystemMemory, memory, files, bootMode, Index, CapsuleUpdateData,
                     capsule, applied, resetType, region, failing, staged>>
  BY DueIs DEF ScanEnds, peiVars
<1>2. Types'
  BY <1>1, DueIs DEF CapsuleInv, Types, Phases
<1>3. Placed'
  BY <1>1 DEF CapsuleInv, Placed
<1>4. Left'
  BY <1>1 DEF CapsuleInv, Left
<1>5. Carried'
  BY <1>1 DEF CapsuleInv, Carried, Scanned, Carrying
<1>6. Saved'
  <2> SUFFICES ASSUME due' # Null PROVE Saved'
    BY DEF Saved
  <2>1. due' = due /\ staged.region < Index /\ CapsuleSize[due] <= CapsuleBufferLength
    BY <1>1, DueIs
  <2>2. due # Null /\ Here
    BY <1>1, <2>1 DEF CapsuleInv, Saved
  <2>3. Here' /\ CapsuleBufferLength' = CapsuleBufferLength
    BY <1>1, <2>1, <2>2 DEF Here, CapsuleBufferLength
  <2> QED BY <1>1, <2>1, <2>2, <2>3 DEF CapsuleInv, Saved, Scanned, Carrying
<1> QED BY <1>2, <1>3, <1>4, <1>5, <1>6 DEF CapsuleInv

(* At the place the variable points to lies what its region holds.         *)
LEMMA CoalescedIs ==
    ASSUME CapsuleInv, NEW c \in Coalesced, CapsuleUpdateData # Null
    PROVE  /\ c \in Capsules /\ staged # Null
           /\ gSystemMemory[staged.region] = staged.base => c = memory[staged.region]
<1>1. PICK q \in Regions : gSystemMemory[q] = CapsuleUpdateData /\ memory[q] # Null /\ c = memory[q]
  BY DEF Coalesced
<1>2. staged # Null /\ CapsuleUpdateData = staged.base
  BY DEF CapsuleInv, Left
<1>3. staged.region \in Regions
  BY <1>2, StagedIs
<1> QED BY <1>1, <1>2, <1>3 DEF CapsuleInv, Types, Content, Placed

LEMMA CoalesceKeeps ==
    ASSUME CapsuleInv, PeiPhase, Coalesce
    PROVE  CapsuleInv'
<1>1. /\ phase = "coalesce" /\ phase' = "hobs"
      /\ UNCHANGED <<lives, gSystemMemory, memory, files, bootMode, Index, CapsuleUpdateData,
                     applied, resetType, region, failing, staged>>
      /\ capsule' = IF bootMode = "flashUpdate" /\ Coalesced # {}
                      THEN CHOOSE c \in Coalesced : TRUE ELSE Null
  BY DueIs DEF Coalesce
<1>2. capsule' # Null => bootMode = "flashUpdate" /\ capsule' \in Coalesced
  BY <1>1
<1>3. bootMode = "flashUpdate" => CapsuleUpdateData # Null
  BY <1>1 DEF CapsuleInv, Carried, Scanned
<1>4. Types'
  <2>1. capsule' \in Content
    BY <1>2, <1>3, CoalescedIs DEF Content
  <2> QED BY <1>1, <2>1, DueIs DEF CapsuleInv, Types, Phases
<1>5. Placed'
  BY <1>1 DEF CapsuleInv, Placed
<1>6. Left'
  BY <1>1 DEF CapsuleInv, Left
<1>7. Carried'
  <2>1. applied = Null
    BY <1>1 DEF CapsuleInv, Carried
  <2>2. ASSUME capsule' # Null PROVE Found(capsule)'
    <3>1. capsule' \in Coalesced /\ CapsuleUpdateData # Null
      BY <1>2, <1>3, <2>2
    <3>2. /\ capsule' \in Capsules /\ staged # Null
          /\ gSystemMemory[staged.region] = staged.base => capsule' = memory[staged.region]
      BY <3>1, CoalescedIs
    <3>3. staged.kept => memory[staged.region] \in {staged.capsule, Null}
      BY <3>2 DEF CapsuleInv, Left
    <3> QED BY <1>1, <3>2, <3>3, SecAssumption DEF Found
  <2> QED BY <1>1, <1>3, <2>1, <2>2 DEF Carried, Carrying
<1>8. Saved'
  <2> SUFFICES ASSUME due' # Null PROVE Saved'
    BY DEF Saved
  <2>1. /\ due' = due /\ staged # Null /\ due = staged.capsule /\ CapsuleUpdateData = staged.base
        /\ files[staged.region] = {due} /\ bootMode = "flashUpdate" /\ Here
        /\ CapsuleSize[due] <= CapsuleBufferLength
    BY <1>1, DueIs DEF CapsuleInv, Saved, Scanned
  <2>2. due \in Coalesced
    BY <2>1, StagedIs DEF Coalesced, Here
  <2>3. capsule' \in Coalesced
    BY <1>1, <2>1, <2>2
  <2>4. capsule' = due
    BY <1>3, <2>1, <2>3, CoalescedIs DEF Here
  <2> QED BY <1>1, <2>1, <2>4 DEF Saved, Scanned, Carrying
<1> QED BY <1>4, <1>5, <1>6, <1>7, <1>8 DEF CapsuleInv

LEMMA HobsKeeps ==
    ASSUME CapsuleInv, PeiPhase, PeimInitializeWinNtFwh
    PROVE  CapsuleInv'
<1>1. /\ phase = "hobs" /\ phase' = "size"
      /\ UNCHANGED <<lives, gSystemMemory, memory, files, bootMode, Index, CapsuleUpdateData,
                     capsule, applied, resetType, region, failing, staged>>
  BY DueIs DEF PeimInitializeWinNtFwh
<1>2. Types'
  BY <1>1, DueIs DEF CapsuleInv, Types, Phases
<1>3. Placed'
  BY <1>1 DEF CapsuleInv, Placed
<1>4. Left'
  BY <1>1 DEF CapsuleInv, Left
<1>5. Carried'
  BY <1>1 DEF CapsuleInv, Carried, Found, Scanned, Carrying
<1>6. Saved'
  BY <1>1, DueIs DEF CapsuleInv, Saved, Scanned, Carrying
<1> QED BY <1>2, <1>3, <1>4, <1>5, <1>6 DEF CapsuleInv

LEMMA PeiKeeps ==
    ASSUME CapsuleInv, PeiPhase
    PROVE  CapsuleInv'
BY ModeKeeps, ScanKeeps, ScanEndsKeeps, CoalesceKeeps, HobsKeeps DEF PeiPhase

(* The boot manager, and what an application and a reset do.               *)
LEMMA BeforeKeeps ==
    ASSUME CapsuleInv, PlatformBootManagerBeforeConsole
    PROVE  CapsuleInv'
<1>1. /\ phase = "before" /\ phase' = "after"
      /\ IF bootMode = "flashUpdate" THEN applied' = capsule /\ CapsuleUpdateData' = Null
         ELSE UNCHANGED <<applied, CapsuleUpdateData>>
      /\ due' = (IF applied' = due THEN Null ELSE due)
      /\ UNCHANGED <<lives, gSystemMemory, memory, files, bootMode, Index, capsule,
                     resetType, region, failing, staged>>
  BY DEF PlatformBootManagerBeforeConsole
<1>2. Types'
  BY <1>1 DEF CapsuleInv, Types, Phases, Content
<1>3. Placed'
  BY <1>1 DEF CapsuleInv, Placed
<1>4. Left'
  BY <1>1 DEF CapsuleInv, Left
<1>5. Carried'
  BY <1>1 DEF CapsuleInv, Carried, Found, Scanned, Carrying
<1>6. due' = Null
  <2>1. due # Null => bootMode = "flashUpdate" /\ capsule = due
    BY <1>1 DEF CapsuleInv, Saved, Scanned, Carrying
  <2> QED BY <1>1, <2>1
<1>7. Saved'
  BY <1>6 DEF Saved
<1> QED BY <1>2, <1>3, <1>4, <1>5, <1>7 DEF CapsuleInv

LEMMA AfterKeeps ==
    ASSUME CapsuleInv, PlatformBootManagerAfterConsole
    PROVE  CapsuleInv'
<1>1. /\ phase = "after" /\ phase' \in {"booted", "reset"} /\ applied' = Null /\ capsule' = Null
      /\ phase' = "reset" => resetType' = "cold" /\ failing' \in Refusals
      /\ phase' = "booted" => failing' = failing
      /\ UNCHANGED <<lives, gSystemMemory, memory, files, bootMode, Index, CapsuleUpdateData,
                     region, staged, due>>
  BY DEF PlatformBootManagerAfterConsole
<1>2. Types'
  BY <1>1, BootAssumption DEF CapsuleInv, Types, Phases, Content
<1>3. Placed'
  BY <1>1 DEF CapsuleInv, Placed
<1>4. Left'
  BY <1>1 DEF CapsuleInv, Left
<1>5. Carried'
  BY <1>1 DEF Carried, Scanned, Carrying
<1>6. Saved'
  BY <1>1 DEF CapsuleInv, Saved
<1> QED BY <1>2, <1>3, <1>4, <1>5, <1>6 DEF CapsuleInv

LEMMA StageKeeps ==
    ASSUME CapsuleInv, StageCapsule
    PROVE  CapsuleInv'
<1>1. PICK c \in Capsules, r \in 0 .. Index - 1 :
        /\ memory' = [memory EXCEPT ![r] = c] /\ CapsuleUpdateData' = gSystemMemory[r]
        /\ staged' = [capsule |-> c, region |-> r, base |-> gSystemMemory[r],
                      life |-> lives, kept |-> FALSE]
  BY DEF StageCapsule
<1>2. /\ phase = "booted"
      /\ UNCHANGED <<lives, phase, gSystemMemory, files, bootMode, Index, capsule,
                     applied, resetType, region, failing, due>>
  BY DEF StageCapsule
<1>3. r \in Regions /\ r < Index
  BY <1>1, RegionsAre DEF CapsuleInv, Types, Regions
<1>4. gSystemMemory[r] \in Bases /\ gSystemMemory[r] # Null
  BY <1>3 DEF CapsuleInv, Types, Placed
<1>5. staged' \in Stagings /\ staged' # Null
  <2>1. lives \in Nat /\ c \in Capsules /\ FALSE \in BOOLEAN
    BY DEF CapsuleInv, Types
  <2>2. staged' \in Stagings
    BY <1>1, <1>3, <1>4, <2>1 DEF Stagings
  <2> QED BY <2>2, StagingAssumption
<1>6. /\ staged'.capsule = c /\ staged'.region = r /\ staged'.base = gSystemMemory[r]
      /\ staged'.life = lives /\ ~staged'.kept /\ memory'[r] = c
  BY <1>1, <1>3 DEF CapsuleInv, Types
<1>7. Types'
  <2>1. memory' \in [Regions -> Content] /\ CapsuleUpdateData' \in Bases \cup {Null}
    BY <1>1, <1>4 DEF CapsuleInv, Types, Content
  <2> QED BY <1>2, <1>5, <2>1 DEF CapsuleInv, Types
<1>8. Placed'
  BY <1>2 DEF CapsuleInv, Placed
<1>9. Left'
  BY <1>1, <1>2, <1>5, <1>6 DEF CapsuleInv, Types, Left
<1>10. Carried'
  BY <1>2 DEF CapsuleInv, Carried, Scanned, Carrying
<1>11. Saved'
  BY <1>2 DEF CapsuleInv, Saved
<1> QED BY <1>7, <1>8, <1>9, <1>10, <1>11 DEF CapsuleInv

LEMMA RequestKeeps ==
    ASSUME CapsuleInv, RequestReset
    PROVE  CapsuleInv'
<1>1. /\ phase = "booted" /\ phase' = "reset"
      /\ resetType' \in {"warm", "cold"} /\ failing' \in Refusals
      /\ due' = IF /\ resetType' = "warm" /\ CapsuleUpdateData # Null
                   /\ memory[staged.region] = staged.capsule
                   /\ staged.region < Index /\ failing'[staged.region] = "fine"
                  THEN staged.capsule ELSE Null
      /\ UNCHANGED <<lives, gSystemMemory, memory, files, bootMode, Index, CapsuleUpdateData,
                     capsule, applied, region, staged>>
  BY DEF RequestReset, peiVars
<1>2. due' # Null =>
        /\ resetType' = "warm" /\ staged # Null /\ CapsuleUpdateData = staged.base
        /\ memory[staged.region] = staged.capsule /\ due' = staged.capsule
        /\ staged.region < Index /\ failing'[staged.region] = "fine"
  BY <1>1 DEF CapsuleInv, Left
<1>3. Types'
  <2>1. due' \in Content
    BY <1>2, StagedIs DEF Content
  <2> QED BY <1>1, <2>1, BootAssumption DEF CapsuleInv, Types, Phases
<1>4. Placed'
  BY <1>1 DEF CapsuleInv, Placed
<1>5. Left'
  BY <1>1 DEF CapsuleInv, Left
<1>6. Carried'
  BY <1>1 DEF CapsuleInv, Carried, Scanned, Carrying
<1>7. Saved'
  <2> SUFFICES ASSUME due' # Null PROVE Saved'
    BY DEF Saved
  <2>1. region <= staged.region
    BY <1>1, <1>2, StagedIs, RegionsAre DEF CapsuleInv, Types
  <2>2. Saving'
    BY <1>1, <1>2, <2>1 DEF Saving
  <2> QED BY <1>1, <1>2, <2>2 DEF Saved, Scanned, Carrying
<1> QED BY <1>3, <1>4, <1>5, <1>6, <1>7 DEF CapsuleInv

(* The process ends.                                                       *)
LEMMA ForgetKeeps ==
    ASSUME CapsuleInv, Forget, due' \in {due, Null}, phase = "reset" => due' = Null,
           phase \in {"after", "booted"} => due = Null
    PROVE  CapsuleInv'
<1>1. /\ phase' = "off" /\ Index' = 0 /\ capsule' = Null /\ applied' = Null /\ region' = 0
      /\ bootMode' = Null /\ failing' = Fine
      /\ gSystemMemory' = [r \in Regions |-> Null] /\ memory' = [r \in Regions |-> Null]
      /\ UNCHANGED <<lives, files, CapsuleUpdateData, staged>>
  BY DEF Forget, Vanish
<1>2. Types'
  BY <1>1, RegionsAre DEF CapsuleInv, Types, Phases, Content, Fine, Outcomes
<1>3. Placed'
  BY <1>1, RegionsAre DEF Placed
<1>4. Left'
  BY <1>1, StagedIs DEF CapsuleInv, Left
<1>5. Carried'
  BY <1>1 DEF Carried, Scanned, Carrying
<1>6. Saved'
  BY <1>1 DEF CapsuleInv, Saved, Scanned, Carrying
<1> QED BY <1>2, <1>3, <1>4, <1>5, <1>6 DEF CapsuleInv

(* The loop over the regions' files.                                       *)
LEMMA OutcomeIs ==
    ASSUME CapsuleInv, phase = "reset", region \in Regions, NEW f \in Outcome
    PROVE  /\ f \subseteq Content /\ f \subseteq files[region] \cup {memory[region], Null}
           /\ failing[region] = "fine" /\ resetType = "warm" => f = {memory[region]}
           /\ failing[region] = "fine" /\ resetType = "cold" => f = {}
<1>1. /\ failing[region] \in Outcomes /\ resetType \in {"warm", "cold"}
      /\ files[region] \subseteq Content /\ memory[region] \in Content /\ Null \in Content
  BY DEF CapsuleInv, Types, Content
<1>2. CASE failing[region] = "noOpen"
  BY <1>1, <1>2 DEF Outcome
<1>3. CASE failing[region] = "fine"
  BY <1>1, <1>3 DEF Outcome, DeleteFile
<1>4. CASE failing[region] = "noWrite"
  BY <1>1, <1>4 DEF Outcome
<1> QED BY <1>1, <1>2, <1>3, <1>4 DEF Outcomes

LEMMA SaveKeeps ==
    ASSUME CapsuleInv, WinNtResetSystem, region < Index
    PROVE  CapsuleInv'
<1>1. /\ phase = "reset" /\ region' = region + 1
      /\ UNCHANGED <<lives, phase, gSystemMemory, memory, bootMode, Index, CapsuleUpdateData,
                     capsule, applied, resetType, failing, due>>
      /\ \/ staged' = staged
         \/ /\ staged # Null /\ staged.region = region /\ staged.life = lives
            /\ failing[region] = "fine" /\ staged' = [staged EXCEPT !.kept = TRUE]
  <2>1. region # Index
    BY DEF CapsuleInv, Types
  <2> QED BY <2>1 DEF WinNtResetSystem, SkipRegion, peiVars
<1>2. PICK f \in Outcome : files' = [files EXCEPT ![region] = f]
  BY DEF WinNtResetSystem, CapsuleInv, Types
<1>3. region \in Regions /\ region \in Nat /\ Index \in Nat /\ Index <= RegionCount
  BY RegionsAre DEF CapsuleInv, Types, Regions
<1>4. /\ f \subseteq Content /\ f \subseteq files[region] \cup {memory[region], Null}
      /\ failing[region] = "fine" /\ resetType = "warm" => f = {memory[region]}
      /\ failing[region] = "fine" /\ resetType = "cold" => f = {}
      /\ resetType \in {"warm", "cold"}
  BY <1>1, <1>3, OutcomeIs DEF CapsuleInv, Types
<1>5. /\ files' \in [Regions -> SUBSET Content] /\ files'[region] = f
      /\ \A r \in Regions \ {region} : files'[r] = files[r]
  BY <1>2, <1>3, <1>4 DEF CapsuleInv, Types
<1>6. /\ staged' \in Stagings \cup {Null} /\ (staged' = Null <=> staged = Null)
      /\ staged # Null => /\ staged'.capsule = staged.capsule /\ staged'.region = staged.region
                          /\ staged'.base = staged.base /\ staged'.life = staged.life
      /\ staged # Null /\ staged'.kept =>
           staged.kept \/ (staged.region = region /\ staged.life = lives /\ failing[region] = "fine")
  <2>1. CASE staged' = staged
    BY <2>1 DEF CapsuleInv, Types
  <2>2. CASE /\ staged # Null /\ staged.region = region /\ staged.life = lives
             /\ failing[region] = "fine" /\ staged' = [staged EXCEPT !.kept = TRUE]
    <3>1. staged \in Stagings
      BY <2>2, StagedIs
    <3>2. staged' \in Stagings
      BY <2>2, <3>1 DEF Stagings
    <3>3. /\ staged'.capsule = staged.capsule /\ staged'.region = staged.region
          /\ staged'.base = staged.base /\ staged'.life = staged.life
      BY <2>2, <3>1 DEF Stagings
    <3> QED BY <2>2, <3>2, <3>3, StagingAssumption
  <2> QED BY <1>1, <2>1, <2>2
<1>7. Types'
  <2>1. region' \in 0 .. RegionCount
    BY <1>1, <1>3, RegionsAre
  <2> QED BY <1>1, <1>5, <1>6, <2>1 DEF CapsuleInv, Types
<1>8. Placed'
  BY <1>1 DEF CapsuleInv, Placed
<1>9. Left'
  <2>1. ASSUME staged # Null, staged'.kept
        PROVE  /\ files'[staged.region] \subseteq {staged.capsule, Null}
               /\ memory[staged.region] \in {staged.capsule, Null}
    <3>1. staged.region \in Regions
      BY <2>1, StagedIs
    <3>2. CASE staged.kept
      <4>1. /\ files[staged.region] \subseteq {staged.capsule, Null}
            /\ memory[staged.region] \in {staged.capsule, Null}
        BY <2>1, <3>2 DEF CapsuleInv, Left
      <4> QED BY <1>4, <1>5, <3>1, <4>1
    <3>3. CASE staged.region = region /\ staged.life = lives /\ failing[region] = "fine"
      <4>1. memory[region] = staged.capsule
        BY <1>1, <2>1, <3>3 DEF CapsuleInv, Left
      <4> QED BY <1>4, <1>5, <3>3, <4>1
    <3> QED BY <1>6, <2>1, <3>2, <3>3
  <2>2. staged # Null =>
          /\ staged.life <= lives
          /\ staged.life = lives => memory[staged.region] = staged.capsule
    BY <1>1 DEF CapsuleInv, Left
  <2>3. CapsuleUpdateData # Null => staged # Null /\ CapsuleUpdateData = staged.base
    BY DEF CapsuleInv, Left
  <2> QED BY <1>1, <1>6, <2>1, <2>2, <2>3 DEF Left
<1>10. Carried'
  BY <1>1 DEF CapsuleInv, Carried, Scanned, Carrying
<1>11. Saved'
  <2> SUFFICES ASSUME due # Null PROVE Saved'
    BY <1>1 DEF Saved
  <2>1. staged # Null /\ due = staged.capsule /\ CapsuleUpdateData = staged.base /\ Saving
    BY <1>1 DEF CapsuleInv, Saved
  <2>2. staged.region \in Regions /\ staged.region \in Nat
    BY <2>1, StagedIs, RegionsAre
  <2>3. region' <= staged.region \/ files'[staged.region] = {due}
    <3>1. CASE staged.region = region
      BY <1>4, <1>5, <2>1, <3>1 DEF Saving
    <3>2. CASE staged.region # region
      BY <1>1, <1>3, <1>5, <2>1, <2>2, <3>2 DEF Saving
    <3> QED BY <3>1, <3>2
  <2>4. Saving'
    BY <1>1, <1>6, <2>1, <2>3 DEF Saving
  <2> QED BY <1>1, <1>6, <2>1, <2>4 DEF Saved, Scanned, Carrying
<1> QED BY <1>7, <1>8, <1>9, <1>10, <1>11 DEF CapsuleInv

LEMMA EndOfResetKeeps ==
    ASSUME CapsuleInv, WinNtResetSystem, ~(region < Index)
    PROVE  CapsuleInv'
<1>1. /\ phase = "reset" /\ region = Index /\ phase' = "shutdown" /\ region' = 0 /\ failing' = Fine
      /\ UNCHANGED <<lives, gSystemMemory, memory, files, bootMode, Index, CapsuleUpdateData,
                     capsule, applied, staged, due>>
  BY DEF WinNtResetSystem, peiVars
<1>2. Types'
  BY <1>1, RegionsAre DEF CapsuleInv, Types, Phases, Fine, Outcomes
<1>3. Placed'
  BY <1>1 DEF CapsuleInv, Placed
<1>4. Left'
  BY <1>1 DEF CapsuleInv, Left
<1>5. Carried'
  BY <1>1 DEF CapsuleInv, Carried, Scanned, Carrying
<1>6. Saved'
  <2>1. due # Null => staged.region \in Nat
    BY StagedIs, RegionsAre DEF CapsuleInv, Saved
  <2>2. due # Null => files[staged.region] = {due}
    BY <1>1, <2>1 DEF CapsuleInv, Types, Saved, Saving
  <2> QED BY <1>1, <2>2 DEF CapsuleInv, Saved, Scanned, Carrying
<1> QED BY <1>2, <1>3, <1>4, <1>5, <1>6 DEF CapsuleInv

(* What DXE and the TPM do is elsewhere.                                   *)
LEMMA DxeIs ==
    ASSUME DxePhase \/ Shutdown
    PROVE  /\ UNCHANGED capsuleVars
           /\ \/ phase' = phase
              \/ phase \in {"size", "fvb", "power"} /\ phase' \in {"fvb", "power", "before"}
<1>1. CASE FvbInitialize /\ UNCHANGED bootVars
  BY <1>1 DEF FvbInitialize, bootVars, capsuleVars
<1>2. CASE CreateTpmSocket /\ UNCHANGED bootVars
  BY <1>2 DEF CreateTpmSocket, bootVars, capsuleVars, peiVars
<1>3. CASE Tpm2SubmitCommand /\ UNCHANGED bootVars
  BY <1>3 DEF Tpm2SubmitCommand, bootVars, capsuleVars, secVars, peiVars
<1>4. CASE UNCHANGED <<secVars, peiVars, bootVars>>
  BY <1>4 DEF bootVars, capsuleVars, secVars, peiVars
<1> QED BY <1>1, <1>2, <1>3, <1>4 DEF DxePhase, Shutdown

LEMMA CapsuleNext == CapsuleInv /\ [Next]_vars => CapsuleInv'
<1> SUFFICES ASSUME CapsuleInv, [Next]_vars PROVE CapsuleInv'
  OBVIOUS
<1>1. CASE DxePhase \/ Shutdown
  BY <1>1, DxeIs, ElsewhereKeeps
<1>2. CASE UNCHANGED vars
  BY <1>2, ElsewhereKeeps DEF vars, secVars, peiVars, bootVars, capsuleVars
<1>3. CASE Exit \/ ExitProcess \/ PeiResetSystem \/ Die
  <2>1. Forget
    BY <1>3 DEF Exit, ExitProcess, PeiResetSystem, Die
  <2>2. due' \in {due, Null} /\ (phase = "reset" => due' = Null)
    BY <1>3 DEF Exit, ExitProcess, PeiResetSystem, Die
  <2>3. phase \in {"after", "booted"} => due = Null
    BY DEF CapsuleInv, Saved
  <2> QED BY <2>1, <2>2, <2>3, ForgetKeeps
<1>4. CASE SecPhase \/ PeiPhase \/ PlatformBootManagerBeforeConsole
             \/ PlatformBootManagerAfterConsole \/ StageCapsule \/ RequestReset \/ WinNtResetSystem
  BY <1>4, SecKeeps, PeiKeeps, BeforeKeeps, AfterKeeps, StageKeeps, RequestKeeps,
     SaveKeeps, EndOfResetKeeps
<1> QED BY <1>1, <1>2, <1>3, <1>4 DEF Next

LEMMA CapsuleAlways == Spec => []CapsuleInv
BY CapsuleInit, CapsuleNext, PTL DEF Spec

(* A capsule that is applied is the one that was left last, if that life's *)
(* reset could do its work on the region's file and the region is at the   *)
(* same place again: over any number of lives that end anywhere.           *)
THEOREM StagedIsWhatIsApplied == Spec => []AppliedIsStaged
<1>1. CapsuleInv => AppliedIsStaged
  BY DEF CapsuleInv, Carried, Found, AppliedIsStaged
<1> QED BY <1>1, CapsuleAlways, PTL

(* A capsule that a warm reset had to save is applied by the next boot     *)
(* that comes to the console, whatever ends the ones before.               *)
THEOREM CapsuleReachesConsole == Spec => []StagedIsApplied
<1>1. CapsuleInv => StagedIsApplied
  BY DEF CapsuleInv, Saved, StagedIsApplied
<1> QED BY <1>1, CapsuleAlways, PTL

----------------------------------------------------------------------------
(* The TPM.                                                                *)
LEMMA AnswerIs ==
    ASSUME NEW c \in Known
    PROVE  /\ c \in Signals => Data(c) = <<>> /\ Answer(c) = <<Word("status", c)>>
           /\ c \notin Signals =>
                /\ AnswerLength[c] \in Nat /\ Len(Data(c)) = AnswerLength[c]
                /\ Len(Answer(c)) = AnswerLength[c] + 2
                /\ Answer(c)[1] = Word("length", c)
                /\ \A i \in 1 .. AnswerLength[c] : Answer(c)[i + 1] = Data(c)[i]
           /\ Data(c) \in Seq(Words) /\ Answer(c) \in Seq(Words) /\ Len(Answer(c)) \in Nat \ {0}
<1>1. /\ Word("status", c) \in Words /\ Word("data", c) \in Words
      /\ c \notin Signals => Word("length", c) \in Words
  BY DEF Word, Words
<1>2. CASE c \in Signals
  <2>1. Data(c) = <<>> /\ <<>> \in Seq(Words)
    BY <1>2, EmptySeq DEF Data
  <2>2. <<Word("status", c)>> \in Seq(Words) /\ Len(<<Word("status", c)>>) = 1
    BY <1>1
  <2>3. Answer(c) = <<Word("status", c)>>
    BY <1>2, <2>1, <2>2, ConcatEmptySeq DEF Answer
  <2> QED BY <1>2, <2>1, <2>2, <2>3
<1>3. CASE c \notin Signals
  <2> DEFINE n == AnswerLength[c]
             first == <<Word("length", c)>>
             last == <<Word("status", c)>>
  <2>1. n \in Nat
    BY <1>3, TpmAssumption DEF Known
  <2>2. Data(c) = [i \in 1 .. n |-> Word("data", c)]
    BY <1>3 DEF Data
  <2>3. Data(c) \in Seq(Words) /\ Len(Data(c)) = n
    BY <1>1, <2>1, <2>2
  <2>4. /\ first \in Seq(Words) /\ Len(first) = 1 /\ first[1] = Word("length", c)
        /\ last \in Seq(Words) /\ Len(last) = 1
    BY <1>1, <1>3
  <2>5. Answer(c) = (first \o Data(c)) \o last
    BY <1>3 DEF Answer
  <2> HIDE DEF n, first, last
  <2>6. /\ first \o Data(c) \in Seq(Words) /\ Len(first \o Data(c)) = n + 1
        /\ (first \o Data(c))[1] = Word("length", c)
        /\ \A i \in 1 .. n : (first \o Data(c))[i + 1] = Data(c)[i]
    <3> DEFINE d == Data(c)
    <3> HIDE DEF d
    <3>1. /\ first \o d \in Seq(Words) /\ Len(first \o d) = Len(first) + Len(d)
          /\ \A i \in 1 .. Len(first) + Len(d) :
               (first \o d)[i] = IF i <= Len(first) THEN first[i] ELSE d[i - Len(first)]
      BY <2>3, <2>4, ConcatProperties DEF d
    <3>2. Len(d) = n /\ Len(first) = 1
      BY <2>3, <2>4 DEF d
    <3>3. \A i \in 1 .. n : (first \o d)[i + 1] = d[i]
      BY <2>1, <3>1, <3>2
    <3> QED BY <2>1, <2>4, <3>1, <3>2, <3>3 DEF d
  <2>7. /\ Answer(c) \in Seq(Words) /\ Len(Answer(c)) = n + 2
        /\ Answer(c)[1] = Word("length", c)
        /\ \A i \in 1 .. n : Answer(c)[i + 1] = Data(c)[i]
    <3> DEFINE most == first \o Data(c)
    <3>1. most \in Seq(Words) /\ Len(most) = n + 1
      BY <2>6
    <3>2. most[1] = Word("length", c) /\ \A i \in 1 .. n : most[i + 1] = Data(c)[i]
      BY <2>6
    <3> HIDE DEF most
    <3>3. /\ most \o last \in Seq(Words) /\ Len(most \o last) = Len(most) + Len(last)
          /\ \A i \in 1 .. Len(most) + Len(last) :
               (most \o last)[i] = IF i <= Len(most) THEN most[i] ELSE last[i - Len(most)]
      BY <2>4, <3>1, ConcatProperties
    <3>4. \A i \in 1 .. n + 1 : (most \o last)[i] = most[i]
      BY <2>1, <2>4, <3>1, <3>3
    <3>5. Answer(c) = most \o last
      BY <2>5 DEF most
    <3> QED BY <2>1, <2>4, <3>1, <3>2, <3>3, <3>4, <3>5
  <2> QED BY <1>3, <2>1, <2>3, <2>7 DEF n
<1> QED BY <1>2, <1>3

(* What n words fewer leave of what is left.                               *)
LEMMA Shorter ==
    ASSUME NEW s \in Seq(Words), NEW k \in Nat, NEW n \in Nat, k + n <= Len(s)
    PROVE  LET rest == SubSeq(s, k + 1, Len(s))
           IN  /\ Len(rest) = Len(s) - k /\ rest \in Seq(Words)
               /\ SubSeq(rest, n + 1, Len(rest)) = SubSeq(s, k + n + 1, Len(s))
<1> DEFINE rest == SubSeq(s, k + 1, Len(s))
           left1 == SubSeq(rest, n + 1, Len(rest))
           left2 == SubSeq(s, k + n + 1, Len(s))
<1>1. Len(s) \in Nat /\ \A i \in 1 .. Len(s) : s[i] \in Words
  BY LenProperties, ElementOfSeq
<1>2. /\ rest \in Seq(Words) /\ Len(rest) = Len(s) - k
      /\ \A i \in 1 .. Len(s) - k : rest[i] = s[k + i]
  <2>1. rest \in Seq(Words) /\ Len(rest) = IF k + 1 <= Len(s) THEN Len(s) - (k + 1) + 1 ELSE 0
    BY <1>1, SubSeqProperties
  <2>2. \A i \in 1 .. Len(s) - (k + 1) + 1 : rest[i] = s[k + 1 + i - 1]
    BY <1>1, SubSeqProperties
  <2> HIDE DEF rest
  <2> QED BY <1>1, <2>1, <2>2
<1>3. /\ left2 \in Seq(Words) /\ Len(left2) = Len(s) - k - n
      /\ \A i \in 1 .. Len(s) - k - n : left2[i] = s[k + n + i]
  <2>1. left2 \in Seq(Words) /\ Len(left2) = IF k + n + 1 <= Len(s) THEN Len(s) - (k + n + 1) + 1 ELSE 0
    BY <1>1, SubSeqProperties
  <2>2. \A i \in 1 .. Len(s) - (k + n + 1) + 1 : left2[i] = s[k + n + 1 + i - 1]
    BY <1>1, SubSeqProperties
  <2> HIDE DEF left2
  <2> QED BY <1>1, <2>1, <2>2
<1> HIDE DEF rest, left2
<1>4. /\ left1 \in Seq(Words) /\ Len(left1) = Len(s) - k - n
      /\ \A i \in 1 .. Len(s) - k - n : left1[i] = rest[n + i]
  <2>0. Len(rest) \in Nat /\ \A i \in 1 .. Len(rest) : rest[i] \in Words
    BY <1>2, LenProperties, ElementOfSeq
  <2>1. left1 \in Seq(Words) /\ Len(left1) = IF n + 1 <= Len(rest) THEN Len(rest) - (n + 1) + 1 ELSE 0
    BY <2>0, SubSeqProperties
  <2>2. \A i \in 1 .. Len(rest) - (n + 1) + 1 : left1[i] = rest[n + 1 + i - 1]
    BY <2>0, SubSeqProperties
  <2> HIDE DEF left1
  <2>3. Len(rest) - (n + 1) + 1 = Len(s) - k - n /\ Len(rest) - (n + 1) + 1 >= 0
    BY <1>1, <1>2
  <2>4. Len(left1) = Len(s) - k - n
    BY <1>1, <1>2, <2>1, <2>3
  <2>5. ASSUME NEW i \in 1 .. Len(s) - k - n
        PROVE  left1[i] = rest[n + i]
    <3>1. n + 1 + i - 1 = n + i
      BY <1>1
    <3>2. left1[i] = rest[n + 1 + i - 1]
      BY <2>2, <2>3
    <3> QED BY <3>1, <3>2
  <2> QED BY <2>1, <2>4, <2>5
<1> HIDE DEF left1
<1>5. Len(left1) = Len(left2) /\ \A i \in 1 .. Len(left1) : left1[i] = left2[i]
  BY <1>1, <1>2, <1>3, <1>4
<1>6. left1 = left2
  BY <1>3, <1>4, <1>5, SeqEqual
<1> QED BY <1>2, <1>6 DEF rest, left1, left2

LEMMA NoneIsOne ==
    /\ NoExchange \in Exchanges /\ NoExchange.at = "none" /\ NoExchange.read = <<>>
    /\ Quiet \in [Ports -> Seq(Words)]
BY EmptySeq DEF NoExchange, Exchanges, Quiet

LEMMA TpmInit == Init => TpmInv
<1> SUFFICES ASSUME Init PROVE TpmInv
  OBVIOUS
<1>1. /\ sim \in [power : BOOLEAN, nv : BOOLEAN, shut : BOOLEAN] /\ inStep \in BOOLEAN
      /\ stream = Quiet /\ exchange = NoExchange
  BY DEF Init, Quiet
<1> QED BY <1>1, NoneIsOne DEF TpmInv, OfPhase, ReadSoFar, InOrder

(* A step that sees none of it.                                            *)
LEMMA TpmElsewhere ==
    ASSUME TpmInv, UNCHANGED tpmVars, phase' = phase \/ exchange = NoExchange
    PROVE  TpmInv'
BY DEF TpmInv, OfPhase, ReadSoFar, InOrder, Remains, tpmVars

(* Nothing is under way and nothing is left to read.                       *)
LEMMA AtRest ==
    ASSUME TpmInv, exchange' = NoExchange, sim' = sim, inStep' \in BOOLEAN,
           stream' \in [Ports -> Seq(Words)], inStep' => stream' = Quiet
    PROVE  TpmInv'
BY NoneIsOne DEF TpmInv, OfPhase, ReadSoFar, InOrder

(* A command is about to be sent.                                          *)
LEMMA StartKeeps ==
    ASSUME TpmInv, NEW c \in Known, NEW max \in Nat, Start(c, max), sim' = sim,
           \/ phase' = "power" /\ c \in {"PowerOn", "NvOn"}
           \/ phase' = "booted" /\ c \in Commands
           \/ phase' = "shutdown" /\ c \in {"Shutdown", "NvOff", "PowerOff"},
           inStep' \in BOOLEAN, stream' \in [Ports -> Seq(Words)],
           inStep' => /\ stream' = Quiet
                      /\ c \in {"NvOff", "PowerOff"} => sim.shut
                      /\ c = "PowerOff" => ~sim.nv
    PROVE  TpmInv'
<1>1. /\ exchange' \in Exchanges /\ exchange'.command = c /\ exchange'.at = "send"
      /\ exchange'.read = <<>>
  BY EmptySeq DEF Start, NoExchange, Exchanges
<1>2. OfPhase'
  BY <1>1 DEF OfPhase
<1>3. inStep' => ReadSoFar' /\ InOrder'
  BY <1>1 DEF ReadSoFar, InOrder
<1> QED BY <1>1, <1>2, <1>3 DEF TpmInv

(* What the simulator thinks of a command that it has received.            *)
LEMMA SimulateIs ==
    ASSUME TpmInv, NEW c \in Known, Simulate(c)
    PROVE  /\ sim' \in [power : BOOLEAN, nv : BOOLEAN, shut : BOOLEAN]
           /\ stream' = [stream EXCEPT ![PortOf(c)] = @ \o Answer(c)]
           /\ c = "Shutdown" => sim'.shut
           /\ c \in {"NvOff", "PowerOff"} => sim'.shut = sim.shut
           /\ c = "NvOff" => ~sim'.nv
           /\ c = "PowerOff" => sim'.nv = sim.nv
           /\ c # "PowerOff" /\ sim.power => sim'.power
<1>1. sim \in [power : BOOLEAN, nv : BOOLEAN, shut : BOOLEAN]
  BY DEF TpmInv
<1>2. (c = "Shutdown") \in BOOLEAN
  OBVIOUS
<1>3. CASE c \in Signals
  BY <1>1, <1>3 DEF Simulate, Signals
<1>4. CASE c \notin Signals
  <2>1. sim' = [sim EXCEPT !.shut = (c = "Shutdown")]
    BY <1>4 DEF Simulate, Signals
  <2>2. sim' = [power |-> sim.power, nv |-> sim.nv, shut |-> (c = "Shutdown")]
    BY <1>1, <2>1
  <2>3. sim.power \in BOOLEAN /\ sim.nv \in BOOLEAN
    BY <1>1
  <2>4. sim' \in [power : BOOLEAN, nv : BOOLEAN, shut : BOOLEAN]
    BY <1>2, <2>2, <2>3
  <2>5. sim'.power = sim.power /\ (c = "Shutdown" => sim'.shut)
    BY <1>1, <1>2, <2>2
  <2>6. c \notin {"NvOff", "PowerOff"}
    BY <1>4 DEF Signals
  <2>7. stream' = [stream EXCEPT ![PortOf(c)] = @ \o Answer(c)]
    BY DEF Simulate
  <2> QED BY <2>4, <2>5, <2>6, <2>7
<1> QED BY <1>3, <1>4

LEMMA PortIs == ASSUME NEW c PROVE PortOf(c) \in Ports
BY DEF PortOf, Ports

(* The exchange that is under way.                                         *)
LEMMA UnderWay ==
    ASSUME TpmInv, exchange.at # "none"
    PROVE  /\ exchange.command \in Known /\ exchange.max \in Nat /\ exchange.toSend \in Nat
           /\ exchange.length \in Nat /\ exchange.read \in Seq(Words)
           /\ exchange.command \in Commands \cup Signals \cup {"Shutdown"}
           /\ \/ phase = "power" /\ exchange.command \in {"PowerOn", "NvOn"}
              \/ phase = "booted" /\ exchange.command \in Commands
              \/ phase = "shutdown" /\ exchange.command \in {"Shutdown", "NvOff", "PowerOff"}
<1>1. exchange # NoExchange
  BY NoneIsOne
<1>2. exchange \in Exchanges /\ OfPhase
  BY DEF TpmInv
<1>3. \/ phase = "power" /\ exchange.command \in {"PowerOn", "NvOn"}
      \/ phase = "booted" /\ exchange.command \in Commands
      \/ phase = "shutdown" /\ exchange.command \in {"Shutdown", "NvOff", "PowerOff"}
  BY <1>1, <1>2 DEF OfPhase
<1> QED BY <1>2, <1>3 DEF Exchanges, Known, Signals

(* An exchange goes on: what a step has to show.                           *)
LEMMA GoesOn ==
    ASSUME TpmInv, exchange.at # "none", phase' = phase,
           exchange' \in Exchanges, exchange'.command = exchange.command,
           exchange'.at \in {"send", "length", "data", "status", "done", "failed"},
           sim' \in [power : BOOLEAN, nv : BOOLEAN, shut : BOOLEAN], inStep' \in BOOLEAN,
           stream' \in [Ports -> Seq(Words)],
           inStep' => ReadSoFar' /\ InOrder'
    PROVE  TpmInv'
<1>1. OfPhase'
  BY UnderWay DEF OfPhase
<1> QED BY <1>1 DEF TpmInv

LEMMA WriteKeeps ==
    ASSUME TpmInv, WriteBytes, phase' = phase
    PROVE  /\ TpmInv'
           /\ sim.power /\ ~sim'.power /\ inStep => sim.shut /\ ~sim.nv
<1> DEFINE c == exchange.command
<1>1. /\ exchange.at = "send" /\ inStep' = inStep /\ inStep \in BOOLEAN
      /\ exchange \in Exchanges /\ stream \in [Ports -> Seq(Words)]
      /\ sim \in [power : BOOLEAN, nv : BOOLEAN, shut : BOOLEAN]
  BY DEF WriteBytes, TpmInv
<1>2. c \in Known
  BY <1>1, UnderWay
<1>3. inStep => /\ stream = Quiet /\ exchange.read = <<>>
                /\ c \in {"NvOff", "PowerOff"} => sim.shut
                /\ c = "PowerOff" => ~sim.nv
  BY <1>1 DEF TpmInv, ReadSoFar, InOrder
<1>4. PICK n \in 1 .. exchange.toSend :
         IF n < exchange.toSend
           THEN exchange' = [exchange EXCEPT !.toSend = @ - n] /\ UNCHANGED <<sim, stream>>
           ELSE /\ exchange' = [exchange EXCEPT !.toSend = 0,
                                  !.at = IF exchange.command \in Signals THEN "status"
                                         ELSE "length"]
                /\ Simulate(exchange.command)
  BY DEF WriteBytes
<1>5. CASE n < exchange.toSend
  <2>1. /\ exchange' \in Exchanges /\ exchange'.command = c /\ exchange'.at = "send"
        /\ exchange'.read = exchange.read
    BY <1>1, <1>4, <1>5 DEF Exchanges
  <2>2. sim' = sim /\ stream' = stream
    BY <1>4, <1>5
  <2>3. inStep' => ReadSoFar' /\ InOrder'
    BY <1>1, <1>3, <2>1, <2>2 DEF ReadSoFar, InOrder
  <2> QED BY <1>1, <2>1, <2>2, <2>3, GoesOn
<1>6. CASE ~(n < exchange.toSend)
  <2>1. /\ exchange' \in Exchanges /\ exchange'.command = c
        /\ exchange'.at = (IF c \in Signals THEN "status" ELSE "length")
        /\ exchange'.read = exchange.read
    <3>1. PICK to \in {"status", "length"} :
            /\ to = (IF c \in Signals THEN "status" ELSE "length")
            /\ exchange' = [exchange EXCEPT !.toSend = 0, !.at = to]
      BY <1>4, <1>6, Zenon
    <3> HIDE DEF c
    <3>2. exchange' \in Exchanges /\ exchange'.at = to /\ exchange'.read = exchange.read
      BY <1>1, <3>1 DEF Exchanges
    <3>3. exchange'.command = exchange.command
      BY <1>1, <3>1 DEF Exchanges
    <3> QED BY <3>1, <3>2, <3>3 DEF c
  <2>2. Simulate(c)
    BY <1>4, <1>6
  <2>3. /\ sim' \in [power : BOOLEAN, nv : BOOLEAN, shut : BOOLEAN]
        /\ stream' = [stream EXCEPT ![PortOf(c)] = @ \o Answer(c)]
        /\ c = "Shutdown" => sim'.shut
        /\ c \in {"NvOff", "PowerOff"} => sim'.shut = sim.shut
        /\ c = "NvOff" => ~sim'.nv
        /\ c = "PowerOff" => sim'.nv = sim.nv
        /\ c # "PowerOff" /\ sim.power => sim'.power
    BY <1>2, <2>2, SimulateIs
  <2>4. /\ c \in Signals => Data(c) = <<>> /\ Answer(c) = <<Word("status", c)>>
        /\ Answer(c) \in Seq(Words) /\ Len(Answer(c)) \in Nat \ {0}
    BY <1>2, AnswerIs
  <2>5. PortOf(c) \in Ports
    BY PortIs
  <2>6. stream' \in [Ports -> Seq(Words)]
    <3>1. stream[PortOf(c)] \o Answer(c) \in Seq(Words)
      BY <1>1, <2>4, <2>5, ConcatProperties
    <3> QED BY <1>1, <2>3, <2>5, <3>1
  <2>7. ASSUME inStep
        PROVE  stream' = [Quiet EXCEPT ![PortOf(c)] = SubSeq(Answer(c), 1, Len(Answer(c)))]
    <3>1. stream[PortOf(c)] = <<>>
      BY <1>3, <2>5, <2>7 DEF Quiet
    <3>2. <<>> \o Answer(c) = SubSeq(Answer(c), 1, Len(Answer(c)))
      BY <2>4, ConcatEmptySeq, SubSeqFull
    <3> HIDE DEF c
    <3> QED BY <1>3, <2>3, <2>7, <3>1, <3>2
  <2>8. ASSUME inStep
        PROVE  ReadSoFar'
    <3>1. CASE c \in Signals
      <4>1. Len(Answer(c)) - 1 + 1 = Len(Answer(c)) /\ Len(Answer(c)) = 1
        BY <2>4, <3>1
      <4>2. exchange'.at = "status" /\ exchange'.read = Data(c)
        BY <1>3, <2>1, <2>4, <2>8, <3>1
      <4>3. Len(Answer(c)) - 1 + 1 = 1
        BY <4>1
      <4> QED BY <2>1, <2>7, <2>8, <4>2, <4>3 DEF ReadSoFar, Remains
    <3>2. CASE c \notin Signals
      <4>1. exchange'.at = "length" /\ exchange'.read = <<>>
        BY <1>3, <2>1, <2>8, <3>2
      <4>2. 0 + 1 = 1
        OBVIOUS
      <4> QED BY <2>1, <2>7, <2>8, <3>2, <4>1, <4>2 DEF ReadSoFar, Remains
    <3> QED BY <3>1, <3>2
  <2>9. ASSUME inStep
        PROVE  InOrder'
    BY <1>3, <2>1, <2>3, <2>9 DEF InOrder
  <2>10. inStep' => ReadSoFar' /\ InOrder'
    BY <1>1, <2>8, <2>9
  <2>11. TpmInv'
    BY <1>1, <2>1, <2>3, <2>6, <2>10, GoesOn
  <2>12. sim.power /\ ~sim'.power /\ inStep => sim.shut /\ ~sim.nv
    BY <1>3, <2>3
  <2> QED BY <2>11, <2>12
<1> QED BY <1>5, <1>6

(* What a step takes off the stream.                                       *)
LEMMA TakeIs ==
    ASSUME TpmInv, exchange.at # "none", NEW n \in 1 .. Len(Inbox), Take(n)
    PROVE  /\ stream' \in [Ports -> Seq(Words)]
           /\ \A k \in Nat : Remains(k) /\ k <= Len(Answer(exchange.command)) =>
                /\ Inbox = SubSeq(Answer(exchange.command), k + 1, Len(Answer(exchange.command)))
                /\ k + n <= Len(Answer(exchange.command))
                /\ stream' = [Quiet EXCEPT ![PortOf(exchange.command)] =
                                SubSeq(Answer(exchange.command), k + n + 1, Len(Answer(exchange.command)))]
<1> DEFINE c == exchange.command
           P == PortOf(c)
           a == Answer(c)
<1>1. P \in Ports /\ stream \in [Ports -> Seq(Words)] /\ Inbox \in Seq(Words)
  BY PortIs DEF TpmInv, Inbox
<1>2. stream' = [stream EXCEPT ![P] = SubSeq(Inbox, n + 1, Len(Inbox))]
  BY DEF Take, Inbox
<1>3. SubSeq(Inbox, n + 1, Len(Inbox)) \in Seq(Words)
  <2>1. Len(Inbox) \in Nat /\ \A i \in n + 1 .. Len(Inbox) : Inbox[i] \in Words
    BY <1>1, LenProperties, ElementOfSeq
  <2> QED BY <2>1, SubSeqProperties
<1>4. stream' \in [Ports -> Seq(Words)]
  BY <1>1, <1>2, <1>3
<1>5. ASSUME NEW k \in Nat, Remains(k), k <= Len(a)
      PROVE  /\ Inbox = SubSeq(a, k + 1, Len(a)) /\ k + n <= Len(a)
             /\ stream' = [Quiet EXCEPT ![P] = SubSeq(a, k + n + 1, Len(a))]
  <2>1. a \in Seq(Words) /\ Len(a) \in Nat
    BY UnderWay, AnswerIs
  <2>2. stream = [Quiet EXCEPT ![P] = SubSeq(a, k + 1, Len(a))]
    BY <1>5 DEF Remains
  <2>3. Inbox = SubSeq(a, k + 1, Len(a))
    BY <1>1, <2>2 DEF Inbox, Quiet
  <2>4. Len(SubSeq(a, k + 1, Len(a))) = Len(a) - k
    BY <1>5, <2>1, Shorter
  <2>5. k + n <= Len(a)
    BY <2>1, <2>3, <2>4
  <2>6. SubSeq(Inbox, n + 1, Len(Inbox)) = SubSeq(a, k + n + 1, Len(a))
    BY <2>1, <2>3, <2>5, Shorter
  <2> HIDE DEF P, a
  <2> QED BY <1>2, <2>2, <2>3, <2>5, <2>6
<1> QED BY <1>4, <1>5

LEMMA ReadLengthKeeps ==
    ASSUME TpmInv, ReadMultipleBytes, phase' = phase
    PROVE  TpmInv' /\ sim' = sim
<1> DEFINE c == exchange.command
           a == Answer(c)
<1>1. /\ exchange.at = "length" /\ Take(1) /\ sim' = sim
      /\ exchange \in Exchanges /\ inStep \in BOOLEAN /\ Inbox # <<>>
      /\ sim \in [power : BOOLEAN, nv : BOOLEAN, shut : BOOLEAN]
  BY DEF ReadMultipleBytes, TpmInv
<1>2. c \in Known /\ exchange.max \in Nat
  BY <1>1, UnderWay
<1>3. /\ stream \in [Ports -> Seq(Words)] /\ Inbox \in Seq(Words)
      /\ 1 \in 1 .. Len(Inbox) /\ Inbox[1] \in Words
  <2>1. Inbox \in Seq(Words)
    BY PortIs DEF TpmInv, Inbox
  <2>2. 1 \in 1 .. Len(Inbox)
    BY <1>1, <2>1, EmptySeq
  <2> QED BY <2>1, <2>2, ElementOfSeq DEF TpmInv
<1>4. PICK length \in IF Inbox[1].word = "length" THEN {AnswerLength[Inbox[1].of]}
                      ELSE Buffers :
         IF length > exchange.max
           THEN exchange' = [exchange EXCEPT !.at = "failed"] /\ inStep' = FALSE
           ELSE /\ exchange' = [exchange EXCEPT !.length = length,
                                  !.at = IF length = 0 THEN "status" ELSE "data"]
                /\ UNCHANGED inStep
  BY DEF ReadMultipleBytes
<1>5. length \in Nat
  <2>1. CASE Inbox[1].word = "length"
    BY <1>3, <1>4, <2>1, TpmAssumption DEF Words, Known
  <2>2. CASE Inbox[1].word # "length"
    BY <1>4, <2>2, TpmAssumption
  <2> QED BY <2>1, <2>2
<1>6. /\ stream' \in [Ports -> Seq(Words)]
      /\ \A k \in Nat : Remains(k) /\ k <= Len(a) =>
           /\ Inbox = SubSeq(a, k + 1, Len(a)) /\ k + 1 <= Len(a)
           /\ stream' = [Quiet EXCEPT ![PortOf(c)] = SubSeq(a, k + 1 + 1, Len(a))]
  BY <1>1, <1>3, TakeIs
<1>7. CASE length > exchange.max
  <2>1. /\ exchange' \in Exchanges /\ exchange'.command = c /\ exchange'.at = "failed" /\ inStep' = FALSE
    BY <1>1, <1>4, <1>7 DEF Exchanges
  <2> QED BY <1>1, <1>6, <2>1, GoesOn
<1>8. CASE ~(length > exchange.max)
  <2>1. PICK to \in {"status", "data"} :
          /\ to = (IF length = 0 THEN "status" ELSE "data")
          /\ exchange' = [exchange EXCEPT !.length = length, !.at = to] /\ inStep' = inStep
    BY <1>4, <1>8, Zenon
  <2>2. /\ exchange' \in Exchanges /\ exchange'.at = to /\ exchange'.read = exchange.read
        /\ exchange'.length = length
    BY <1>1, <1>5, <2>1 DEF Exchanges
  <2>3. exchange'.command = exchange.command
    BY <1>1, <2>1 DEF Exchanges
  <2>4. ASSUME inStep
        PROVE  ReadSoFar' /\ InOrder'
    <3>1. c \notin Signals /\ Remains(0) /\ exchange.read = <<>> /\ InOrder
      BY <1>1, <2>4 DEF TpmInv, ReadSoFar
    <3>2. /\ AnswerLength[c] \in Nat /\ Len(Data(c)) = AnswerLength[c] /\ Data(c) \in Seq(Words)
          /\ Len(a) = AnswerLength[c] + 2 /\ a[1] = Word("length", c) /\ a \in Seq(Words)
      BY <1>2, <3>1, AnswerIs
    <3>3. /\ Inbox = SubSeq(a, 0 + 1, Len(a))
          /\ stream' = [Quiet EXCEPT ![PortOf(c)] = SubSeq(a, 0 + 1 + 1, Len(a))]
      BY <1>6, <3>1, <3>2
    <3>4. Inbox = a
      BY <3>2, <3>3, SubSeqFull
    <3>5. length = AnswerLength[c]
      BY <1>4, <3>2, <3>4 DEF Word
    <3>6. CASE length = 0
      <4>1. Data(c) = <<>>
        BY <3>2, <3>5, <3>6, EmptySeq
      <4>2. Len(a) - 1 + 1 = 0 + 1 + 1
        BY <3>2, <3>5, <3>6
      <4>3. stream' = [Quiet EXCEPT ![PortOf(c)] = SubSeq(a, Len(a) - 1 + 1, Len(a))]
        BY <3>3, <4>2
      <4>4. to = "status"
        BY <2>1, <3>6
      <4>5. exchange'.at = "status" /\ exchange'.read = Data(c) /\ exchange'.command = c
        BY <2>2, <2>3, <3>1, <4>1, <4>4
      <4>6. ReadSoFar'
        BY <4>3, <4>5 DEF ReadSoFar, Remains
      <4> QED BY <1>1, <3>1, <4>5, <4>6 DEF InOrder
    <3>7. CASE length # 0
      <4>1. Len(exchange.read) = 0 /\ SubSeq(Data(c), 1, 0) = <<>>
        BY <3>1, EmptySeq, SubSeqEmpty
      <4>2. to = "data"
        BY <2>1, <3>7
      <4>3. /\ exchange'.at = "data" /\ exchange'.read = <<>>
            /\ exchange'.command = c /\ exchange'.length = AnswerLength[c]
        BY <2>2, <2>3, <3>1, <3>5, <4>2
      <4>4. Len(exchange'.read) = 0 /\ 0 < AnswerLength[c]
        BY <1>5, <3>1, <3>5, <3>7, <4>1, <4>3
      <4>5. exchange'.read = SubSeq(Data(c), 1, Len(exchange'.read))
        BY <4>1, <4>3, <4>4
      <4>6. stream' = [Quiet EXCEPT ![PortOf(c)] = SubSeq(a, Len(exchange'.read) + 1 + 1, Len(a))]
        BY <3>3, <4>4
      <4>7. ReadSoFar'
        BY <3>1, <4>3, <4>4, <4>5, <4>6 DEF ReadSoFar, Remains
      <4> QED BY <1>1, <3>1, <4>3, <4>7 DEF InOrder
    <3> QED BY <3>6, <3>7
  <2>5. to \in {"status", "data"} /\ inStep' = inStep
    BY <2>1
  <2> QED BY <1>1, <1>6, <2>2, <2>3, <2>4, <2>5, GoesOn
<1> QED BY <1>1, <1>7, <1>8

LEMMA ReadBytesKeeps ==
    ASSUME TpmInv, ReadBytes, phase' = phase
    PROVE  TpmInv' /\ sim' = sim
<1> DEFINE c == exchange.command
           a == Answer(c)
           k == Len(exchange.read)
<1>1. /\ exchange.at = "data" /\ sim' = sim /\ inStep' = inStep
      /\ exchange \in Exchanges /\ inStep \in BOOLEAN
      /\ sim \in [power : BOOLEAN, nv : BOOLEAN, shut : BOOLEAN]
  BY DEF ReadBytes, TpmInv
<1>2. c \in Known /\ exchange.length \in Nat /\ exchange.read \in Seq(Words) /\ k \in Nat
  BY <1>1, UnderWay, LenProperties
<1>3. stream \in [Ports -> Seq(Words)] /\ Inbox \in Seq(Words) /\ Len(Inbox) \in Nat
  BY PortIs, LenProperties DEF TpmInv, Inbox
<1>4. PICK n \in 1 .. IF Missing < Len(Inbox) THEN Missing ELSE Len(Inbox) :
         /\ Take(n)
         /\ exchange' = [exchange EXCEPT !.read = @ \o SubSeq(Inbox, 1, n),
                           !.at = IF IsRead(n) THEN "status" ELSE "data"]
  BY DEF ReadBytes
<1>5. n \in 1 .. Len(Inbox) /\ n <= exchange.length - k /\ (IsRead(n) <=> n = exchange.length - k)
  BY <1>2, <1>3, <1>4 DEF Missing, IsRead
<1>6. /\ stream' \in [Ports -> Seq(Words)]
      /\ \A j \in Nat : Remains(j) /\ j <= Len(a) =>
           /\ Inbox = SubSeq(a, j + 1, Len(a)) /\ j + n <= Len(a)
           /\ stream' = [Quiet EXCEPT ![PortOf(c)] = SubSeq(a, j + n + 1, Len(a))]
  BY <1>1, <1>4, <1>5, TakeIs
<1>7. PICK to \in {"status", "data"} :
        /\ to = (IF IsRead(n) THEN "status" ELSE "data")
        /\ exchange' = [exchange EXCEPT !.read = @ \o SubSeq(Inbox, 1, n), !.at = to]
  BY <1>4, Zenon
<1>8. SubSeq(Inbox, 1, n) \in Seq(Words) /\ exchange.read \o SubSeq(Inbox, 1, n) \in Seq(Words)
  <2>1. \A i \in 1 .. n : Inbox[i] \in Words
    BY <1>3, <1>5, ElementOfSeq
  <2>2. SubSeq(Inbox, 1, n) \in Seq(Words)
    BY <1>5, <2>1, SubSeqProperties
  <2> QED BY <1>2, <2>2, ConcatProperties
<1>9. /\ exchange' \in Exchanges /\ exchange'.at = to /\ exchange'.length = exchange.length
      /\ exchange'.read = exchange.read \o SubSeq(Inbox, 1, n)
  BY <1>1, <1>7, <1>8 DEF Exchanges
<1>10. exchange'.command = exchange.command
  BY <1>1, <1>7 DEF Exchanges
<1>11. ASSUME inStep
       PROVE  ReadSoFar' /\ InOrder'
  <2>1. /\ c \notin Signals /\ exchange.length = AnswerLength[c] /\ k < exchange.length
        /\ exchange.read = SubSeq(Data(c), 1, k) /\ Remains(k + 1) /\ InOrder
    BY <1>1, <1>11 DEF TpmInv, ReadSoFar
  <2>2. /\ AnswerLength[c] \in Nat /\ Len(Data(c)) = AnswerLength[c] /\ Data(c) \in Seq(Words)
        /\ Len(a) = AnswerLength[c] + 2 /\ a \in Seq(Words)
        /\ \A i \in 1 .. AnswerLength[c] : a[i + 1] = Data(c)[i]
    BY <1>2, <2>1, AnswerIs
  <2>3. /\ Inbox = SubSeq(a, k + 1 + 1, Len(a))
        /\ stream' = [Quiet EXCEPT ![PortOf(c)] = SubSeq(a, k + 1 + n + 1, Len(a))]
    <3>1. k + 1 \in Nat /\ k + 1 <= Len(a)
      <4> HIDE DEF k, a
      <4> QED BY <1>2, <2>1, <2>2
    <3> QED BY <1>6, <2>1, <3>1
  <2>4. SubSeq(Inbox, 1, n) = SubSeq(Data(c), k + 1, k + n)
    <3> DEFINE d == Data(c)
               m == Len(Data(c))
               u == SubSeq(Inbox, 1, n)
               v == SubSeq(d, k + 1, k + n)
    <3>1. /\ m \in Nat /\ m = AnswerLength[c] /\ Len(a) = m + 2
          /\ k + n <= m /\ n \in Nat \ {0} /\ n <= Len(Inbox)
      BY <1>2, <1>3, <1>5, <2>1, <2>2
    <3>2. \A i \in 1 .. Len(a) : a[i] \in Words
      BY <2>2, ElementOfSeq
    <3>3. \A i \in 1 .. Len(a) - k - 1 : Inbox[i] = a[k + 1 + 1 + i - 1]
      <4>1. \A i \in k + 1 + 1 .. Len(a) : a[i] \in Words
        BY <1>2, <3>2
      <4>2. k + 1 + 1 \in Int /\ Len(a) \in Int /\ Len(a) - (k + 1 + 1) + 1 = Len(a) - k - 1
        BY <1>2, <3>1
      <4>3. \A i \in 1 .. Len(a) - (k + 1 + 1) + 1 : SubSeq(a, k + 1 + 1, Len(a))[i] = a[k + 1 + 1 + i - 1]
        BY <4>1, <4>2, SubSeqProperties
      <4> QED BY <2>3, <4>2, <4>3
    <3>4. /\ u \in Seq(Words) /\ Len(u) = n /\ \A i \in 1 .. n : u[i] = Inbox[i]
      <4>1. \A i \in 1 .. n : Inbox[i] \in Words
        BY <1>3, <1>5, ElementOfSeq
      <4>2. n \in Int /\ 1 <= n /\ n - 1 + 1 = n /\ \A i \in 1 .. n : 1 + i - 1 = i
        BY <3>1
      <4>3. /\ u \in Seq(Words) /\ Len(u) = IF 1 <= n THEN n - 1 + 1 ELSE 0
            /\ \A i \in 1 .. n - 1 + 1 : u[i] = Inbox[1 + i - 1]
        BY <4>1, <4>2, SubSeqProperties
      <4> HIDE DEF u
      <4> QED BY <4>2, <4>3
    <3>5. /\ v \in Seq(Words) /\ Len(v) = n /\ \A i \in 1 .. n : v[i] = d[k + i]
      <4>1. \A i \in k + 1 .. k + n : d[i] \in Words
        <5>1. \A i \in 1 .. m : d[i] \in Words
          BY <2>2, ElementOfSeq
        <5>2. \A i \in k + 1 .. k + n : i \in 1 .. m
          BY <1>2, <3>1
        <5> QED BY <5>1, <5>2
      <4>2. /\ k + n \in Int /\ k + 1 \in Int /\ k + 1 <= k + n /\ k + n - (k + 1) + 1 = n
            /\ \A i \in 1 .. n : k + 1 + i - 1 = k + i
        BY <1>2, <3>1
      <4>3. /\ v \in Seq(Words) /\ Len(v) = IF k + 1 <= k + n THEN k + n - (k + 1) + 1 ELSE 0
            /\ \A i \in 1 .. k + n - (k + 1) + 1 : v[i] = d[k + 1 + i - 1]
        BY <4>1, <4>2, SubSeqProperties
      <4> HIDE DEF v
      <4> QED BY <4>2, <4>3
    <3>6. ASSUME NEW i \in 1 .. n
          PROVE  u[i] = v[i]
      <4>1. i \in 1 .. Len(a) - k - 1 /\ k + i \in 1 .. AnswerLength[c] /\ k + 1 + 1 + i - 1 = k + i + 1
        <5> HIDE DEF k, a, m
        <5> QED BY <1>2, <3>1
      <4>2. Inbox[i] = a[k + i + 1]
        BY <3>3, <4>1
      <4>3. a[k + i + 1] = Data(c)[k + i]
        BY <2>2, <4>1
      <4>4. u[i] = Inbox[i] /\ v[i] = Data(c)[k + i]
        BY <3>4, <3>5
      <4> QED BY <4>2, <4>3, <4>4
    <3> HIDE DEF u, v
    <3>7. u = v
      BY <3>1, <3>4, <3>5, <3>6, SeqEqual
    <3> QED BY <3>7 DEF u, v
  <2>5. exchange'.read = SubSeq(Data(c), 1, k + n) /\ k + n <= AnswerLength[c]
    <3>1. /\ k + n <= AnswerLength[c] /\ k \in 1 - 1 .. Len(Data(c))
          /\ k + n \in k .. Len(Data(c)) /\ 1 \in 1 .. Len(Data(c)) + 1
      <4> HIDE DEF k
      <4>1. n \in Nat /\ k + n <= AnswerLength[c] /\ k < AnswerLength[c]
        BY <1>2, <1>3, <1>5, <2>1
      <4>2. Len(Data(c)) = AnswerLength[c] /\ AnswerLength[c] \in Nat /\ k \in Nat
        BY <1>2, <2>2
      <4> HIDE DEF c
      <4> QED BY <4>1, <4>2
    <3>2. SubSeq(Data(c), 1, k) \o SubSeq(Data(c), k + 1, k + n) = SubSeq(Data(c), 1, k + n)
      BY <2>2, <3>1, ConcatAdjacentSubSeq
    <3> QED BY <1>9, <2>1, <2>4, <3>1, <3>2
  <2>6. Len(exchange'.read) = k + n
    <3>1. k + n \in 0 .. Len(Data(c)) /\ k + n - 1 + 1 = k + n /\ 1 <= k + n
      BY <1>2, <1>5, <2>2, <2>5
    <3>2. \A i \in 1 .. k + n : Data(c)[i] \in Words
      BY <2>2, <3>1, ElementOfSeq
    <3> QED BY <2>5, <3>1, <3>2, SubSeqProperties
  <2>7. CASE IsRead(n)
    <3>1. to = "status" /\ k + n = AnswerLength[c]
      BY <1>2, <1>5, <1>7, <2>1, <2>7
    <3>2. exchange'.read = Data(c)
      BY <2>2, <2>5, <3>1, SubSeqFull
    <3>3. k + 1 + n + 1 = Len(a) - 1 + 1
      BY <1>2, <2>2, <3>1
    <3>4. stream' = [Quiet EXCEPT ![PortOf(c)] = SubSeq(a, Len(a) - 1 + 1, Len(a))]
      BY <2>3, <3>3
    <3>5. exchange'.at = "status" /\ exchange'.command = c
      BY <1>9, <1>10, <3>1
    <3>6. ReadSoFar'
      BY <3>2, <3>4, <3>5 DEF ReadSoFar, Remains
    <3> QED BY <1>1, <2>1, <3>5, <3>6 DEF InOrder
  <2>8. CASE ~IsRead(n)
    <3>1. to = "data" /\ k + n < AnswerLength[c]
      <4> HIDE DEF k
      <4>1. to = "data" /\ n # exchange.length - k
        BY <1>5, <1>7, <2>8
      <4>2. n \in Nat
        BY <1>3, <1>5
      <4>3. k + n < exchange.length
        BY <1>2, <1>5, <4>1, <4>2
      <4> QED BY <2>1, <4>1, <4>3
    <3>2. exchange'.read = SubSeq(Data(c), 1, Len(exchange'.read)) /\ Len(exchange'.read) < exchange'.length
      BY <1>9, <2>1, <2>5, <2>6, <3>1
    <3>3. k + 1 + n + 1 = Len(exchange'.read) + 1 + 1
      BY <1>2, <2>6
    <3>4. stream' = [Quiet EXCEPT ![PortOf(c)] = SubSeq(a, Len(exchange'.read) + 1 + 1, Len(a))]
      BY <2>3, <3>3
    <3>5. exchange'.at = "data" /\ exchange'.command = c /\ exchange'.length = AnswerLength[c]
      BY <1>9, <1>10, <2>1, <3>1
    <3>6. ReadSoFar'
      BY <2>1, <3>2, <3>4, <3>5 DEF ReadSoFar, Remains
    <3> QED BY <1>1, <2>1, <3>5, <3>6 DEF InOrder
  <2> QED BY <2>7, <2>8
<1>12. to \in {"status", "data"}
  BY <1>7
<1> QED BY <1>1, <1>6, <1>9, <1>10, <1>11, <1>12, GoesOn

LEMMA ReadStatusKeeps ==
    ASSUME TpmInv, ReadData32, phase' = phase
    PROVE  TpmInv' /\ sim' = sim
<1> DEFINE c == exchange.command
           a == Answer(c)
<1>1. /\ exchange.at = "status" /\ sim' = sim /\ inStep' = inStep /\ Take(1) /\ Inbox # <<>>
      /\ exchange' = [exchange EXCEPT !.at = "done"]
      /\ exchange \in Exchanges /\ inStep \in BOOLEAN
      /\ sim \in [power : BOOLEAN, nv : BOOLEAN, shut : BOOLEAN]
  BY DEF ReadData32, TpmInv
<1>2. c \in Known /\ Inbox \in Seq(Words) /\ 1 \in 1 .. Len(Inbox)
  <2>1. Inbox \in Seq(Words)
    BY PortIs DEF TpmInv, Inbox
  <2> QED BY <1>1, <2>1, UnderWay, EmptySeq
<1>3. /\ stream' \in [Ports -> Seq(Words)]
      /\ \A j \in Nat : Remains(j) /\ j <= Len(a) =>
           /\ Inbox = SubSeq(a, j + 1, Len(a)) /\ j + 1 <= Len(a)
           /\ stream' = [Quiet EXCEPT ![PortOf(c)] = SubSeq(a, j + 1 + 1, Len(a))]
  BY <1>1, <1>2, TakeIs
<1>4. /\ exchange' \in Exchanges /\ exchange'.at = "done" /\ exchange'.command = c
      /\ exchange'.read = exchange.read
  BY <1>1 DEF Exchanges
<1>5. ASSUME inStep
      PROVE  ReadSoFar' /\ InOrder'
  <2>1. exchange.read = Data(c) /\ Remains(Len(a) - 1) /\ InOrder
    BY <1>1, <1>5 DEF TpmInv, ReadSoFar
  <2>2. Len(a) \in Nat \ {0} /\ Len(a) - 1 \in Nat /\ Len(a) - 1 <= Len(a)
    BY <1>2, AnswerIs
  <2>3. stream' = [Quiet EXCEPT ![PortOf(c)] = SubSeq(a, Len(a) - 1 + 1 + 1, Len(a))]
    BY <1>3, <2>1, <2>2
  <2>4. SubSeq(a, Len(a) - 1 + 1 + 1, Len(a)) = <<>>
    BY <2>2, SubSeqEmpty
  <2>5. stream' = Quiet
    BY <2>3, <2>4, PortIs DEF Quiet
  <2>6. ReadSoFar'
    BY <1>4, <2>1, <2>5 DEF ReadSoFar
  <2> QED BY <1>1, <1>4, <2>1, <2>6 DEF InOrder
<1> QED BY <1>1, <1>3, <1>4, <1>5, GoesOn

LEMMA ErrorKeeps ==
    ASSUME TpmInv, SocketError, phase' = phase
    PROVE  TpmInv' /\ sim' = sim
<1>1. /\ exchange.at # "none" /\ UNCHANGED <<sim, stream>> /\ inStep' = FALSE
      /\ exchange' = [exchange EXCEPT !.at = "failed"] /\ exchange \in Exchanges
      /\ sim \in [power : BOOLEAN, nv : BOOLEAN, shut : BOOLEAN] /\ stream \in [Ports -> Seq(Words)]
  BY DEF SocketError, TpmInv
<1>2. exchange' \in Exchanges /\ exchange'.at = "failed" /\ exchange'.command = exchange.command
  BY <1>1 DEF Exchanges
<1> QED BY <1>1, <1>2, GoesOn

(* The driver's calls: what is sent after what.                            *)
LEMMA FollowedIs ==
    /\ FollowedBy("PowerOn") = "NvOn" /\ FollowedBy("Shutdown") = "NvOff" /\ FollowedBy("NvOff") = "PowerOff"
BY DEF FollowedBy

LEMMA Loud == \A p \in Ports : Quiet[p] = <<>>
BY DEF Quiet

LEMMA ConnectKeeps ==
    ASSUME TpmInv, CreateTpmSocket
    PROVE  TpmInv' /\ sim' = sim
<1>1. /\ sim' = sim /\ phase = "power"
      /\ sim \in [power : BOOLEAN, nv : BOOLEAN, shut : BOOLEAN] /\ inStep \in BOOLEAN
      /\ stream \in [Ports -> Seq(Words)]
      /\ inStep => ReadSoFar /\ InOrder
  BY DEF CreateTpmSocket, TpmInv
<1>2. CASE /\ exchange = NoExchange
           /\ Start("PowerOn", 0) /\ stream' = [p \in Ports |-> <<>>] /\ inStep' = TRUE
           /\ UNCHANGED phase
  <2>1. "PowerOn" \in Known /\ stream' = Quiet
    BY <1>2 DEF Known, Signals, Quiet
  <2>2. stream' \in [Ports -> Seq(Words)]
    BY <2>1, NoneIsOne
  <2> QED BY <1>1, <1>2, <2>1, <2>2, StartKeeps
<1>3. CASE /\ exchange.at = "done" /\ exchange.command = "PowerOn"
           /\ Start(FollowedBy("PowerOn"), 0)
           /\ UNCHANGED <<phase, sim, stream, mTpmCommandSocket, commands, inStep>>
  <2>1. "NvOn" \in Known /\ Start("NvOn", 0)
    BY <1>3, FollowedIs DEF Known, Signals
  <2>2. inStep' => stream' = Quiet
    BY <1>1, <1>3 DEF ReadSoFar
  <2> QED BY <1>1, <1>3, <2>1, <2>2, StartKeeps
<1>4. CASE /\ IsOver /\ exchange' = NoExchange /\ UNCHANGED <<sim, stream, commands, inStep>>
  <2>1. inStep' => stream' = Quiet
    BY <1>1, <1>4 DEF ReadSoFar, IsOver
  <2> QED BY <1>1, <1>4, <2>1, AtRest
<1> QED BY <1>1, <1>2, <1>3, <1>4 DEF CreateTpmSocket

LEMMA SubmitKeeps ==
    ASSUME TpmInv, Tpm2SubmitCommand
    PROVE  TpmInv' /\ sim' = sim
<1>1. /\ UNCHANGED <<sim, stream, inStep, phase>> /\ phase = "booted"
      /\ sim \in [power : BOOLEAN, nv : BOOLEAN, shut : BOOLEAN] /\ inStep \in BOOLEAN
      /\ stream \in [Ports -> Seq(Words)]
      /\ inStep => ReadSoFar /\ InOrder
  BY DEF Tpm2SubmitCommand, TpmInv, secVars
<1>2. CASE exchange = NoExchange /\ \E command \in Commands, max \in Buffers : Start(command, max)
  <2>1. PICK command \in Commands, max \in Buffers : Start(command, max)
    BY <1>2
  <2>2. command \in Known /\ max \in Nat /\ command \notin {"NvOff", "PowerOff"}
    BY TpmAssumption DEF Known, Signals
  <2>3. inStep' => stream' = Quiet
    BY <1>1, <1>2, NoneIsOne DEF ReadSoFar
  <2> QED BY <1>1, <2>1, <2>2, <2>3, StartKeeps
<1>3. CASE IsOver /\ exchange' = NoExchange
  <2>1. inStep' => stream' = Quiet
    BY <1>1, <1>3 DEF ReadSoFar, IsOver
  <2> QED BY <1>1, <1>3, <2>1, AtRest
<1> QED BY <1>1, <1>2, <1>3 DEF Tpm2SubmitCommand

LEMMA ShutdownKeeps ==
    ASSUME TpmInv, Shutdown
    PROVE  TpmInv' /\ sim' = sim
<1>1. /\ UNCHANGED <<sim, stream, inStep, phase>> /\ phase = "shutdown"
      /\ sim \in [power : BOOLEAN, nv : BOOLEAN, shut : BOOLEAN] /\ inStep \in BOOLEAN
      /\ stream \in [Ports -> Seq(Words)]
      /\ inStep => ReadSoFar /\ InOrder
  BY DEF Shutdown, TpmShutdown, DestroyTpmSocket, TpmInv, secVars
<1>2. CASE TpmShutdown
  <2>1. "Shutdown" \in Known /\ Start("Shutdown", 2) /\ 2 \in Nat
    BY <1>2 DEF Known, TpmShutdown
  <2>2. inStep' => stream' = Quiet
    BY <1>1, <1>2, NoneIsOne DEF ReadSoFar, TpmShutdown
  <2> QED BY <1>1, <2>1, <2>2, StartKeeps
<1>3. CASE DestroyTpmSocket
  <2>1. /\ exchange.at \in {"done", "failed"} /\ exchange.command # "PowerOff"
        /\ Start(FollowedBy(exchange.command), 0)
    BY <1>3 DEF DestroyTpmSocket, IsOver
  <2>2. exchange.command \in {"Shutdown", "NvOff"}
    BY <1>1, <2>1, UnderWay
  <2>3. inStep => stream = Quiet /\ InOrder /\ exchange.at = "done"
    BY <1>1, <2>1 DEF ReadSoFar
  <2>4. CASE exchange.command = "Shutdown"
    <3>1. Start("NvOff", 0) /\ "NvOff" \in Known
      BY <2>1, <2>4, FollowedIs DEF Known, Signals
    <3>2. inStep' => stream' = Quiet /\ sim.shut
      BY <1>1, <2>3, <2>4 DEF InOrder
    <3> QED BY <1>1, <3>1, <3>2, StartKeeps
  <2>5. CASE exchange.command = "NvOff"
    <3>1. Start("PowerOff", 0) /\ "PowerOff" \in Known
      BY <2>1, <2>5, FollowedIs DEF Known, Signals
    <3>2. inStep' => stream' = Quiet /\ sim.shut /\ ~sim.nv
      BY <1>1, <2>3, <2>5 DEF InOrder
    <3> QED BY <1>1, <3>1, <3>2, StartKeeps
  <2> QED BY <2>2, <2>4, <2>5
<1> QED BY <1>2, <1>3 DEF Shutdown

LEMMA ForgottenKeeps ==
    ASSUME TpmInv, Forget
    PROVE  TpmInv' /\ sim' = sim
<1>1. exchange' = NoExchange /\ stream' = Quiet /\ inStep' = TRUE /\ sim' = sim
  BY DEF Forget, Quiet
<1>2. stream' \in [Ports -> Seq(Words)] /\ inStep' \in BOOLEAN
  BY <1>1, NoneIsOne
<1> QED BY <1>1, <1>2, AtRest

LEMMA TpmNext ==
    ASSUME TpmInv, [Next]_vars
    PROVE  TpmInv' /\ (sim.power /\ ~sim'.power /\ inStep => sim.shut /\ ~sim.nv)
<1>0. TpmInv => (phase \notin {"power", "booted", "shutdown"} => exchange = NoExchange)
  BY DEF TpmInv, OfPhase
<1>1. CASE /\ UNCHANGED tpmVars
           /\ phase' = phase \/ exchange = NoExchange
  BY <1>1, TpmElsewhere DEF tpmVars
<1>2. CASE UNCHANGED vars
  BY <1>1, <1>2 DEF vars, secVars
<1>3. CASE SecPhase
  <2>1. UNCHANGED tpmVars /\ phase \in {"off", "open", "load"}
    BY <1>3 DEF SecPhase, SecMain, SecOpenFile, SecLoadFromCore
  <2> QED BY <1>0, <1>1, <2>1
<1>4. CASE PeiPhase
  <2>1. UNCHANGED tpmVars /\ phase \in {"mode", "scan", "coalesce", "hobs"}
    BY <1>4 DEF PeiPhase, InitializeBootMode, ScanRegion, ScanEnds, Coalesce, PeimInitializeWinNtFwh
  <2> QED BY <1>0, <1>1, <2>1
<1>5. CASE DxePhase
  <2>1. CASE FvbInitialize /\ UNCHANGED tpmVars
    <3>1. phase \in {"size", "fvb"}
      BY <2>1 DEF FvbInitialize
    <3> QED BY <1>0, <1>1, <2>1, <3>1
  <2>2. CASE CreateTpmSocket
    BY <2>2, ConnectKeeps
  <2>3. CASE Tpm2SubmitCommand
    BY <2>3, SubmitKeeps
  <2>4. CASE Communicate /\ UNCHANGED secVars
    <3>1. phase' = phase
      BY <2>4 DEF secVars
    <3>2. CASE WriteBytes
      BY <3>1, <3>2, WriteKeeps
    <3>3. CASE ReadMultipleBytes
      BY <3>1, <3>3, ReadLengthKeeps
    <3>4. CASE ReadBytes
      BY <3>1, <3>4, ReadBytesKeeps
    <3>5. CASE ReadData32
      BY <3>1, <3>5, ReadStatusKeeps
    <3>6. CASE SocketError
      BY <3>1, <3>6, ErrorKeeps
    <3> QED BY <2>4, <3>2, <3>3, <3>4, <3>5, <3>6 DEF Communicate
  <2> QED BY <1>5, <2>1, <2>2, <2>3, <2>4 DEF DxePhase
<1>6. CASE PlatformBootManagerBeforeConsole \/ PlatformBootManagerAfterConsole
  <2>1. UNCHANGED tpmVars /\ phase \in {"before", "after"}
    BY <1>6 DEF PlatformBootManagerBeforeConsole, PlatformBootManagerAfterConsole
  <2> QED BY <1>0, <1>1, <2>1
<1>7. CASE StageCapsule \/ RequestReset
  <2>1. UNCHANGED tpmVars /\ exchange = NoExchange
    BY <1>7 DEF StageCapsule, RequestReset
  <2> QED BY <1>1, <2>1
<1>8. CASE WinNtResetSystem
  <2>1. UNCHANGED tpmVars /\ phase = "reset"
    BY <1>8 DEF WinNtResetSystem
  <2> QED BY <1>0, <1>1, <2>1
<1>9. CASE Shutdown
  BY <1>9, ShutdownKeeps
<1>10. CASE ExitProcess \/ Exit \/ PeiResetSystem \/ Die
  <2>1. Forget
    BY <1>10 DEF ExitProcess, Exit, PeiResetSystem, Die
  <2> QED BY <2>1, ForgottenKeeps
<1> QED BY <1>2, <1>3, <1>4, <1>5, <1>6, <1>7, <1>8, <1>9, <1>10 DEF Next

LEMMA TpmAlways == Spec => []TpmInv
<1>1. Init => TpmInv
  BY TpmInit
<1>2. TpmInv /\ [Next]_vars => TpmInv'
  BY TpmNext
<1> QED BY <1>1, <1>2, PTL DEF Spec

(* ReadBytes collects an answer that comes in pieces: as long as no        *)
(* exchange has broken off, a command that succeeds has its own answer,    *)
(* to the last byte, whatever the lengths of the answers and the buffers.  *)
THEOREM AnswerIsRead == Spec => []ResponseIsOwn
<1>1. TpmInv => ResponseIsOwn
  BY DEF TpmInv, ReadSoFar, ResponseIsOwn
<1> QED BY <1>1, TpmAlways, PTL

(* The simulator loses its power only when it was shut down and its        *)
(* storage is off, as long as the answers were read to their ends.         *)
THEOREM PowerIsCutLast == Spec => PowerOffIsOrderly
<1>1. TpmInv /\ [Next]_vars => [sim.power /\ ~sim'.power /\ inStep => sim.shut /\ ~sim.nv]_vars
  BY TpmNext
<1> QED BY <1>1, TpmAlways, PTL DEF Spec, PowerOffIsOrderly
----------------------------------------------------------------------------
(* The search for the core.  Every nonempty set of numbers has a least.    *)
LEMMA Least == ASSUME NEW S, S \subseteq Nat, S # {} PROVE Min(S) \in S /\ \A n \in S : Min(S) <= n
<1> DEFINE R == OpToRel(<, Nat)
<1>1. IsWellFoundedOn(R, Nat)
  BY NatLessThanWellFounded
<1>2. \A m, n \in Nat : m < n => <<m, n>> \in R
  BY DEF OpToRel
<1> HIDE DEF R
<1>3. PICK m \in S : \A n \in S : ~(<<n, m>> \in R)
  BY <1>1, WFMin
<1>4. \A n \in S : ~(n < m)
  <2>1. m \in Nat /\ \A n \in S : n \in Nat
    OBVIOUS
  <2> QED BY <1>2, <1>3, <2>1
<1>5. \A n \in S : m <= n
  BY <1>4
<1> QED BY <1>5 DEF Min

(* A search that goes on, if at all, to a place further on: there is a     *)
(* function that it computes.                                              *)
Ends(L, Go, nx, res) ==
    \E g : g = [o \in 0 .. L |-> IF o \in Go /\ nx[o] <= L THEN g[nx[o]] ELSE res[o]]

LEMMA SearchExists ==
  ASSUME NEW L \in Nat, NEW Go, NEW nx, NEW res,
         \A o \in 0 .. L : o \in Go => nx[o] \in Nat /\ nx[o] > o
  PROVE  Ends(L, Go, nx, res)
<1> DEFINE S == {k \in 0 .. L + 1 : \E g :
                   g = [o \in k .. L |-> IF o \in Go /\ nx[o] <= L THEN g[nx[o]] ELSE res[o]]}
<1>1. L + 1 \in S
  <2> DEFINE g == [o \in L + 1 .. L |-> res[o]]
  <2>1. g = [o \in L + 1 .. L |-> IF o \in Go /\ nx[o] <= L THEN g[nx[o]] ELSE res[o]]
    OBVIOUS
  <2> HIDE DEF g
  <2>2. \E f : f = [o \in L + 1 .. L |-> IF o \in Go /\ nx[o] <= L THEN f[nx[o]] ELSE res[o]]
    BY <2>1
  <2>3. L + 1 \in 0 .. L + 1
    OBVIOUS
  <2> QED BY <2>2, <2>3
<1>2. S \subseteq Nat /\ S # {}
  BY <1>1
<1>3. PICK k \in S : \A n \in S : k <= n
  <2> HIDE DEF S
  <2> QED BY <1>2, Least
<1>4. PICK g : g = [o \in k .. L |-> IF o \in Go /\ nx[o] <= L THEN g[nx[o]] ELSE res[o]]
  BY <1>3
<1>5. CASE k = 0
  BY <1>4, <1>5 DEF Ends
<1>6. CASE k # 0
  <2> DEFINE i == k - 1
             h == [o \in i .. L |-> IF o = i THEN (IF o \in Go /\ nx[o] <= L THEN g[nx[o]] ELSE res[o])
                                             ELSE g[o]]
  <2>1. k \in 1 .. L + 1 /\ i \in 0 .. L /\ i < k
    BY <1>2, <1>3, <1>6
  <2>2. ASSUME NEW o \in i .. L
        PROVE  h[o] = IF o \in Go /\ nx[o] <= L THEN h[nx[o]] ELSE res[o]
    <3>1. h[o] = IF o \in Go /\ nx[o] <= L THEN g[nx[o]] ELSE res[o]
      <4>1. CASE o = i
        BY <4>1
      <4>2. CASE o # i
        <5>1. o \in k .. L
          BY <2>1, <4>2
        <5>2. h[o] = g[o]
          BY <4>2
        <5> HIDE DEF h
        <5> QED BY <1>4, <5>1, <5>2
      <4> QED BY <4>1, <4>2
    <3>2. ASSUME o \in Go, nx[o] <= L PROVE h[nx[o]] = g[nx[o]]
      <4>1. nx[o] \in i .. L /\ nx[o] # i
        BY <2>1, <3>2
      <4> QED BY <4>1
    <3> HIDE DEF h
    <3> QED BY <3>1, <3>2
  <2>3. h = [o \in i .. L |-> h[o]]
    OBVIOUS
  <2>4. h = [o \in i .. L |-> IF o \in Go /\ nx[o] <= L THEN h[nx[o]] ELSE res[o]]
    <3> HIDE DEF h
    <3> QED BY <2>2, <2>3
  <2>5. i \in S
    <3> HIDE DEF h
    <3> QED BY <2>1, <2>4
  <2> HIDE DEF S
  <2> QED BY <1>3, <2>1, <2>5
<1> QED BY <1>5, <1>6
(* What the search of a volume gives from each offset.                     *)
Matches(v, type, o) == o \in DOMAIN v.at /\ IsWhole(v, o) /\ v.at[o].type = type
Passes(v, type, o) == o \in DOMAIN v.at /\ IsPassed(v, o) /\ ~Matches(v, type, o)
Searches(v, type, g) ==
    \A o \in 0 .. v.length :
      /\ Matches(v, type, o) => g[o] = {o}
      /\ Passes(v, type, o) /\ EndOf(v, o) <= v.length => g[o] = g[EndOf(v, o)]
      /\ ~Matches(v, type, o) /\ ~(Passes(v, type, o) /\ EndOf(v, o) <= v.length) => g[o] = {}

LEMMA EndIs ==
  ASSUME NEW v, IsVolume(v), NEW o \in DOMAIN v.at
  PROVE  /\ o \in Nat /\ o < v.length - FileHeader /\ v.length \in Nat
         /\ EndOf(v, o) \in Nat /\ EndOf(v, o) > o
         /\ EndOf(v, o) = o + (IF GetFileState(v, v.at[o]) = HEADER_INVALID
                                 THEN FileHeader ELSE v.at[o].size)
<1> DEFINE size == IF GetFileState(v, v.at[o]) = HEADER_INVALID THEN FileHeader ELSE v.at[o].size
<1>1. size \in Nat \ {0}
  BY DEF IsVolume, FileHeader
<1>2. EndOf(v, o) = o + size /\ o \in Nat /\ o < v.length - FileHeader /\ v.length \in Nat
  BY DEF IsVolume, EndOf
<1>3. size = IF GetFileState(v, v.at[o]) = HEADER_INVALID THEN FileHeader ELSE v.at[o].size
  OBVIOUS
<1> HIDE DEF size
<1> QED BY <1>1, <1>2, <1>3

LEMMA StatesApart ==
  /\ HEADER_INVALID \notin {DATA_VALID, MARKED_FOR_UPDATE, DELETED}
  /\ DELETED \notin {DATA_VALID, MARKED_FOR_UPDATE}
  /\ -1 \notin {HEADER_INVALID, DATA_VALID, MARKED_FOR_UPDATE, DELETED}
BY DEF HEADER_INVALID, DATA_VALID, MARKED_FOR_UPDATE, DELETED

LEMMA ErasedIs ==
  ASSUME NEW v, IsVolume(v), NEW o, o \notin DOMAIN v.at
  PROVE  GetFileState(v, Header(v, o)) = -1
BY DEF IsVolume, GetFileState, Header

(* One look of SecFfsFindNextFile, and what comes of it.                   *)
Look(v, type, o, g) ==
    LET header == Header(v, o)
        state == GetFileState(v, header)
        behind(size) == IF o + size > v.length THEN {} ELSE g[o + size]
    IN  CASE o >= v.length - FileHeader -> {}
          [] state = HEADER_INVALID -> behind(FileHeader)
          [] state \in {DATA_VALID, MARKED_FOR_UPDATE} /\ ~header.sumIsZero -> {}
          [] state \in {DATA_VALID, MARKED_FOR_UPDATE} /\ header.sumIsZero ->
               IF header.type = type THEN {o} ELSE behind(header.size)
          [] state = DELETED -> behind(header.size)
          [] OTHER -> {}

LEMMA LookIs ==
  ASSUME NEW v, IsVolume(v), NEW type, NEW o \in 0 .. v.length, NEW g
  PROVE  Look(v, type, o, g)
           = IF Passes(v, type, o) /\ EndOf(v, o) <= v.length THEN g[EndOf(v, o)]
             ELSE IF Matches(v, type, o) THEN {o} ELSE {}
<1> DEFINE header == Header(v, o)
           state == GetFileState(v, header)
           behind(size) == IF o + size > v.length THEN {} ELSE g[o + size]
           look == CASE o >= v.length - FileHeader -> {}
                [] state = HEADER_INVALID -> behind(FileHeader)
                [] state \in {DATA_VALID, MARKED_FOR_UPDATE} /\ ~header.sumIsZero -> {}
                [] state \in {DATA_VALID, MARKED_FOR_UPDATE} /\ header.sumIsZero ->
                     IF header.type = type THEN {o} ELSE behind(header.size)
                [] state = DELETED -> behind(header.size)
                [] OTHER -> {}
<1>a. Look(v, type, o, g) = look
  BY DEF Look
<1> SUFFICES look = IF Passes(v, type, o) /\ EndOf(v, o) <= v.length THEN g[EndOf(v, o)]
                    ELSE IF Matches(v, type, o) THEN {o} ELSE {}
  <2> HIDE DEF look
  <2> QED BY <1>a
<1>1. CASE o \notin DOMAIN v.at
  <2>1. state = -1
    BY <1>1, ErasedIs
  <2>2. look = {}
    <3> HIDE DEF state, header, behind
    <3> QED BY <2>1, StatesApart
  <2> HIDE DEF look
  <2> QED BY <1>1, <2>2 DEF Passes, Matches
<1>2. CASE o \in DOMAIN v.at
  <2>1. header = v.at[o]
    BY <1>2 DEF Header
  <2>2. state = GetFileState(v, v.at[o])
    BY <2>1
  <2>0. header.size \in Nat
    BY <1>2, <2>1 DEF IsVolume
  <2>3. /\ ~(o >= v.length - FileHeader) /\ EndOf(v, o) \in Nat /\ v.length \in Nat
        /\ EndOf(v, o) = o + (IF state = HEADER_INVALID THEN FileHeader ELSE header.size)
    BY <1>2, <2>1, <2>2, EndIs DEF FileHeader
  <2>4. /\ IsWhole(v, o) <=> header.sumIsZero /\ state \in {DATA_VALID, MARKED_FOR_UPDATE}
        /\ IsPassed(v, o) <=> \/ header.sumIsZero /\ state \in {DATA_VALID, MARKED_FOR_UPDATE}
                              \/ state \in {DELETED, HEADER_INVALID}
        /\ Matches(v, type, o) <=> IsWhole(v, o) /\ header.type = type
        /\ Passes(v, type, o) <=> IsPassed(v, o) /\ ~Matches(v, type, o)
    BY <1>2, <2>1, <2>2 DEF IsWhole, IsPassed, Matches, Passes
  <2> HIDE DEF header, state
  <2>5. \A size : behind(size) = IF o + size > v.length THEN {} ELSE g[o + size]
    OBVIOUS
  <2> HIDE DEF behind
  <2>6. CASE state = HEADER_INVALID
    <3>1. look = behind(FileHeader)
      BY <2>3, <2>6, StatesApart
    <3>2. Passes(v, type, o) /\ ~Matches(v, type, o)
      BY <2>4, <2>6, StatesApart
    <3>3. EndOf(v, o) = o + FileHeader
      BY <2>3, <2>6
    <3>4. behind(FileHeader) = IF EndOf(v, o) > v.length THEN {} ELSE g[EndOf(v, o)]
      BY <2>5, <3>3
    <3>5. EndOf(v, o) > v.length <=> ~(EndOf(v, o) <= v.length)
      BY <2>3
    <3> HIDE DEF look
    <3> QED BY <3>1, <3>2, <3>4, <3>5
  <2>7. CASE state \in {DATA_VALID, MARKED_FOR_UPDATE} /\ ~header.sumIsZero
    <3>1. look = {}
      BY <2>3, <2>7, StatesApart
    <3>2. ~Passes(v, type, o) /\ ~Matches(v, type, o)
      BY <2>4, <2>7, StatesApart
    <3> HIDE DEF look
    <3> QED BY <3>1, <3>2
  <2>8. CASE state \in {DATA_VALID, MARKED_FOR_UPDATE} /\ header.sumIsZero
    <3>1. look = IF header.type = type THEN {o} ELSE behind(header.size)
      BY <2>3, <2>8, StatesApart
    <3>2. /\ Matches(v, type, o) <=> header.type = type
          /\ Passes(v, type, o) <=> header.type # type
      BY <2>4, <2>8
    <3>3. EndOf(v, o) = o + header.size
      BY <2>3, <2>8, StatesApart
    <3>4. behind(header.size) = IF EndOf(v, o) > v.length THEN {} ELSE g[EndOf(v, o)]
      BY <2>5, <3>3
    <3>5. EndOf(v, o) > v.length <=> ~(EndOf(v, o) <= v.length)
      BY <2>3
    <3> HIDE DEF look
    <3> QED BY <3>1, <3>2, <3>4, <3>5
  <2>9. CASE state = DELETED
    <3>1. look = behind(header.size)
      BY <2>3, <2>9, StatesApart
    <3>2. Passes(v, type, o) /\ ~Matches(v, type, o)
      BY <2>4, <2>9, StatesApart
    <3>3. EndOf(v, o) = o + header.size
      BY <2>3, <2>9, StatesApart
    <3>4. behind(header.size) = IF EndOf(v, o) > v.length THEN {} ELSE g[EndOf(v, o)]
      BY <2>5, <3>3
    <3>5. EndOf(v, o) > v.length <=> ~(EndOf(v, o) <= v.length)
      BY <2>3
    <3> HIDE DEF look
    <3> QED BY <3>1, <3>2, <3>4, <3>5
  <2>10. CASE state \notin {HEADER_INVALID, DATA_VALID, MARKED_FOR_UPDATE, DELETED}
    <3>1. look = {}
      BY <2>3, <2>10
    <3>2. ~Passes(v, type, o) /\ ~Matches(v, type, o)
      BY <2>4, <2>10
    <3> HIDE DEF look
    <3> QED BY <3>1, <3>2
  <2> HIDE DEF look
  <2> QED BY <2>6, <2>7, <2>8, <2>9, <2>10
<1> QED BY <1>1, <1>2

(* What SecFfsFindNextFile gives is what a search gives that follows       *)
(* Searches.                                                               *)
LEMMA SearchIs ==
  ASSUME NEW v, IsVolume(v), NEW type
  PROVE  \E g : /\ Searches(v, type, g)
                /\ \A s \in 0 .. v.length : SecFfsFindNextFile(v, type, s) = g[s]
<1> DEFINE L == v.length
           Go == {o \in 0 .. L : Passes(v, type, o)}
           nx == [p \in 0 .. v.length |-> EndOf(v, p)]
           res == [p \in 0 .. v.length |-> IF Matches(v, type, p) THEN {p} ELSE {}]
           f == CHOOSE g : g = [o \in 0 .. v.length |-> Look(v, type, o, g)]
<1>1. \A s : SecFfsFindNextFile(v, type, s) = f[s]
  BY DEF SecFfsFindNextFile, Look
<1>2. L \in Nat
  BY DEF IsVolume
<1>3. \A o \in 0 .. L : o \in Go => nx[o] \in Nat /\ nx[o] > o
  <2> TAKE o \in 0 .. L
  <2> HAVE o \in Go
  <2>1. o \in DOMAIN v.at
    BY DEF Passes
  <2> QED BY <2>1, EndIs
<1>4. \A g : \A o \in 0 .. v.length : Look(v, type, o, g) = IF o \in Go /\ nx[o] <= L THEN g[nx[o]] ELSE res[o]
  <2> TAKE g
  <2> TAKE o \in 0 .. v.length
  <2>1. nx[o] = EndOf(v, o) /\ res[o] = IF Matches(v, type, o) THEN {o} ELSE {}
    OBVIOUS
  <2>2. o \in Go <=> Passes(v, type, o)
    OBVIOUS
  <2> HIDE DEF nx, res, Go
  <2> QED BY <2>1, <2>2, LookIs
<1>5. Ends(L, Go, nx, res)
  <2> HIDE DEF L, Go, nx, res
  <2> QED BY <1>2, <1>3, SearchExists
<1>6. \E g : g = [o \in 0 .. v.length |-> Look(v, type, o, g)]
  <2>1. PICK g : g = [o \in 0 .. L |-> IF o \in Go /\ nx[o] <= L THEN g[nx[o]] ELSE res[o]]
    BY <1>5 DEF Ends
  <2>2. \A o \in 0 .. v.length : Look(v, type, o, g) = IF o \in Go /\ nx[o] <= L THEN g[nx[o]] ELSE res[o]
    BY <1>4
  <2> HIDE DEF Go, nx, res
  <2>3. g = [o \in 0 .. v.length |-> Look(v, type, o, g)]
    BY <2>1, <2>2
  <2> QED BY <2>3
<1>7. f = [o \in 0 .. v.length |-> Look(v, type, o, f)]
  <2> QED BY <1>6
<1>8. ASSUME NEW o \in 0 .. v.length
      PROVE  f[o] = IF Passes(v, type, o) /\ EndOf(v, o) <= v.length THEN f[EndOf(v, o)]
                    ELSE IF Matches(v, type, o) THEN {o} ELSE {}
  <2>1. f[o] = Look(v, type, o, f)
    <3> HIDE DEF f
    <3> QED BY <1>7
  <2>2. Look(v, type, o, f) = IF o \in Go /\ nx[o] <= L THEN f[nx[o]] ELSE res[o]
    <3> HIDE DEF f, Go, nx, res
    <3> QED BY <1>4
  <2>3. /\ nx[o] = EndOf(v, o) /\ res[o] = IF Matches(v, type, o) THEN {o} ELSE {}
        /\ o \in Go <=> Passes(v, type, o)
    OBVIOUS
  <2> HIDE DEF f, Go, nx, res
  <2> QED BY <2>1, <2>2, <2>3
<1>9. Searches(v, type, f)
  <2> HIDE DEF f
  <2> SUFFICES ASSUME NEW o \in 0 .. v.length
               PROVE  /\ Matches(v, type, o) => f[o] = {o}
                      /\ Passes(v, type, o) /\ EndOf(v, o) <= v.length => f[o] = f[EndOf(v, o)]
                      /\ ~Matches(v, type, o) /\ ~(Passes(v, type, o) /\ EndOf(v, o) <= v.length)
                           => f[o] = {}
    BY DEF Searches
  <2>1. Matches(v, type, o) => ~Passes(v, type, o)
    BY DEF Passes
  <2> QED BY <1>8, <2>1
<1> HIDE DEF f
<1> QED BY <1>1, <1>9

(* What the search finds is reached from where it began.                   *)
Tiles(v, s, p) ==
    \E before \in SUBSET {o \in DOMAIN v.at : o < p /\ IsPassed(v, o)} :
      {EndOf(v, o) : o \in before} \cup {s} = before \cup {p}

LEMMA FoundIsReached ==
  ASSUME NEW v, IsVolume(v), NEW type, NEW g, Searches(v, type, g)
  PROVE  \A s \in 0 .. v.length : g[s] # {} =>
           \E p : g[s] = {p} /\ Matches(v, type, p) /\ s <= p /\ Tiles(v, s, p)
<1> DEFINE Good(s) == g[s] # {} => \E p : /\ g[s] = {p} /\ Matches(v, type, p)
                                          /\ s <= p /\ Tiles(v, s, p)
           L == v.length
           Bad == {n \in 0 .. L : ~Good(L - n)}
<1>1. L \in Nat
  BY DEF IsVolume
<1>2. CASE Bad = {}
  <2>1. ASSUME NEW s \in 0 .. L PROVE Good(s)
    <3> HIDE DEF Good
    <3>1. L - s \in 0 .. L /\ L - (L - s) = s
      BY <1>1 DEF L
    <3>2. Good(L - (L - s))
      BY <1>2, <3>1
    <3> QED BY <3>1, <3>2
  <2> QED BY <2>1
<1>3. CASE Bad # {}
  <2>1. PICK n \in Bad : \A m \in Bad : n <= m
    <3>1. Bad \subseteq Nat
      OBVIOUS
    <3> HIDE DEF Bad
    <3> QED BY <1>3, <3>1, Least
  <2> DEFINE s == L - n
  <2>2. n \in 0 .. L /\ ~Good(s)
    OBVIOUS
  <2>3. s \in 0 .. L /\ s \in 0 .. v.length
    BY <1>1, <2>2
  <2>4. g[s] # {}
    BY <2>2
  <2>5. \A e \in s + 1 .. L : Good(e)
    <3> TAKE e \in s + 1 .. L
    <3> HIDE DEF Good
    <3>1. L - e \in 0 .. L /\ L - e < n /\ L - (L - e) = e
      BY <1>1, <2>2
    <3> QED BY <2>1, <3>1
  <2> HIDE DEF s, Bad
  <2>6. CASE Matches(v, type, s)
    <3>1. g[s] = {s}
      BY <2>3, <2>6 DEF Searches
    <3>2. Tiles(v, s, s)
      <4>1. {EndOf(v, o) : o \in {}} \cup {s} = {} \cup {s}
        OBVIOUS
      <4> QED BY <4>1 DEF Tiles
    <3> QED BY <1>1, <2>2, <2>3, <2>6, <3>1, <3>2
  <2>7. CASE Passes(v, type, s) /\ EndOf(v, s) <= L
    <3> DEFINE e == EndOf(v, s)
    <3>1. g[s] = g[e]
      BY <2>3, <2>7 DEF Searches
    <3>2. e \in s + 1 .. L /\ s \in DOMAIN v.at /\ IsPassed(v, s)
      <4>1. s \in DOMAIN v.at /\ IsPassed(v, s)
        BY <2>7 DEF Passes
      <4> QED BY <1>1, <2>3, <2>7, <4>1, EndIs
    <3>3. e = EndOf(v, s)
      OBVIOUS
    <3> HIDE DEF e
    <3>4. PICK p : g[e] = {p} /\ Matches(v, type, p) /\ e <= p /\ Tiles(v, e, p)
      BY <2>4, <2>5, <3>1, <3>2
    <3>5. PICK before \in SUBSET {o \in DOMAIN v.at : o < p /\ IsPassed(v, o)} :
            {EndOf(v, o) : o \in before} \cup {e} = before \cup {p}
      BY <3>4 DEF Tiles
    <3>6. p \in Nat /\ s < p /\ s <= p
      <4>1. p \in Nat
        BY <3>4, EndIs DEF Matches
      <4> QED BY <1>1, <2>3, <3>2, <3>4, <4>1
    <3>7. before \cup {s} \in SUBSET {o \in DOMAIN v.at : o < p /\ IsPassed(v, o)}
      BY <3>2, <3>5, <3>6
    <3>8. {EndOf(v, o) : o \in before \cup {s}} \cup {s} = (before \cup {s}) \cup {p}
      <4>1. {EndOf(v, o) : o \in before \cup {s}} = {EndOf(v, o) : o \in before} \cup {e}
        BY <3>3
      <4> QED BY <3>5, <4>1
    <3>9. Tiles(v, s, p)
      BY <3>7, <3>8 DEF Tiles
    <3>10. g[s] = {p}
      BY <3>1, <3>4
    <3> QED BY <2>2, <3>4, <3>6, <3>9, <3>10
  <2>8. CASE ~Matches(v, type, s) /\ ~(Passes(v, type, s) /\ EndOf(v, s) <= L)
    <3>1. g[s] = {}
      BY <2>3, <2>8 DEF Searches
    <3> QED BY <2>4, <3>1
  <2> QED BY <2>6, <2>7, <2>8
<1> QED BY <1>2, <1>3

(* A whole file of the type that is reached is not behind what is found.   *)
LEMMA ReachedIsFound ==
  ASSUME NEW v, IsVolume(v), NEW type, NEW g, Searches(v, type, g),
         NEW q, Matches(v, type, q), IsReached(v, q)
  PROVE  \E p : g[v.header] = {p} /\ Matches(v, type, p) /\ p <= q
<1>1. PICK before \in SUBSET {o \in DOMAIN v.at : o < q /\ IsPassed(v, o)} :
        {EndOf(v, o) : o \in before} \cup {v.header} = before \cup {q}
  BY DEF IsReached
<1> DEFINE Good(b) == \E p : g[b] = {p} /\ Matches(v, type, p) /\ p <= q
           Bad == {n \in 0 .. q : q - n \in before \cup {q} /\ ~Good(q - n)}
<1>2. q \in DOMAIN v.at /\ q \in Nat /\ q < v.length /\ v.length \in Nat
  <2>1. q \in DOMAIN v.at
    BY DEF Matches
  <2> QED BY <2>1, EndIs DEF FileHeader
<1>3. ASSUME NEW b \in before \cup {q} PROVE b \in 0 .. q /\ b \in DOMAIN v.at
  <2>1. b \in DOMAIN v.at /\ (b = q \/ b < q)
    BY <1>1, <1>2
  <2> QED BY <1>2, <2>1, EndIs
<1>4. CASE Bad = {}
  <2>1. v.header \in before \cup {q}
    BY <1>1
  <2>2. q - v.header \in 0 .. q /\ q - (q - v.header) = v.header
    BY <1>2, <1>3, <2>1
  <2>3. Good(q - (q - v.header))
    <3> HIDE DEF Good
    <3> QED BY <1>4, <2>1, <2>2
  <2> QED BY <2>2, <2>3
<1>5. CASE Bad # {}
  <2>1. PICK n \in Bad : \A m \in Bad : n <= m
    <3>1. Bad \subseteq Nat
      OBVIOUS
    <3> HIDE DEF Bad
    <3> QED BY <1>5, <3>1, Least
  <2> DEFINE b == q - n
  <2>2. n \in 0 .. q /\ b \in before \cup {q} /\ ~Good(b)
    OBVIOUS
  <2>3. b \in 0 .. q /\ b \in DOMAIN v.at /\ b \in 0 .. v.length
    <3> HIDE DEF b
    <3> QED BY <1>2, <1>3, <2>2
  <2>4. ASSUME NEW e \in before \cup {q}, e > b PROVE Good(e)
    <3> HIDE DEF Good
    <3>1. e \in 0 .. q
      BY <1>3
    <3>2. q - e \in 0 .. q /\ q - e < n /\ q - (q - e) = e
      BY <1>2, <2>2, <2>4, <3>1
    <3> QED BY <2>1, <2>4, <3>2
  <2> HIDE DEF b, Bad
  <2>5. CASE Matches(v, type, b)
    <3>1. g[b] = {b}
      BY <2>3, <2>5 DEF Searches
    <3> QED BY <1>2, <2>2, <2>3, <2>5, <3>1
  <2>6. CASE ~Matches(v, type, b)
    <3>1. b \in before
      BY <2>2, <2>6
    <3>2. Passes(v, type, b)
      BY <1>1, <2>3, <2>6, <3>1 DEF Passes
    <3>3. EndOf(v, b) \in before \cup {q} /\ EndOf(v, b) > b
      BY <1>1, <2>3, <3>1, EndIs
    <3>4. EndOf(v, b) <= v.length
      BY <1>2, <1>3, <3>3
    <3>5. g[b] = g[EndOf(v, b)]
      BY <2>3, <3>2, <3>4 DEF Searches
    <3>6. Good(EndOf(v, b))
      <4> HIDE DEF Good
      <4> QED BY <2>4, <3>3
    <3> QED BY <2>2, <3>5, <3>6
  <2> QED BY <2>5, <2>6
<1> QED BY <1>4, <1>5

(* SecFfsFindNextFile, followed file by file through any volume, finds     *)
(* exactly the first whole file of the type among those that tile it, and  *)
(* none where there is none.                                               *)
THEOREM FindIsFirst ==
  ASSUME NEW v, IsVolume(v), NEW type
  PROVE  SecFfsFindNextFile(v, type, v.header) = FirstOf(v, type)
<1>1. PICK g : /\ Searches(v, type, g)
               /\ \A s \in 0 .. v.length : SecFfsFindNextFile(v, type, s) = g[s]
  BY SearchIs
<1>2. v.header \in 0 .. v.length /\ SecFfsFindNextFile(v, type, v.header) = g[v.header]
  BY <1>1 DEF IsVolume
<1> DEFINE whole == {o \in DOMAIN v.at : /\ v.at[o].type = type
                                         /\ IsReached(v, o) /\ IsWhole(v, o)}
<1>3. ASSUME NEW o PROVE o \in whole <=> Matches(v, type, o) /\ IsReached(v, o)
  BY DEF Matches
<1>4. whole \subseteq Nat
  BY EndIs
<1>5. FirstOf(v, type) = IF whole = {} THEN {} ELSE {Min(whole)}
  BY DEF FirstOf
<1>6. ASSUME NEW p, Tiles(v, v.header, p), Matches(v, type, p) PROVE p \in whole
  <2>1. IsReached(v, p)
    BY <1>6 DEF Tiles, IsReached
  <2> QED BY <1>3, <1>6, <2>1
<1> HIDE DEF whole
<1>7. CASE whole = {}
  <2>1. g[v.header] = {}
    BY <1>1, <1>2, <1>6, <1>7, FoundIsReached
  <2> QED BY <1>2, <1>5, <1>7, <2>1
<1>8. CASE whole # {}
  <2>1. Min(whole) \in whole /\ \A n \in whole : Min(whole) <= n
    BY <1>4, <1>8, Least
  <2>2. PICK p : g[v.header] = {p} /\ Matches(v, type, p) /\ p <= Min(whole)
    BY <1>1, <1>3, <2>1, ReachedIsFound
  <2>3. p \in whole
    <3>1. g[v.header] # {}
      BY <2>2
    <3>2. PICK r : g[v.header] = {r} /\ Tiles(v, v.header, r)
      BY <1>1, <1>2, <3>1, FoundIsReached
    <3>3. r = p
      BY <2>2, <3>2
    <3> QED BY <1>6, <2>2, <3>2, <3>3
  <2>4. p = Min(whole)
    <3>1. p \in Nat /\ Min(whole) \in Nat
      BY <1>4, <2>1, <2>3
    <3> QED BY <2>1, <2>2, <2>3, <3>1
  <2> QED BY <1>2, <1>5, <1>8, <2>2, <2>4
<1> QED BY <1>7, <1>8

(* No core can be taken from this FD.                                      *)
Without(v) ==
    \A o \in FirstOf(v, "PEI_CORE") : SecFfsFindSectionData(v.at[o], "PE32") = {}

CoreInv ==
    /\ gFdInfo \in Seq(Images)
    /\ PeiCoreFile = Null => \A fd \in 1 .. Len(gFdInfo) : Without(gFdInfo[fd])
    /\ PeiCoreFile # Null =>
         /\ PeiCoreFile.fd \in 1 .. Len(gFdInfo)
         /\ PeiCoreFile.file \in FirstOf(gFdInfo[PeiCoreFile.fd], "PEI_CORE")
         /\ gFdInfo[PeiCoreFile.fd].at[PeiCoreFile.file].sections[PeiCoreFile.section] = "PE32"
         /\ \A fd \in 1 .. PeiCoreFile.fd - 1 : Without(gFdInfo[fd])

LEMMA SectionIs ==
    ASSUME NEW file, file.sections \in Seq(STRING), NEW type,
           NEW i \in SecFfsFindSectionData(file, type)
    PROVE  i \in Nat /\ file.sections[i] = type
<1> DEFINE S == {n \in DOMAIN file.sections : file.sections[n] = type}
<1>1. S \subseteq Nat /\ \A n \in S : file.sections[n] = type
  OBVIOUS
<1>2. SecFfsFindSectionData(file, type) = IF S = {} THEN {} ELSE {Min(S)}
  BY DEF SecFfsFindSectionData
<1> HIDE DEF S
<1>3. S # {} /\ i = Min(S)
  BY <1>2
<1>4. i \in S
  BY <1>1, <1>3, Least
<1> QED BY <1>1, <1>4

LEMMA CoreIs ==
    ASSUME NEW v, IsVolume(v)
    PROVE  /\ \A core \in SecFfsFindPeiCore(v) :
                /\ core.file \in Nat /\ core.section \in Nat
                /\ core.file \in FirstOf(v, "PEI_CORE")
                /\ v.at[core.file].sections[core.section] = "PE32"
           /\ SecFfsFindPeiCore(v) = {} => Without(v)
<1> DEFINE first == FirstOf(v, "PEI_CORE")
           Cores(o) == {[file |-> o, section |-> i] : i \in SecFfsFindSectionData(v.at[o], "PE32")}
<1>1. SecFfsFindPeiCore(v) = UNION {Cores(o) : o \in first}
  BY FindIsFirst DEF SecFfsFindPeiCore
<1>2. ASSUME NEW o \in first PROVE o \in DOMAIN v.at /\ o \in Nat
  <2> DEFINE S == {p \in DOMAIN v.at : /\ v.at[p].type = "PEI_CORE"
                                       /\ IsReached(v, p) /\ IsWhole(v, p)}
  <2>1. FirstOf(v, "PEI_CORE") = IF S = {} THEN {} ELSE {Min(S)}
    BY DEF FirstOf
  <2>2. S \subseteq Nat /\ S \subseteq DOMAIN v.at
    BY EndIs
  <2> HIDE DEF S
  <2>3. S # {} /\ o = Min(S)
    BY <2>1
  <2>4. o \in S
    BY <2>2, <2>3, Least
  <2> QED BY <2>2, <2>4
<1> HIDE DEF first
<1>3. ASSUME NEW core \in SecFfsFindPeiCore(v)
      PROVE  /\ core.file \in Nat /\ core.section \in Nat /\ core.file \in first
             /\ v.at[core.file].sections[core.section] = "PE32"
  <2>1. PICK o \in first : core \in Cores(o)
    BY <1>1, <1>3
  <2>2. PICK i \in SecFfsFindSectionData(v.at[o], "PE32") : core = [file |-> o, section |-> i]
    BY <2>1
  <2>3. v.at[o].sections \in Seq(STRING)
    BY <1>2 DEF IsVolume
  <2>4. i \in Nat /\ v.at[o].sections[i] = "PE32"
    BY <2>2, <2>3, SectionIs
  <2> QED BY <1>2, <2>2, <2>4
<1>4. ASSUME SecFfsFindPeiCore(v) = {}, NEW o \in first
      PROVE  SecFfsFindSectionData(v.at[o], "PE32") = {}
  <2>1. Cores(o) = {}
    <3> HIDE DEF Cores
    <3> QED BY <1>1, <1>4
  <2> QED BY <2>1
<1> QED BY <1>3, <1>4 DEF Without, first

LEMMA OpenKeeps ==
    ASSUME CoreInv, SecOpenFile
    PROVE  CoreInv'
<1>1. CASE UNCHANGED <<gFdInfo, PeiCoreFile>>
  BY <1>1 DEF CoreInv
<1>2. CASE ~UNCHANGED <<gFdInfo, PeiCoreFile>>
  <2> DEFINE fd == Len(gFdInfo) + 1
             found(volume) == {[fd |-> fd, file |-> core.file, section |-> core.section] :
                                 core \in SecFfsFindPeiCore(volume)}
  <2>1. PICK volume \in Images :
          /\ gFdInfo' = Append(gFdInfo, volume)
          /\ PeiCoreFile' = IF PeiCoreFile # Null \/ found(volume) = {} THEN PeiCoreFile
                            ELSE CHOOSE core \in found(volume) : TRUE
    BY <1>2 DEF SecOpenFile, WinNtOpenFile
  <2>2. IsVolume(volume)
    BY ImageAssumption
  <2>3. /\ gFdInfo \in Seq(Images) /\ Len(gFdInfo) \in Nat /\ fd \in Nat
        /\ gFdInfo' \in Seq(Images) /\ Len(gFdInfo') = fd /\ gFdInfo'[fd] = volume
        /\ \A n \in 1 .. Len(gFdInfo) : gFdInfo'[n] = gFdInfo[n]
    BY <2>1, AppendProperties DEF CoreInv
  <2>4. CASE PeiCoreFile # Null
    <3>1. PeiCoreFile' = PeiCoreFile
      BY <2>1, <2>4
    <3>2. /\ PeiCoreFile.fd \in 1 .. Len(gFdInfo)
          /\ PeiCoreFile.file \in FirstOf(gFdInfo[PeiCoreFile.fd], "PEI_CORE")
          /\ gFdInfo[PeiCoreFile.fd].at[PeiCoreFile.file].sections[PeiCoreFile.section] = "PE32"
          /\ \A n \in 1 .. PeiCoreFile.fd - 1 : Without(gFdInfo[n])
      BY <2>4 DEF CoreInv
    <3>3. \A n \in 1 .. PeiCoreFile.fd : gFdInfo'[n] = gFdInfo[n]
      BY <2>3, <3>2
    <3>4. gFdInfo'[PeiCoreFile.fd] = gFdInfo[PeiCoreFile.fd]
      BY <3>2, <3>3
    <3>5. PeiCoreFile.fd \in 1 .. Len(gFdInfo')
      BY <2>3, <3>2
    <3>6. \A n \in 1 .. PeiCoreFile.fd - 1 : Without(gFdInfo'[n])
      BY <3>2, <3>3
    <3> QED BY <2>3, <2>4, <3>1, <3>2, <3>4, <3>5, <3>6 DEF CoreInv
  <2>5. CASE PeiCoreFile = Null
    <3>1. \A n \in 1 .. Len(gFdInfo) : Without(gFdInfo'[n])
      BY <2>3, <2>5 DEF CoreInv
    <3>2. CASE found(volume) = {}
      <4>1. SecFfsFindPeiCore(volume) = {}
        BY <3>2
      <4>2. Without(gFdInfo'[fd])
        BY <2>2, <2>3, <4>1, CoreIs
      <4>3. \A n \in 1 .. fd : Without(gFdInfo'[n])
        <5>1. \A n \in 1 .. fd : n = fd \/ n \in 1 .. Len(gFdInfo)
          BY <2>3
        <5> QED BY <3>1, <4>2, <5>1
      <4>4. PeiCoreFile' = Null
        BY <2>1, <2>5, <3>2
      <4> QED BY <2>3, <4>3, <4>4 DEF CoreInv
    <3>3. CASE found(volume) # {}
      <4>1. PeiCoreFile' \in found(volume)
        <5>1. PeiCoreFile' = CHOOSE core \in found(volume) : TRUE
          BY <2>1, <2>5, <3>3
        <5> HIDE DEF found
        <5> QED BY <3>3, <5>1
      <4>2. PICK core \in SecFfsFindPeiCore(volume) :
              PeiCoreFile' = [fd |-> fd, file |-> core.file, section |-> core.section]
        BY <4>1
      <4>3. /\ core.file \in Nat /\ core.section \in Nat
            /\ core.file \in FirstOf(volume, "PEI_CORE")
            /\ volume.at[core.file].sections[core.section] = "PE32"
        BY <2>2, CoreIs
      <4>4. PeiCoreFile' # Null
        <5>1. PeiCoreFile' \in [fd : Nat, file : Nat, section : Nat]
          BY <2>3, <4>2, <4>3
        <5> QED BY <5>1, ImageAssumption
      <4>5. PeiCoreFile'.fd = fd /\ PeiCoreFile'.file = core.file /\ PeiCoreFile'.section = core.section
        BY <4>2
      <4>6. \A n \in 1 .. fd - 1 : Without(gFdInfo'[n])
        BY <2>3, <3>1
      <4>7. fd \in 1 .. Len(gFdInfo')
        BY <2>3
      <4> HIDE DEF fd, found
      <4> QED BY <2>3, <4>3, <4>4, <4>5, <4>6, <4>7 DEF CoreInv
    <3> QED BY <3>2, <3>3
  <2> QED BY <2>4, <2>5
<1> QED BY <1>1, <1>2

LEMMA CoreNext == CoreInv /\ [Next]_vars => CoreInv'
<1> SUFFICES ASSUME CoreInv, [Next]_vars PROVE CoreInv'
  OBVIOUS
<1>1. CASE UNCHANGED <<gFdInfo, PeiCoreFile>>
  BY <1>1 DEF CoreInv
<1>2. CASE gFdInfo' = <<>> /\ PeiCoreFile' = Null
  BY <1>2 DEF CoreInv
<1>3. CASE UNCHANGED vars
  BY <1>1, <1>3 DEF vars, secVars
<1>4. CASE SecPhase
  <2>1. CASE SecMain
    BY <1>1, <2>1 DEF SecMain
  <2>2. CASE SecOpenFile
    BY <2>2, OpenKeeps
  <2>3. CASE SecLoadFromCore
    BY <1>2, <2>3 DEF SecLoadFromCore
  <2> QED BY <1>4, <2>1, <2>2, <2>3 DEF SecPhase
<1>5. CASE PeiPhase
  BY <1>1, <1>5 DEF PeiPhase, InitializeBootMode, ScanRegion, SecWinNtPeiAutoScan, ScanEnds,
                    Coalesce, PeimInitializeWinNtFwh, secVars
<1>6. CASE DxePhase
  BY <1>1, <1>6 DEF DxePhase, FvbInitialize, CreateTpmSocket, Tpm2SubmitCommand, secVars
<1>7. CASE \/ PlatformBootManagerBeforeConsole \/ PlatformBootManagerAfterConsole
           \/ StageCapsule \/ RequestReset \/ WinNtResetSystem \/ Shutdown
  BY <1>1, <1>7 DEF PlatformBootManagerBeforeConsole, PlatformBootManagerAfterConsole,
                    StageCapsule, RequestReset, WinNtResetSystem, Shutdown, secVars
<1>8. CASE ExitProcess \/ Exit \/ PeiResetSystem \/ Die
  BY <1>2, <1>8 DEF ExitProcess, Exit, PeiResetSystem, Die, Forget, Vanish
<1> QED BY <1>3, <1>4, <1>5, <1>6, <1>7, <1>8 DEF Next

(* SecWinNtOpenFile takes the first FD with a core and SecFfsFindPeiCore   *)
(* the first file: what is started is the first whole file of the type in  *)
(* the order of the FDs, whatever else the volumes hold.                   *)
THEOREM CoreComesFirst == Spec => []CoreIsFirst
<1>1. Init => CoreInv
  BY DEF Init, CoreInv
<1>2. CoreInv /\ [Next]_vars => CoreInv'
  BY CoreNext
<1>3. CoreInv => CoreIsFirst
  BY DEF CoreInv, CoreIsFirst, Without
<1> QED BY <1>1, <1>2, <1>3, PTL DEF Spec

----------------------------------------------------------------------------
(* The buffer of the flash driver.  A fold computes a function on the      *)
(* subsets of a finite set, by taking out the element that is chosen.      *)
Taken(s) == CHOOSE x \in s : TRUE
Folds(S, w) ==
    \E g : g = [s \in SUBSET S |-> IF s = {} THEN 0 ELSE w[Taken(s)] + g[s \ {Taken(s)}]]

LEMMA FoldExists == ASSUME NEW S, IsFiniteSet(S), NEW w PROVE Folds(S, w)
<1> DEFINE Small(n) == {s \in SUBSET S : Cardinality(s) <= n}
           Step(n, g) == [s \in Small(n) |-> IF s = {} THEN 0
                                             ELSE w[Taken(s)] + g[s \ {Taken(s)}]]
           Bad == {n \in Nat : ~\E g : g = Step(n, g)}
<1>1. \A s \in SUBSET S : /\ IsFiniteSet(s) /\ Cardinality(s) \in Nat
                          /\ Cardinality(s) <= Cardinality(S) /\ (Cardinality(s) = 0 <=> s = {})
  BY FS_Subset, FS_EmptySet, FS_CardinalityType
<1>2. \A s \in SUBSET S : s # {} => /\ Taken(s) \in s /\ s \ {Taken(s)} \in SUBSET S
                                    /\ Cardinality(s \ {Taken(s)}) = Cardinality(s) - 1
  <2> TAKE s \in SUBSET S
  <2> HAVE s # {}
  <2>1. Taken(s) \in s
    BY DEF Taken
  <2> QED BY <1>1, <2>1, FS_RemoveElement
<1>3. CASE Bad = {}
  <2>1. Cardinality(S) \in Nat
    BY FS_CardinalityType
  <2>2. PICK g : g = Step(Cardinality(S), g)
    <3> HIDE DEF Step
    <3> QED BY <1>3, <2>1
  <2>3. Small(Cardinality(S)) = SUBSET S
    BY <1>1
  <2> HIDE DEF Small
  <2>4. g = [s \in SUBSET S |-> IF s = {} THEN 0 ELSE w[Taken(s)] + g[s \ {Taken(s)}]]
    BY <2>2, <2>3
  <2> QED BY <2>4 DEF Folds
<1>4. CASE Bad # {}
  <2>1. PICK n \in Bad : \A m \in Bad : n <= m
    <3>1. Bad \subseteq Nat
      OBVIOUS
    <3> HIDE DEF Bad
    <3> QED BY <1>4, <3>1, Least
  <2>2. n \in Nat /\ ~\E g : g = Step(n, g)
    OBVIOUS
  <2>3. CASE n = 0
    <3> DEFINE g == [s \in Small(n) |-> 0]
    <3>1. \A s \in Small(n) : s = {}
      BY <1>1, <2>3
    <3>2. g = Step(n, g)
      BY <3>1
    <3> HIDE DEF g, Step
    <3> QED BY <2>2, <3>2
  <2>4. CASE n # 0
    <3>1. n - 1 \in Nat /\ n - 1 \notin Bad
      <4> HIDE DEF Bad
      <4> QED BY <2>1, <2>2, <2>4
    <3>2. PICK g : g = Step(n - 1, g)
      <4> HIDE DEF Step
      <4> QED BY <3>1
    <3> DEFINE h == Step(n, g)
    <3>3. ASSUME NEW s \in Small(n), s # {}
          PROVE  h[s \ {Taken(s)}] = g[s \ {Taken(s)}]
      <4> DEFINE r == s \ {Taken(s)}
      <4>1. r \in Small(n - 1) /\ r \in Small(n)
        BY <1>1, <1>2, <2>2, <3>3
      <4> HIDE DEF r, Small
      <4>2. h[r] = IF r = {} THEN 0 ELSE w[Taken(r)] + g[r \ {Taken(r)}]
        BY <4>1
      <4>3. g[r] = IF r = {} THEN 0 ELSE w[Taken(r)] + g[r \ {Taken(r)}]
        BY <3>2, <4>1
      <4>4. h[r] = g[r]
        BY <4>2, <4>3
      <4> QED BY <4>4 DEF r
    <3>4. ASSUME NEW s \in Small(n)
          PROVE  h[s] = IF s = {} THEN 0 ELSE w[Taken(s)] + h[s \ {Taken(s)}]
      <4>1. h[s] = IF s = {} THEN 0 ELSE w[Taken(s)] + g[s \ {Taken(s)}]
        <5> HIDE DEF Small
        <5> QED OBVIOUS
      <4> HIDE DEF h, Small
      <4> QED BY <3>3, <4>1
    <3>5. h = [s \in Small(n) |-> h[s]]
      <4> HIDE DEF Small
      <4> QED OBVIOUS
    <3> HIDE DEF h, Small
    <3>6. h = Step(n, h)
      BY <3>4, <3>5
    <3> HIDE DEF Step
    <3> QED BY <2>2, <3>6
  <2> QED BY <2>3, <2>4
<1> QED BY <1>3, <1>4

(* Whichever element is taken out first, the sum is the same.              *)
Sums(S, w, g) ==
    /\ g[{}] = 0
    /\ \A s \in SUBSET S : g[s] \in Nat
    /\ \A s \in SUBSET S : \A x \in s : g[s] = w[x] + g[s \ {x}]

LEMMA FoldSums ==
    ASSUME NEW S, IsFiniteSet(S), NEW w, \A x \in S : w[x] \in Nat, NEW g,
           \A s \in SUBSET S : g[s] = IF s = {} THEN 0 ELSE w[Taken(s)] + g[s \ {Taken(s)}]
    PROVE  Sums(S, w, g)
<1> DEFINE Good(s) == g[s] \in Nat /\ \A x \in s : g[s] = w[x] + g[s \ {x}]
           Bad == {n \in Nat : \E s \in SUBSET S : Cardinality(s) = n /\ ~Good(s)}
<1>1. \A s \in SUBSET S : \A x \in s : /\ s \ {x} \in SUBSET S /\ w[x] \in Nat
                                       /\ Cardinality(s \ {x}) \in Nat /\ Cardinality(s) \in Nat
                                       /\ Cardinality(s \ {x}) < Cardinality(s)
  <2> TAKE s \in SUBSET S
  <2> TAKE x \in s
  <2>1. IsFiniteSet(s)
    BY FS_Subset
  <2>2. Cardinality(s \ {x}) = Cardinality(s) - 1 /\ IsFiniteSet(s \ {x})
    BY <2>1, FS_RemoveElement
  <2>3. Cardinality(s) \in Nat /\ Cardinality(s \ {x}) \in Nat
    BY <2>1, <2>2, FS_CardinalityType
  <2> QED BY <2>2, <2>3
<1>2. CASE Bad = {}
  <2>1. \A s \in SUBSET S : Cardinality(s) \in Nat
    BY FS_Subset, FS_CardinalityType
  <2>2. \A s \in SUBSET S : Good(s)
    <3> HIDE DEF Good
    <3> QED BY <1>2, <2>1
  <2>3. g[{}] = 0
    OBVIOUS
  <2> QED BY <2>2, <2>3 DEF Sums
<1>3. CASE Bad # {}
  <2>1. PICK n \in Bad : \A m \in Bad : n <= m
    <3>1. Bad \subseteq Nat
      OBVIOUS
    <3> HIDE DEF Bad
    <3> QED BY <1>3, <3>1, Least
  <2>2. PICK s \in SUBSET S : Cardinality(s) = n /\ ~Good(s)
    <3> HIDE DEF Good
    <3> QED OBVIOUS
  <2>3. ASSUME NEW r \in SUBSET S, Cardinality(r) \in Nat, Cardinality(r) < n PROVE Good(r)
    <3> HIDE DEF Good
    <3>1. n \in Nat
      OBVIOUS
    <3>2. Cardinality(r) \notin Bad
      <4> HIDE DEF Bad
      <4> QED BY <2>1, <2>3, <3>1
    <3> QED BY <2>3, <3>2
  <2>4. s # {}
    BY <2>2
  <2> DEFINE c == Taken(s)
  <2>5. c \in s /\ g[s] = w[c] + g[s \ {c}]
    BY <2>4 DEF Taken
  <2> HIDE DEF c, Bad
  <2>6. s \ {c} \in SUBSET S /\ g[s \ {c}] \in Nat /\ w[c] \in Nat
    BY <1>1, <2>2, <2>3, <2>5
  <2>7. ASSUME NEW x \in s PROVE g[s] = w[x] + g[s \ {x}]
    <3>1. CASE x = c
      BY <2>5, <3>1
    <3>2. CASE x # c
      <4>1. x \in s \ {c} /\ c \in s \ {x} /\ s \ {x} \in SUBSET S
        BY <2>5, <3>2
      <4>2. (s \ {c}) \ {x} = (s \ {x}) \ {c}
        OBVIOUS
      <4>3. Good(s \ {c}) /\ Good(s \ {x})
        BY <1>1, <2>2, <2>3, <2>5, <4>1
      <4>4. g[s \ {c}] = w[x] + g[(s \ {c}) \ {x}]
        BY <4>1, <4>3
      <4>5. g[s \ {x}] = w[c] + g[(s \ {x}) \ {c}]
        BY <4>1, <4>3
      <4>6. /\ w[x] \in Nat /\ g[(s \ {x}) \ {c}] \in Nat
        <5>1. (s \ {x}) \ {c} \in SUBSET S
          OBVIOUS
        <5>2. Good((s \ {x}) \ {c})
          <6>1. Cardinality((s \ {x}) \ {c}) \in Nat /\ Cardinality((s \ {x}) \ {c}) < n
            <7>1. Cardinality((s \ {x}) \ {c}) < Cardinality(s \ {x})
              BY <1>1, <4>1
            <7>2. Cardinality(s \ {x}) < n /\ Cardinality(s \ {x}) \in Nat /\ n \in Nat
              BY <1>1, <2>2
            <7>3. Cardinality((s \ {x}) \ {c}) \in Nat
              BY <1>1, <4>1
            <7> QED BY <7>1, <7>2, <7>3
          <6> QED BY <2>3, <5>1, <6>1
        <5> QED BY <1>1, <5>2
      <4> DEFINE rest == g[(s \ {x}) \ {c}]
      <4>7. /\ g[s] = w[c] + g[s \ {c}] /\ g[s \ {c}] = w[x] + rest
            /\ g[s \ {x}] = w[c] + rest /\ rest \in Nat
        BY <2>5, <4>2, <4>4, <4>5, <4>6
      <4> HIDE DEF rest
      <4> QED BY <2>6, <4>6, <4>7
    <3> QED BY <3>1, <3>2
  <2> QED BY <2>2, <2>5, <2>6, <2>7
<1> QED BY <1>2, <1>3

(* While the volumes are set up: what is left of the buffer is what the    *)
(* served ones that are still ahead will take, and the instances are those *)
(* behind, in their order.  A header that is replaced does not change what *)
(* is served, nor the length of another's.                                 *)
ServedHobs == {i \in DOMAIN hobs : IsServed(hobs[i])}
Lengths == [i \in ServedHobs |-> LengthOf(hobs[i])]
Ahead == {i \in ServedHobs : i >= next}
BufferLeft ==
    \E w, g : /\ Sums(ServedHobs, w, g) /\ \A i \in Ahead : w[i] = Lengths[i]
              /\ left = g[Ahead]
Instances ==
    /\ \A n \in ServedHobs : n < next => \E i \in DOMAIN FvInstance : FvInstance[i] = hobs[n]
    /\ \A i \in DOMAIN FvInstance :
         \E n \in ServedHobs :
           /\ n < next /\ FvInstance[i] = hobs[n]
           /\ \A j \in 1 .. i - 1 : \E m \in 1 .. n - 1 : FvInstance[j] = hobs[m]
Announced ==
    /\ hobs \in Seq(Volumes \cup {"memory"})
    /\ \A i, j \in DOMAIN hobs : hobs[i] = hobs[j] => i = j
FvbInv ==
    /\ flash \in [Volumes -> Headers]
    /\ phase \in {"size", "fvb"} => Announced
    /\ phase # "fvb" => left = 0
    /\ phase = "fvb" => /\ next \in 1 .. Len(hobs) + 1 /\ FvInstance \in Seq(Volumes)
                        /\ BufferLeft /\ Instances

LEMMA ServedIs ==
    ASSUME Announced, NEW i \in ServedHobs
    PROVE  /\ i \in DOMAIN hobs /\ i \in Nat /\ hobs[i] \in Volumes
           /\ LengthOf(hobs[i]) \in Nat /\ Lengths[i] = LengthOf(hobs[i])
<1>1. i \in DOMAIN hobs /\ i \in Nat /\ hobs[i] \in Volumes \cup {"memory"} /\ hobs[i] # "memory"
  BY DEF Announced, ServedHobs, IsServed, IsFlash
<1>2. hobs[i] \in Volumes
  BY <1>1
<1> QED BY <1>1, <1>2, FvbInitAssumption DEF LengthOf, Lengths

LEMMA FvbElsewhere ==
    ASSUME FvbInv, UNCHANGED <<flash, hobs, next, left, FvInstance>>,
           \/ phase' = phase
           \/ phase # "fvb" /\ phase' \notin {"size", "fvb"}
    PROVE  FvbInv'
<1>1. ServedHobs' = ServedHobs
  BY DEF ServedHobs, IsServed, IsFlash, ValidateFvHeader, GetFvbInfo
<1>2. Lengths' = Lengths
  BY <1>1 DEF Lengths, LengthOf, ValidateFvHeader
<1>3. Ahead' = Ahead
  BY <1>1 DEF Ahead
<1>4. BufferLeft' <=> BufferLeft
  BY <1>1, <1>2, <1>3 DEF BufferLeft
<1>5. Instances' <=> Instances
  BY <1>1 DEF Instances
<1>6. Announced' <=> Announced
  BY DEF Announced
<1> QED BY <1>4, <1>5, <1>6 DEF FvbInv

LEMMA FourAndMore ==
    ASSUME NEW V, NEW a \in V, NEW b \in V, NEW c \in V, NEW d \in V, NEW more \in Seq(V),
           NEW list, list = <<a, b, c>> \o <<d>> \o more
    PROVE  /\ list \in Seq(V) /\ Len(list) = 4 + Len(more)
           /\ list[1] = a /\ list[2] = b /\ list[3] = c /\ list[4] = d
           /\ \A i \in 1 .. Len(more) : list[4 + i] = more[i]
<1> DEFINE s == <<a, b, c>>
           t == <<d>>
           four == s \o t
<1>1. s \in Seq(V) /\ Len(s) = 3 /\ s[1] = a /\ s[2] = b /\ s[3] = c
  OBVIOUS
<1>2. t \in Seq(V) /\ Len(t) = 1 /\ t[1] = d
  OBVIOUS
<1>3. four = s \o t /\ list = four \o more
  OBVIOUS
<1> HIDE DEF s, t, four
<1>4. four \in Seq(V) /\ Len(four) = Len(s) + Len(t)
  BY <1>1, <1>2, <1>3, ConcatProperties
<1>5. \A i \in 1 .. Len(s) + Len(t) : four[i] = IF i <= Len(s) THEN s[i] ELSE t[i - Len(s)]
  BY <1>1, <1>2, <1>3, ConcatProperties
<1>6. four[1] = a /\ four[2] = b /\ four[3] = c /\ four[4] = d
  <2>1. \A i \in 1 .. 4 : four[i] = IF i <= 3 THEN s[i] ELSE t[i - 3]
    BY <1>1, <1>2, <1>5
  <2>2. four[4] = t[4 - 3]
    BY <2>1
  <2> QED BY <1>1, <1>2, <2>1, <2>2
<1>7. Len(four) = 4 /\ Len(more) \in Nat
  BY <1>1, <1>2, <1>4
<1>8. list \in Seq(V) /\ Len(list) = 4 + Len(more)
  BY <1>3, <1>4, <1>7, ConcatProperties
<1>9. \A i \in 1 .. 4 + Len(more) : list[i] = IF i <= 4 THEN four[i] ELSE more[i - 4]
  <2>1. \A i \in 1 .. Len(four) + Len(more) :
          list[i] = IF i <= Len(four) THEN four[i] ELSE more[i - Len(four)]
    <3>1. \A i \in 1 .. Len(four) + Len(more) :
            (four \o more)[i] = IF i <= Len(four) THEN four[i] ELSE more[i - Len(four)]
      BY <1>4, ConcatProperties
    <3> QED BY <1>3, <3>1
  <2> QED BY <1>7, <2>1
<1>10. list[1] = a /\ list[2] = b /\ list[3] = c /\ list[4] = d
  BY <1>6, <1>7, <1>9
<1>11. \A i \in 1 .. Len(more) : list[4 + i] = more[i]
  <2> TAKE i \in 1 .. Len(more)
  <2>1. 4 + i \in 1 .. 4 + Len(more) /\ ~(4 + i <= 4) /\ (4 + i) - 4 = i
    BY <1>7
  <2> QED BY <1>9, <2>1
<1> QED BY <1>8, <1>10, <1>11

(* The announced volumes are different ones.                               *)
LEMMA HobsAnnounced ==
    ASSUME FvbInv, PeimInitializeWinNtFwh
    PROVE  FvbInv' \/ ~UNCHANGED fvbVars
<1> SUFFICES ASSUME UNCHANGED fvbVars PROVE FvbInv'
  OBVIOUS
<1>1. /\ phase = "hobs" /\ phase' = "size" /\ flash' = flash /\ left' = left
      /\ hobs' = <<"Recovery", "Variable", "Microcode">>
                 \o (IF bootMode = "recovery" THEN <<"memory">> ELSE <<"Main">>)
                 \o (IF ~SecWinNtFdAddress(1) \/ flash["Other"] = "erased" THEN <<>> ELSE <<"Other">>)
  BY DEF PeimInitializeWinNtFwh, fvbVars
<1>2. PICK d \in {"memory", "Main"}, more \in {<<>>, <<"Other">>} :
        hobs' = <<"Recovery", "Variable", "Microcode">> \o <<d>> \o more
  BY <1>1
<1> DEFINE V == Volumes \cup {"memory"}
<1>3. /\ "Recovery" \in V /\ "Variable" \in V /\ "Microcode" \in V /\ d \in V
      /\ "Other" \in V
  BY DEF Volumes
<1> HIDE DEF V
<1>4. more \in Seq(V) /\ (more = <<>> \/ more = <<"Other">>)
  <2>1. more = <<>> \/ more = <<"Other">>
    BY <1>2
  <2>2. <<>> \in Seq(V) /\ <<"Other">> \in Seq(V)
    BY <1>3
  <2> QED BY <2>1, <2>2
<1>5. /\ hobs' \in Seq(V) /\ Len(hobs') = 4 + Len(more)
      /\ hobs'[1] = "Recovery" /\ hobs'[2] = "Variable" /\ hobs'[3] = "Microcode" /\ hobs'[4] = d
      /\ \A i \in 1 .. Len(more) : hobs'[4 + i] = more[i]
  BY <1>2, <1>3, <1>4, FourAndMore
<1>6. ASSUME NEW i \in DOMAIN hobs', NEW j \in DOMAIN hobs', hobs'[i] = hobs'[j] PROVE i = j
  <2>1. CASE more = <<>>
    <3>1. Len(more) = 0 /\ DOMAIN hobs' = 1 .. 4
      BY <1>5, <2>1
    <3>2. i \in {1, 2, 3, 4} /\ j \in {1, 2, 3, 4}
      BY <3>1
    <3> QED BY <1>5, <1>6, <3>2
  <2>2. CASE more = <<"Other">>
    <3>1. Len(more) = 1 /\ DOMAIN hobs' = 1 .. 5 /\ hobs'[4 + 1] = "Other"
      BY <1>5, <2>2
    <3>2. i \in {1, 2, 3, 4, 5} /\ j \in {1, 2, 3, 4, 5} /\ hobs'[5] = "Other"
      BY <3>1
    <3> QED BY <1>5, <1>6, <3>2
  <2> QED BY <1>4, <2>1, <2>2
<1>7. Announced'
  BY <1>5, <1>6 DEF Announced, V
<1> QED BY <1>1, <1>7 DEF FvbInv

(* The first pass.                                                         *)
LEMMA MeasureKeeps ==
    ASSUME FvbInv, phase = "size", phase' = "fvb", FirstPass \/ SmmFirstPass,
           UNCHANGED <<flash, hobs>>
    PROVE  FvbInv'
<1> DEFINE S == ServedHobs
           w == Lengths
           F(g) == [s \in SUBSET S |-> IF s = {} THEN 0
                                       ELSE LengthOf(hobs[Taken(s)]) + g[s \ {Taken(s)}]]
           f == CHOOSE g : g = F(g)
<1>1. next' = 1 /\ left' = BufferSize /\ FvInstance' = <<>>
  BY DEF FirstPass, SmmFirstPass
<1>2. Announced
  BY DEF FvbInv
<1>3. IsFiniteSet(S) /\ S \subseteq Nat /\ \A x \in S : w[x] \in Nat /\ w[x] = LengthOf(hobs[x])
  <2>1. S \subseteq 1 .. Len(hobs) /\ Len(hobs) \in Nat
    BY <1>2 DEF Announced, ServedHobs
  <2>2. IsFiniteSet(1 .. Len(hobs))
    BY <2>1, FS_Interval
  <2>3. IsFiniteSet(S)
    BY <2>1, <2>2, FS_Subset
  <2> QED BY <1>2, <2>3, ServedIs
<1>4. BufferSize = f[S]
  BY DEF BufferSize, MapThenSumSet, MapThenFoldSet, ServedHobs, Taken
<1>5. \A s \in SUBSET S : s # {} => Taken(s) \in S
  BY DEF Taken
<1>6. PICK g : g = [s \in SUBSET S |-> IF s = {} THEN 0 ELSE w[Taken(s)] + g[s \ {Taken(s)}]]
  <2> HIDE DEF S, w
  <2>1. Folds(S, w)
    BY <1>3, FoldExists
  <2> QED BY <2>1 DEF Folds
<1>7. g = F(g)
  <2> HIDE DEF S, w
  <2> QED BY <1>3, <1>5, <1>6
<1>8. f = F(f)
  <2> HIDE DEF F
  <2> QED BY <1>7
<1>9. \A s \in SUBSET S : f[s] = IF s = {} THEN 0 ELSE w[Taken(s)] + f[s \ {Taken(s)}]
  <2> HIDE DEF S, w, f
  <2> QED BY <1>3, <1>5, <1>8
<1>10. Sums(S, w, f)
  <2> HIDE DEF S, w, f
  <2> QED BY <1>3, <1>9, FoldSums
<1>11. ServedHobs' = ServedHobs
  BY DEF ServedHobs, IsServed, IsFlash, ValidateFvHeader, GetFvbInfo
<1>12. Lengths' = Lengths
  BY <1>11 DEF Lengths, LengthOf, ValidateFvHeader
<1>13. Ahead' = S
  BY <1>1, <1>3, <1>11, ServedIs, <1>2 DEF Ahead, ServedHobs, Announced
<1>14. BufferLeft'
  <2> HIDE DEF f
  <2> QED BY <1>1, <1>4, <1>10, <1>11, <1>12, <1>13 DEF BufferLeft
<1>15. Instances'
  <2>1. \A n \in ServedHobs : n \in Nat /\ n >= 1
    BY <1>2 DEF ServedHobs, Announced
  <2> QED BY <1>1, <1>11, <2>1 DEF Instances
<1>16. next' \in 1 .. Len(hobs') + 1 /\ FvInstance' \in Seq(Volumes) /\ Announced'
  BY <1>1, <1>2 DEF Announced
<1> QED BY <1>14, <1>15, <1>16 DEF FvbInv

(* The second pass: a volume that is not served is passed over.            *)
LEMMA PassKeeps ==
    ASSUME FvbInv, phase = "fvb", phase' = "fvb", next \in DOMAIN hobs, ~IsServed(hobs[next]),
           PassOver, UNCHANGED <<flash, left, FvInstance, hobs>>
    PROVE  FvbInv'
<1>1. /\ Announced /\ next \in 1 .. Len(hobs) + 1 /\ FvInstance \in Seq(Volumes)
      /\ BufferLeft /\ Instances /\ hobs \in Seq(Volumes \cup {"memory"})
  BY DEF FvbInv, Announced
<1>2. next' = next + 1 /\ next \in 1 .. Len(hobs) /\ Len(hobs) \in Nat /\ next \notin ServedHobs
  BY <1>1 DEF PassOver, ServedHobs
<1>3. ServedHobs' = ServedHobs
  BY DEF ServedHobs, IsServed, IsFlash, ValidateFvHeader, GetFvbInfo
<1>4. Lengths' = Lengths
  BY <1>3 DEF Lengths, LengthOf, ValidateFvHeader
<1>5. \A i \in ServedHobs : i \in Nat /\ i # next
  BY <1>1, <1>2, ServedIs
<1>6. \A i \in ServedHobs : (i >= next' <=> i >= next) /\ (i < next' <=> i < next)
  BY <1>2, <1>5
<1>7. Ahead' = Ahead
  BY <1>3, <1>6 DEF Ahead
<1>8. BufferLeft'
  BY <1>1, <1>3, <1>4, <1>7 DEF BufferLeft
<1>9. Instances'
  BY <1>1, <1>3, <1>6 DEF Instances
<1>10. next' \in 1 .. Len(hobs') + 1 /\ Announced'
  BY <1>1, <1>2 DEF Announced
<1> QED BY <1>1, <1>8, <1>9, <1>10 DEF FvbInv

(* One that is served takes its part of the buffer and is set up, if it    *)
(* was not before.                                                         *)
LEMMA SetUpKeeps ==
    ASSUME FvbInv, phase = "fvb", phase' = "fvb", next \in DOMAIN hobs, IsServed(hobs[next]),
           TakeHeader(hobs[next]), UNCHANGED hobs,
           \/ FvInstance' = Append(FvInstance, hobs[next])
           \/ FvInstance' = FvInstance /\ \E i \in DOMAIN FvInstance : FvInstance[i] = hobs[next]
    PROVE  FvbInv'
<1> DEFINE v == hobs[next]
<1>1. /\ Announced /\ next \in 1 .. Len(hobs) + 1 /\ FvInstance \in Seq(Volumes)
      /\ BufferLeft /\ Instances /\ hobs \in Seq(Volumes \cup {"memory"})
      /\ flash \in [Volumes -> Headers]
  BY DEF FvbInv, Announced
<1>2. /\ next' = next + 1 /\ next \in 1 .. Len(hobs) /\ Len(hobs) \in Nat /\ next \in ServedHobs
      /\ left' = left - LengthOf(v) /\ flash' = [flash EXCEPT ![v] = "valid"]
  BY <1>1 DEF TakeHeader, ServedHobs
<1>3. v \in Volumes /\ LengthOf(v) \in Nat /\ Lengths[next] = LengthOf(v)
  BY <1>1, <1>2, ServedIs
<1>4. /\ flash' \in [Volumes -> Headers] /\ flash'[v] = "valid"
      /\ \A u \in Volumes \ {v} : flash'[u] = flash[u]
  BY <1>1, <1>2, <1>3 DEF Headers
<1>5. \A i \in DOMAIN hobs : hobs[i] \in Volumes \cup {"memory"} /\ (i # next => hobs[i] # v)
  BY <1>1, <1>2 DEF Announced
<1>6. ServedHobs' = ServedHobs
  <2>1. \A i \in DOMAIN hobs : i # next => (i \in ServedHobs' <=> i \in ServedHobs)
    <3> TAKE i \in DOMAIN hobs
    <3> HAVE i # next
    <3>1. CASE hobs[i] = "memory"
      BY <3>1 DEF ServedHobs, IsServed, IsFlash
    <3>2. CASE hobs[i] # "memory"
      <4>1. flash'[hobs[i]] = flash[hobs[i]]
        BY <1>4, <1>5, <3>2
      <4> QED BY <4>1 DEF ServedHobs, IsServed, IsFlash, ValidateFvHeader, GetFvbInfo
    <3> QED BY <3>1, <3>2
  <2>2. next \in ServedHobs'
    BY <1>2, <1>3, <1>4 DEF ServedHobs, IsServed, IsFlash, ValidateFvHeader, Volumes
  <2>3. ServedHobs \subseteq DOMAIN hobs /\ ServedHobs' \subseteq DOMAIN hobs
    BY DEF ServedHobs
  <2>4. \A i \in DOMAIN hobs : i \in ServedHobs' <=> i \in ServedHobs
    <3> TAKE i \in DOMAIN hobs
    <3> QED BY <1>2, <2>1, <2>2
  <2> QED BY <2>3, <2>4
<1>7. \A i \in ServedHobs : i \in Nat /\ hobs[i] \in Volumes
  BY <1>1, ServedIs
<1>8. \A i \in ServedHobs : i # next => Lengths'[i] = Lengths[i]
  <2> TAKE i \in ServedHobs
  <2> HAVE i # next
  <2>1. flash'[hobs[i]] = flash[hobs[i]]
    <3>1. i \in DOMAIN hobs
      BY DEF ServedHobs
    <3> QED BY <1>4, <1>5, <1>7, <3>1
  <2>2. Lengths'[i] = IF flash'[hobs[i]] = "valid" THEN HeaderLength[hobs[i]] ELSE HeaderLength["platform"]
    BY <1>6 DEF Lengths, LengthOf, ValidateFvHeader
  <2>3. Lengths[i] = IF flash[hobs[i]] = "valid" THEN HeaderLength[hobs[i]] ELSE HeaderLength["platform"]
    BY DEF Lengths, LengthOf, ValidateFvHeader
  <2> QED BY <2>1, <2>2, <2>3
<1> HIDE DEF v
<1>9. Ahead' = Ahead \ {next} /\ next \in Ahead /\ Ahead \subseteq ServedHobs
  <2>1. \A i \in ServedHobs : i >= next' <=> i >= next /\ i # next
    BY <1>2, <1>7
  <2>2. next >= next
    BY <1>2
  <2> QED BY <1>2, <1>6, <2>1, <2>2 DEF Ahead
<1>10. BufferLeft'
  <2>1. PICK w, g : /\ Sums(ServedHobs, w, g) /\ \A i \in Ahead : w[i] = Lengths[i]
                    /\ left = g[Ahead]
    BY <1>1 DEF BufferLeft
  <2>2. g[Ahead] = w[next] + g[Ahead'] /\ g[Ahead'] \in Nat
    BY <1>9, <2>1 DEF Sums
  <2>3. left' = g[Ahead']
    BY <1>2, <1>3, <1>9, <2>1, <2>2
  <2>4. \A i \in Ahead' : w[i] = Lengths'[i]
    BY <1>8, <1>9, <2>1
  <2>5. Sums(ServedHobs', w, g)
    BY <1>6, <2>1
  <2> QED BY <2>3, <2>4, <2>5 DEF BufferLeft
<1>11. /\ FvInstance' \in Seq(Volumes) /\ Len(FvInstance) \in Nat
       /\ DOMAIN FvInstance = 1 .. Len(FvInstance) /\ DOMAIN FvInstance \subseteq DOMAIN FvInstance'
       /\ \A i \in DOMAIN FvInstance : i \in Nat /\ FvInstance'[i] = FvInstance[i]
       /\ \E i \in DOMAIN FvInstance' : FvInstance'[i] = v
       /\ \A i \in DOMAIN FvInstance' \ DOMAIN FvInstance : i = Len(FvInstance) + 1 /\ FvInstance'[i] = v
  <2>1. CASE FvInstance' = Append(FvInstance, v)
    <3>1. /\ FvInstance' \in Seq(Volumes) /\ Len(FvInstance') = Len(FvInstance) + 1
          /\ Len(FvInstance) \in Nat /\ FvInstance'[Len(FvInstance) + 1] = v
          /\ \A i \in 1 .. Len(FvInstance) : FvInstance'[i] = FvInstance[i]
      BY <1>1, <1>3, <2>1, AppendProperties
    <3>2. DOMAIN FvInstance' = 1 .. Len(FvInstance) + 1 /\ DOMAIN FvInstance = 1 .. Len(FvInstance)
      BY <1>1, <3>1
    <3> QED BY <3>1, <3>2
  <2>2. CASE FvInstance' = FvInstance /\ \E i \in DOMAIN FvInstance : FvInstance[i] = v
    BY <1>1, <2>2
  <2> QED BY <2>1, <2>2 DEF v
<1>12. Instances'
  <2>1. \A i \in ServedHobs : i < next' <=> i < next \/ i = next
    BY <1>2, <1>7
  <2>2. ASSUME NEW n \in ServedHobs, n < next'
        PROVE  \E i \in DOMAIN FvInstance' : FvInstance'[i] = hobs[n]
    <3>1. CASE n < next
      BY <1>1, <1>11, <3>1 DEF Instances
    <3>2. CASE n = next
      BY <1>11, <3>2 DEF v
    <3> QED BY <2>1, <2>2, <3>1, <3>2
  <2>3. ASSUME NEW i \in DOMAIN FvInstance'
        PROVE  \E n \in ServedHobs :
                 /\ n < next' /\ FvInstance'[i] = hobs[n]
                 /\ \A j \in 1 .. i - 1 : \E m \in 1 .. n - 1 : FvInstance'[j] = hobs[m]
    <3>1. CASE i \in DOMAIN FvInstance
      <4>1. PICK n \in ServedHobs :
              /\ n < next /\ FvInstance[i] = hobs[n]
              /\ \A j \in 1 .. i - 1 : \E m \in 1 .. n - 1 : FvInstance[j] = hobs[m]
        BY <1>1, <3>1 DEF Instances
      <4>2. \A j \in 1 .. i - 1 : FvInstance'[j] = FvInstance[j]
        BY <1>11, <3>1
      <4>3. n < next' /\ FvInstance'[i] = hobs[n]
        BY <1>11, <2>1, <3>1, <4>1
      <4> QED BY <4>1, <4>2, <4>3
    <3>2. CASE i \notin DOMAIN FvInstance
      <4>1. i = Len(FvInstance) + 1 /\ FvInstance'[i] = v
        BY <1>11, <3>2
      <4>2. ASSUME NEW j \in 1 .. i - 1 PROVE \E m \in 1 .. next - 1 : FvInstance'[j] = hobs[m]
        <5>1. j \in DOMAIN FvInstance
          BY <1>11, <4>1
        <5>2. PICK n \in ServedHobs : n < next /\ FvInstance[j] = hobs[n]
          BY <1>1, <5>1 DEF Instances
        <5>3. n \in 1 .. next - 1
          <6>1. n \in DOMAIN hobs
            BY DEF ServedHobs
          <6> QED BY <1>1, <1>2, <5>2, <6>1
        <5> QED BY <1>11, <5>1, <5>2, <5>3
      <4>3. next < next'
        BY <1>2
      <4> QED BY <1>2, <4>1, <4>2, <4>3 DEF v
    <3> QED BY <3>1, <3>2
  <2> QED BY <1>6, <2>2, <2>3 DEF Instances
<1>13. next' \in 1 .. Len(hobs') + 1 /\ Announced'
  BY <1>1, <1>2 DEF Announced
<1> QED BY <1>4, <1>10, <1>11, <1>12, <1>13 DEF FvbInv

LEMMA FvbKeeps ==
    ASSUME FvbInv, FvbInitialize
    PROVE  FvbInv'
<1>1. CASE /\ phase = "size" /\ phase' = "fvb" /\ (FirstPass \/ SmmFirstPass)
           /\ UNCHANGED <<flash, hobs>>
  BY <1>1, MeasureKeeps
<1>2. CASE /\ phase = "fvb" /\ phase' = "fvb" /\ next \in DOMAIN hobs /\ hobs' = hobs
           /\ SecondPass \/ SmmSecondPass
  <2>1. CASE ~IsServed(hobs[next])
    <3>1. PassOver /\ UNCHANGED <<flash, left, FvInstance>>
      BY <1>2, <2>1 DEF SecondPass, SmmSecondPass
    <3> QED BY <1>2, <2>1, <3>1, PassKeeps
  <2>2. CASE IsServed(hobs[next])
    <3>1. /\ TakeHeader(hobs[next])
          /\ \/ FvInstance' = Append(FvInstance, hobs[next])
             \/ FvInstance' = FvInstance /\ \E i \in DOMAIN FvInstance : FvInstance[i] = hobs[next]
      BY <1>2, <2>2 DEF SecondPass, SmmSecondPass
    <3> QED BY <1>2, <2>2, <3>1, SetUpKeeps
  <2> QED BY <2>1, <2>2
<1>3. CASE phase' = "power" /\ left' = 0 /\ flash' = flash
  BY <1>3 DEF FvbInv
<1> QED BY <1>1, <1>2, <1>3 DEF FvbInitialize

LEMMA FvbNext == FvbInv /\ [Next]_vars => FvbInv'
<1> SUFFICES ASSUME FvbInv, [Next]_vars PROVE FvbInv'
  OBVIOUS
<1>1. CASE /\ UNCHANGED <<flash, hobs, next, left, FvInstance>>
           /\ \/ phase' = phase
              \/ phase # "fvb" /\ phase' \notin {"size", "fvb"}
  BY <1>1, FvbElsewhere
<1>2. CASE UNCHANGED vars
  BY <1>1, <1>2 DEF vars, secVars, peiVars, fvbVars
<1>3. CASE SecPhase
  <2>1. UNCHANGED <<flash, hobs, next, left, FvInstance>>
    BY <1>3 DEF SecPhase, peiVars, fvbVars
  <2>2. phase # "fvb" /\ phase' \notin {"size", "fvb"}
    BY <1>3 DEF SecPhase, SecMain, SecOpenFile, SecLoadFromCore
  <2> QED BY <1>1, <2>1, <2>2
<1>4. CASE PeiPhase
  <2>0. UNCHANGED fvbVars /\ UNCHANGED <<next, left, FvInstance>>
    BY <1>4 DEF PeiPhase, fvbVars
  <2>1. CASE PeimInitializeWinNtFwh
    BY <2>0, <2>1, HobsAnnounced
  <2>2. CASE InitializeBootMode \/ ScanRegion \/ ScanEnds \/ Coalesce
    <3>1. UNCHANGED <<flash, hobs>>
      BY <2>2 DEF InitializeBootMode, ScanRegion, ScanEnds, Coalesce, peiVars
    <3>2. phase # "fvb" /\ phase' \notin {"size", "fvb"}
      BY <2>2 DEF InitializeBootMode, ScanRegion, ScanEnds, Coalesce
    <3> QED BY <1>1, <2>0, <3>1, <3>2
  <2> QED BY <1>4, <2>1, <2>2 DEF PeiPhase
<1>5. CASE DxePhase
  <2>1. CASE FvbInitialize
    BY <2>1, FvbKeeps
  <2>2. CASE CreateTpmSocket
    <3>1. UNCHANGED <<flash, hobs, next, left, FvInstance>>
      BY <2>2 DEF CreateTpmSocket, peiVars, fvbVars
    <3>2. phase' = phase \/ (phase # "fvb" /\ phase' \notin {"size", "fvb"})
      BY <2>2 DEF CreateTpmSocket
    <3> QED BY <1>1, <3>1, <3>2
  <2>3. CASE Tpm2SubmitCommand \/ UNCHANGED <<secVars, peiVars, fvbVars>>
    <3>1. UNCHANGED <<flash, hobs, next, left, FvInstance, phase>>
      BY <2>3 DEF Tpm2SubmitCommand, secVars, peiVars, fvbVars
    <3> QED BY <1>1, <3>1
  <2> QED BY <1>5, <2>1, <2>2, <2>3 DEF DxePhase
<1>6. CASE PlatformBootManagerBeforeConsole \/ PlatformBootManagerAfterConsole
  <2>1. /\ UNCHANGED <<flash, hobs, next, left, FvInstance>>
        /\ phase # "fvb" /\ phase' \notin {"size", "fvb"}
    BY <1>6 DEF PlatformBootManagerBeforeConsole, PlatformBootManagerAfterConsole, fvbVars
  <2> QED BY <1>1, <2>1
<1>7. CASE StageCapsule \/ RequestReset
  <2>1. /\ UNCHANGED <<flash, hobs, next, left, FvInstance>>
        /\ phase # "fvb" /\ phase' \notin {"size", "fvb"}
    BY <1>7 DEF StageCapsule, RequestReset, peiVars, fvbVars
  <2> QED BY <1>1, <2>1
<1>8. CASE WinNtResetSystem \/ Shutdown
  <2>1. /\ UNCHANGED <<flash, hobs, next, left, FvInstance>>
        /\ phase' = phase \/ (phase # "fvb" /\ phase' \notin {"size", "fvb"})
    BY <1>8 DEF WinNtResetSystem, Shutdown, secVars, peiVars, fvbVars
  <2> QED BY <1>1, <2>1
<1>9. CASE ExitProcess \/ Exit \/ PeiResetSystem \/ Die
  <2>1. phase' = "off" /\ left' = 0 /\ flash' = flash
    BY <1>9 DEF ExitProcess, Exit, PeiResetSystem, Die, Forget, Vanish
  <2> QED BY <2>1 DEF FvbInv
<1> QED BY <1>2, <1>3, <1>4, <1>5, <1>6, <1>7, <1>8, <1>9 DEF Next

(* FvbInitialize measures in one pass and fills in another that rewrites   *)
(* the headers: for headers of any lengths, in any state, it stays in its  *)
(* buffer, fills it to the end, and sets up what is served, in order.      *)
THEOREM BufferIsEnough == Spec => []VolumesAreServed
<1>1. Init => FvbInv
  BY BootAssumption DEF Init, FvbInv
<1>2. FvbInv /\ [Next]_vars => FvbInv'
  BY FvbNext
<1>3. ASSUME FvbInv PROVE VolumesAreServed
  <2>1. CASE phase # "fvb"
    BY <1>3, <2>1 DEF FvbInv, VolumesAreServed
  <2>2. CASE phase = "fvb"
    <3>1. /\ Announced /\ next \in 1 .. Len(hobs) + 1 /\ BufferLeft /\ Instances
          /\ hobs \in Seq(Volumes \cup {"memory"})
      BY <1>3, <2>2 DEF FvbInv, Announced
    <3>2. PICK w, g : Sums(ServedHobs, w, g) /\ left = g[Ahead]
      BY <3>1 DEF BufferLeft
    <3>3. left >= 0
      <4>1. Ahead \in SUBSET ServedHobs
        BY DEF Ahead
      <4>2. left \in Nat
        BY <3>2, <4>1 DEF Sums
      <4> QED BY <4>2
    <3>4. ASSUME next \notin DOMAIN hobs
          PROVE  /\ left = 0 /\ \A n \in DOMAIN hobs : n < next
      <4>1. \A n \in DOMAIN hobs : n \in Nat /\ n < next
        BY <3>1, <3>4
      <4>2. Ahead = {}
        <5>1. \A i \in ServedHobs : i \in DOMAIN hobs /\ ~(i >= next)
          BY <3>1, <4>1 DEF ServedHobs
        <5> QED BY <5>1 DEF Ahead
      <4> QED BY <3>2, <4>1, <4>2 DEF Sums
    <3> QED BY <3>1, <3>3, <3>4 DEF VolumesAreServed, Instances, ServedHobs
  <2> QED BY <2>1, <2>2
<1> QED BY <1>1, <1>2, <1>3, PTL DEF Spec
=============================================================================
