----------------------------- MODULE Microcode -----------------------------
(***************************************************************************)
(* The microcode driver (MicrocodeUpdateDxe): the Firmware Management      *)
(* protocol over the microcode region of the flash.                        *)
(*                                                                         *)
(* The platform has one processor (MpServicesDxe), whose revision is a     *)
(* non-volatile variable.  The region is the file of the host that Sec     *)
(* maps: it outlives the emulator, which may be ended while an image is    *)
(* copied into it.  Its unit is the 1 KB by which the driver scans it: a   *)
(* cell is a part of an image, the first one its header, or is erased.     *)
(***************************************************************************)
EXTENDS Naturals, Sequences

CONSTANTS
    Image,     \* records: is it for this processor (fits), rev, size
    Size,      \* MicrocodePatchRegionSize
    Shipped,   \* the regions as the flash may be built
    Default,   \* CURRENT_MICROCODE_SIGNATURE_DEFAULT
    NoIndex,
    ErasedCell \* 0xFF

ASSUME ImageAssumption ==
    \A i \in Image : i.fits \in BOOLEAN /\ i.rev \in Nat /\ i.size \in Nat \ {0}
ASSUME SizeAssumption == Size \in Nat \ {0} /\ Default \in Nat

VARIABLES
    region,    \* the flash, a function of 0 .. Size - 1
    cpuRev,    \* MicrocodeSignature: the revision the processor runs
    saved,     \* MicrocodeLastAttempVar: how the last update ended
    pc,        \* "down", "idle", or the step of SetImage: "write", "save"
    rev,       \* ProcessorInfo: MicrocodeRevision, and MicrocodeIndex or
    index,     \* NoIndex
    info,      \* MicrocodeInfo, in the order of the region
    attempt,   \* LastAttempt.LastAttemptStatus
    plan,      \* what SetImage writes: the address, the cells and how many
               \* are written; and, as history, its kind, whether it slips
               \* over padding, and the other sound images there were
    cut,       \* an update has been cut off by the end of the emulator
    spilled,   \* a write went beyond the region
    unstored   \* the processor runs an image that was never in the flash: it
               \* came with it, or its write was not completed
privateData == <<rev, index, info, attempt, plan>>
updateVars == <<region, cpuRev, saved, pc, privateData, cut, spilled, unstored>>

----------------------------------------------------------------------------
(* The region: an image's cells, and what is found at an address.          *)
Cell == [image : Image, part : Nat] \cup {ErasedCell}
Region == [0 .. Size - 1 -> Cell]
Cells(i) == [k \in 1 .. i.size |-> [image |-> i, part |-> k - 1]]
Blank(n) == [k \in 1 .. n |-> ErasedCell]
HasHeader(r, p) == r[p] # ErasedCell /\ r[p].part = 0
IsSound(r, p) ==
    /\ HasHeader(r, p) /\ p + r[p].image.size <= Size
    /\ \A k \in 0 .. r[p].image.size - 1 : r[p + k] = [image |-> r[p].image, part |-> k]
SoundImages(r) == {r[p].image : p \in {q \in 0 .. Size - 1 : IsSound(r, q)}}

(* The flash is built of images, perhaps with padding between them: none   *)
(* begins inside another or goes on beyond the region.                     *)
IsTidy(r) ==
    \A p \in 0 .. Size - 1 : HasHeader(r, p) =>
      /\ p + r[p].image.size <= Size
      /\ \A q \in p + 1 .. p + r[p].image.size - 1 : ~HasHeader(r, q)
ASSUME ShippedAssumption ==
    ErasedCell \notin [image : Image, part : Nat] /\ \A r \in Shipped : r \in Region /\ IsTidy(r)

(* GetMicrocodeInfo: from one header to the end of its image, and by a     *)
(* cell over padding, until the end of the region is reached or passed.    *)
(* An image is in use if it verifies for the processor and is not older    *)
(* than the revision of the start.                                         *)
IsInUse(r, p, current) == IsSound(r, p) /\ r[p].image.fits /\ r[p].image.rev >= current
Found(r, p, current) ==
    IF HasHeader(r, p) THEN <<[at |-> p, size |-> r[p].image.size, inUse |-> IsInUse(r, p, current)]>>
                       ELSE <<>>
NextAt(r, p) ==
    LET next == IF HasHeader(r, p) THEN p + r[p].image.size ELSE p + 1
    IN  IF next < Size THEN next ELSE Size
ScanFrom(r, current) ==
    LET From[p \in 0 .. Size] ==
            IF p = Size THEN <<>> ELSE Found(r, p, current) \o From[NextAt(r, p)]
    IN  From
Scan(r, current) == ScanFrom(r, current)[0]

(* The processor's index is the last one in use; with none it is left as   *)
(* it was.                                                                 *)
InUse(list) == {k \in DOMAIN list : list[k].inUse}
Indexed(list, old) == IF InUse(list) = {} THEN old
                      ELSE CHOOSE k \in InUse(list) : \A j \in InUse(list) : j <= k

NoPlan ==
    [at |-> 0, cells |-> <<>>, done |-> 0, ok |-> FALSE, kind |-> "none", slips |-> FALSE, others |-> {}]

Stored == \E i \in SoundImages(region) : i.fits /\ i.rev = cpuRev
UpdateInit ==
    /\ region \in Shipped
    /\ cpuRev = Default /\ saved = "none" /\ pc = "down"
    /\ rev = 0 /\ index = NoIndex /\ info = <<>> /\ attempt = "none" /\ plan = NoPlan
    /\ cut = FALSE /\ spilled = FALSE /\ unstored = ~Stored

(* The entry of the driver.                                                *)
InitializePrivateData ==
    /\ pc = "down" /\ pc' = "idle"
    /\ rev' = cpuRev /\ attempt' = saved /\ plan' = NoPlan
    /\ info' = Scan(region, cpuRev) /\ index' = Indexed(info', NoIndex)
    /\ UNCHANGED <<region, cpuRev, saved, cut, spilled, unstored>>

----------------------------------------------------------------------------
(* UpdateMicrocodeFlashRegion: the place of the new image.                 *)
Used == IF info = <<>> THEN 0 ELSE info[Len(info)].at + info[Len(info)].size
HasNext == index # Len(info)
TargetAt == info[index].at
TargetSize == IF index = NoIndex THEN 0 ELSE info[index].size
\* (With a fault: up to the region's size rather than its end.)
AvailableBeyond ==
    IF index = NoIndex THEN 0 ELSE IF HasNext THEN info[index + 1].at - TargetAt ELSE Size
Available ==
    IF index = NoIndex THEN 0 ELSE IF HasNext THEN info[index + 1].at - TargetAt ELSE Size - TargetAt

Others ==
    {region[info[k].at].image : k \in {j \in DOMAIN info : j # index /\ IsSound(region, info[j].at)}}
Part(from, n) == [k \in 1 .. n |-> IF from + k - 1 < Size THEN region[from + k - 1] ELSE ErasedCell]
Planned(kind, at, cells) ==
    [at |-> at, cells |-> cells, done |-> 0, ok |-> TRUE, kind |-> kind, others |-> Others,
     slips |-> kind = "reorg" /\ HasNext /\ info[index + 1].at # TargetAt + TargetSize]

(* In situ, up to the next image; at the end; or in its place with the     *)
(* rest moved up: read from the end of the old image, but as many as there *)
(* are from the next one.  (A variant with a fault pads to the end.)       *)
InSituToEnd(i) == Planned("place", TargetAt, Cells(i) \o Blank(Size - TargetAt - i.size))
InSitu(i) == Planned("place", TargetAt, Cells(i) \o Blank(Available - i.size))
AtTheEnd(i) == Planned("append", Used, Cells(i))
Reorg(i) ==
    Planned("reorg", TargetAt,
            Cells(i) \o (IF HasNext THEN Part(TargetAt + TargetSize, Used - info[index + 1].at) ELSE <<>>))

(* From the beginning, with the other images in use as long as they fit.   *)
Chosen(d, cells) == d.inUse /\ (index = NoIndex \/ d.at # TargetAt) /\ d.size <= Size - Len(cells)
WithKept(d, cells) == IF Chosen(d, cells) THEN cells \o Part(d.at, d.size) ELSE cells
KeptFor(i) ==
    LET Kept[k \in 0 .. Len(info)] == IF k = 0 THEN Cells(i) ELSE WithKept(info[k], Kept[k - 1])
    IN  Kept
FromBeginning(i) ==
    LET kept == KeptFor(i)[Len(info)]
    IN  Planned("begin", 0, kept \o Blank(Size - Len(kept)))

(* The sizes are unsigned: what is used may be more than the region.       *)
FitsTheRest(i) == Used - TargetSize > Size \/ Size - (Used - TargetSize) >= i.size
PlanFor(i) ==
    CASE Available >= i.size -> InSitu(i)
      [] Available < i.size /\ FitsTheRest(i) -> IF index = NoIndex THEN AtTheEnd(i) ELSE Reorg(i)
      [] Available < i.size /\ ~FitsTheRest(i) /\ Size >= i.size -> FromBeginning(i)
      [] OTHER -> NoPlan

(* VerifyMicrocode against the revision of the start, then the load: it    *)
(* sets the variable, and has failed if that has.                          *)
Verifies(i) == i.fits /\ i.rev > rev

(* SetImage up to the write.  An image that is corrupt or for another      *)
(* processor is refused, and an image that is loaded may not be written.   *)
SetImage(i, corrupt) ==
    /\ pc = "idle" /\ info # <<>>
    /\ \/ /\ attempt' = IF corrupt THEN "format" ELSE "version"
          /\ corrupt \/ ~Verifies(i)
          /\ pc' = "save" /\ plan' = NoPlan /\ UNCHANGED <<cpuRev, unstored>>
       \/ /\ attempt' \in {"resources", "auth"}      \* no copy, or no load
          /\ pc' = "save" /\ plan' = NoPlan /\ UNCHANGED <<cpuRev, unstored>>
          /\ attempt' = "auth" => ~corrupt /\ Verifies(i)
       \/ /\ ~corrupt /\ Verifies(i) /\ cpuRev' = i.rev /\ unstored' = TRUE
          /\ index \in DOMAIN info \cup {NoIndex}           \* ASSERT
          /\ \/ /\ plan' = PlanFor(i) /\ plan'.ok
                /\ attempt' = "success" /\ pc' = "write"
             \/ /\ attempt' = "resources" /\ plan' = NoPlan     \* no buffer, or too big
                /\ pc' = "save"
    /\ UNCHANGED <<region, saved, rev, index, info, cut, spilled>>

(* MicrocodeFlashWrite, a cell at a time.  (A variant with a fault leaves  *)
(* the last one out.)                                                      *)
CompleteEarly == plan.done + 2 >= Len(plan.cells)
Complete == plan.done + 1 = Len(plan.cells)
WriteCell ==
    /\ pc = "write"
    /\ LET p == plan.at + plan.done
       IN  IF p < Size
           THEN region' = [region EXCEPT ![p] = plan.cells[plan.done + 1]] /\ UNCHANGED spilled
           ELSE spilled' = TRUE /\ UNCHANGED region
    /\ plan' = [plan EXCEPT !.done = @ + 1]
    /\ IF Complete THEN pc' = "save" /\ unstored' = FALSE ELSE UNCHANGED <<pc, unstored>>
    /\ UNCHANGED <<cpuRev, saved, rev, index, info, attempt, cut>>

(* The outcome is saved, which may fail; after a success the information   *)
(* is read again from the region.  (A variant with a fault keeps it.)      *)
RefreshedNever == UNCHANGED <<info, index>>
Refreshed ==
    IF plan.ok THEN info' = Scan(region, rev) /\ index' = Indexed(info', index) ELSE UNCHANGED <<info, index>>
Save ==
    /\ pc = "save" /\ pc' = "idle" /\ Refreshed
    /\ saved' \in {saved, attempt} /\ plan' = NoPlan
    /\ UNCHANGED <<region, cpuRev, rev, attempt, cut, spilled, unstored>>

(* The emulator ends, perhaps in the middle of an update.                  *)
End ==
    /\ pc # "down" /\ pc' = "down"
    /\ rev' = 0 /\ index' = NoIndex /\ info' = <<>> /\ attempt' = "none" /\ plan' = NoPlan
    /\ cut' = (cut \/ pc = "write")
    /\ UNCHANGED <<region, cpuRev, saved, spilled, unstored>>

UpdateNext ==
    \/ InitializePrivateData \/ WriteCell \/ Save \/ End
    \/ \E i \in Image, corrupt \in BOOLEAN : SetImage(i, corrupt)
UpdateSpec == UpdateInit /\ [][UpdateNext]_updateVars

----------------------------------------------------------------------------
(* Between two calls the driver's description of the region is what a scan *)
(* of it finds, and the processor's index, if it has one, is that of an    *)
(* image in use, through updates that fail, move images and are cut off.   *)
InfoIsTrue ==
    pc = "idle" =>
        /\ info = Scan(region, rev)
        /\ index # NoIndex /\ ~spilled => index \in InUse(info)

(* The image the processor runs is in the flash, whole, for the next       *)
(* start: unless it was loaded and its write failed, was cut off or went   *)
(* beyond the region.                                                      *)
LoadedIsStored ==
    pc \in {"idle", "down"} /\ ~unstored /\ ~spilled => Stored

(* An update that does not start over from the beginning keeps every other *)
(* sound image that the scan has found, whatever earlier updates that were *)
(* cut off have left around it, unless it slips over padding or goes       *)
(* beyond the region.                                                      *)
OthersKept ==
    pc = "save" /\ plan.ok /\ plan.kind # "begin" /\ ~plan.slips /\ ~spilled =>
        plan.others \subseteq SoundImages(region)

(* As long as no update has been cut off the writes stay inside the        *)
(* region, whatever earlier updates have moved, padded and slipped over,   *)
(* and however the unsigned sizes of UpdateMicrocodeFlashRegion come out.  *)
(* (After a few that were cut off, the head of an image may lie in what    *)
(* the head of another claims, and be found again when that one moves.)    *)
StaysInside == spilled => cut
=============================================================================
