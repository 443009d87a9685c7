# A verification project for the NT32 emulator

NT32 is UEFI firmware that runs as a Windows program. Its drivers stand in for
hardware: a multimedia timer for the timer interrupt, a window for the display
and the keyboard, a mapped file for the flash, a function call for the SMI. What
hardware does at one stroke these drivers do in steps, on several Windows
threads, and with event notifications that run in the middle of the interrupted
code. This project models those drivers in TLA+, checks the models with TLC and
proves theorems about them with TLAPS.

Paths are relative to `src/Nt32Pkg`. `PROJECT.json` lists for every definition
the lines it stands for, for every run its properties, for every property a
fault in the model that the run detects, and every hazard with the properties
that watch it.

## 1. Inventory

Three things run concurrently in the emulator:

* **the main thread** runs the firmware (Sec, PEI, DXE, BDS, shell);
* **the timer thread** of Windows runs `MMTimerThread`, which *suspends* the main
  thread and calls the firmware's timer handler in its place; the handler makes
  the core dispatch **event notifications**, so that these run in the middle of
  whatever the main thread was doing below their priority level;
* **one window thread** per display handles the window's messages.

| Component | State | Operations | Interacts with | What is hard | What makes it correct |
|---|---|---|---|---|---|
| Timer driver, `TimerDxe` (with the interrupt flag of `CpuRuntimeDxe`) | period, timer id, last tick, handler, cancel flag, critical section | SetTimerPeriod, RegisterHandler, GetTimerPeriod, the callback, DriverEntry and its failure path | suspends the main thread; calls the core's handler | suspending a thread that may own a lock; stopping a timer whose callback is under way; a wrapping tick | the callback is an interrupt: masked when the firmware masks, silent after a stop; time is delivered once; nothing deadlocks |
| Keyboard, `WinNtGopDxe/WinNtGopInput.c` | two rings of keys, each with a critical section; partial-key switch; WaitForKey's event; the list of registered callbacks | window messages add keys; ReadKeyStroke(Ex), Reset, WaitForKey, SetState, Register/UnregisterKeyNotify; the timer event that calls the callbacks | window thread fills, firmware and notifications drain | unlocked looks at the rings; rings that fill; partial keys that end loops; a list walked while it is changed | each ring is a FIFO that loses only what finds it full; a signalled key is read; every registered function is called for its key |
| Display, `WinNtGopDxe/WinNtGopScreen.c`, `WinNtGopDriver.c` | resolution, frame buffer and its header, fill line, window thread, shared thread-local index and its count | Start, SetMode, Blt, Stop, ExitBootServices; WM_CREATE, WM_PAINT, WM_MOVE/SIZE, WM_DESTROY, WM_CLOSE | main thread and notifications draw, window thread reads; synchronous messages between them | a frame buffer freed under the window; two ways to the destructor; waiting for a thread that waits | a Blt only touches a live buffer of its resolution; the index serves every window; calls return |
| Firmware volumes, `FvbServicesRuntimeDxe` (runtime driver and SMM twin) | the flash, each volume's status bits, the table of volumes | FvbInitialize; Read, Write, EraseBlocks, Get/SetVolumeAttributes, GetBlockSize | PEI announces the volumes; called by the variable and fault-tolerant-write drivers, also from notifications | two passes that have to agree; block maps of several lengths, clipping, lists of ranges; a lock that is never taken | a device of separate blocks; refusals change nothing; each volume is served |
| Software SMIs, `Feature/Smm` (`WinNtSmmControlDxe`, `WinNtSmmCpu`, `WinNtSmmChildDispatcherSmm`) | command and data port, list of handlers | Activate, Trigger, the dispatcher, Register, UnRegister, Get/SetInfo | SMM core; notifications activate SMIs too | the ports are two variables, and nothing masks a second SMI; handlers change the list | a handler sees the ports of its own call; values are distinct; the walk stays on the list |
| File system, `WinNtSimpleFileSystemDxe` | volume and its label, open files, host handles, directory search | Start/Stop, OpenVolume, Open, Close, Delete, Read, Write, Get/SetPosition, Get/SetInfo, Flush | host directory tree | directory enumeration, read-only, rename and truncation, half-failed opens | handles have one owner; a name means what it spells; a call touches its own file |
| Serial port, `WinNtSerialIoDxe` | settings (four copies: mode, UART node, installed path, host), control flags, loopback FIFO | Start/Stop, Reset, SetAttributes, Set/GetControl, Read, Write | bus driver, host port | copies that differ after a failure; the TPL that is low in the middle of Reset and Start; FIFO at its limit | the copies agree; the FIFO keeps order; Stop releases what Start took |
| Network, `SnpNt32Dxe` | interfaces, shared array of transmitted buffers, lock | entry, Unload, binding, Transmit, Receive, GetStatus, ReceiveFilters, state changes | host library | array that grows and is used outside the lock; start-up that fails at any step | each buffer comes back once; interfaces go before the library |
| Disk, `WinNtBlockIoDxe` | media, host handle, sizes | Start/Stop, Reset, ReadBlocks, WriteBlocks, FlushBlocks | bus driver, host file or drive | media that change between calls; opens that resize the file | what is written stays; handles are closed |
| Bus, `WinNtBusDriverDxe` | children from PCD strings | Supported, Start, Stop | the drivers above, driver binding | partial starts, children removed one by one | children exist exactly while started |
| Microcode, `Feature/Microcode` | the region in the flash, the revision the processor runs, what the driver knows of the region, the saved outcome | entry (scan), SetImage with its check, load, choice of a place, write | flash file that outlives the process | four ways to make room; unsigned sizes; a write that is cut off | what is known is true, what runs is stored, nothing is written outside |
| Sec, `Sec` | flash devices, memory regions, memory files | mapping the FDs, search for the PEI core, services for PEI | everything | files of a volume that are deleted, torn or damaged | the first whole core is started |
| PEI: `BootModePei`, `WinNtAutoScanPei`, `WinNtFirmwareVolumePei`, `WinNtFlashMapPei`, `ResetPei` | boot mode, regions found, capsule, announced volumes | boot mode, memory scan, coalescing, HOBs, reset | Sec's services, FvbInitialize, boot manager | memory at other places in the next life | a capsule is found where it was left |
| Reset and boot manager, `ResetRuntimeDxe`, `PlatformBootManagerLib` | memory files, capsule | ResetSystem, ProcessCapsules | Sec of the next life | files that cannot be opened or written; a process that just ends | a staged capsule is processed, and no other |
| TPM 2 simulator client, `Feature/Tpm2/Tpm2Simulator` | two sockets, the exchange under way | connect, submit a command, shut down | simulator process, reset | answers that arrive in pieces; errors in the middle | a command gets its own answer; an orderly power-off |
| `Tcg2Config`, Recovery's loader, SmmAccess, clock, metronome, stall, MP services, SMBIOS, libraries, status codes | none, or set once | single calls to the host, tables, stubs, a form | - | - | - |

The hazards that come from these are in `PROJECT.json`, each at the line where it
bites and with the properties that would catch it.

## 2. Plan

In order of importance: how the emulated interrupt works, since everything else
runs under it; then the drivers that two threads share; then those that
notifications re-enter; then the sequential drivers with long protocols; then
what spans several lives of the process.

| # | Modules | Abstract specification | Main checks | Theorems | State |
|---|---|---|---|---|---|
| 1 | `Timer` | `EmulatedInterrupt` | refinement, silence after stop, time, calls return | types, lock, interrupt, silence, success, time, refinement | done |
| 2 | `GopInput`, extended by `GopNotify` | `KeyFifo` | refinement, signal, callbacks, walk | types, signal, refinements, also with callbacks, walk | done |
| 3 | `GopScreen` | - | live frame buffer, thread-local index, calls return | types, live frame buffer, the index | done |
| 4 | `Fvb`, `FvbSmm` | `BlockDevice` | refinement, refusals | types, refinement, refusals, the clip | done |
| 5 | `Smm` | - | own ports, live walk, what is served | types, distinct values, own ports, walk, what is served | done |
| 6 | `FileSystem` | - | handle ownership, names, listings, own file | types and all of them | done |
| 7 | `Serial` | `ByteFifo` | copies agree, ownership, FIFO | types and all of them | done |
| 8 | `Snp` | - | buffers come back once, unload after a failed start | both | done |
| 9 | `Bus`, `BlockIo` | - | handles, written blocks | types and all of them | done |
| 10 | `Microcode` | - | true information, what runs is stored, writes inside | all of them | done |
| 11 | `FwVol`, `Sec`, `Pei`, `FvbInit`, `Tpm`, composed by `Boot` | `FirstOf` in `FwVol` (files without following them) | first core, volumes served, capsule across lives, TPM exchange | all of them | done |

Every module takes its sizes as CONSTANTS with named assumptions, has one action
per step between two points where another actor may run, and declares no
RECURSIVE operator, so that it can be proved about as it stands. A variant of a
definition that comes just before it (`ClipLate`, `SkipRest`, ...) is
a plausible fault of the code, kept to show that a property notices it.

## 3. The models

### Timer, EmulatedInterrupt, TimerProofs

One action per step between two scheduling points of the main thread and of the
timer thread: each EnterCriticalSection, each LeaveCriticalSection with the
stores it ends, each store outside the section, `SuspendThread`, `ResumeThread`,
`timeSetEvent` (`SetEvent`) and `timeKillEvent`, which with
TIME_KILL_SYNCHRONOUS waits for a running callback (`Kill`, `KillWait`).
`pc` is the place in SetTimerPeriod or RegisterHandler, `mmpc` that in
`MMTimerThread`; the variables with the code's names are its globals and locals.
`clock` stands for GetTickCount, which wraps at `TickWrap`; `credited` is history.
`RaiseTPL` and `RestoreTPL` are what the core does with the interrupt flag.
`Uses` says what the firmware uses SetTimerPeriod for after start-up: the DXE
core only programs the period once and never stops it, so `{"stop"}` is its use
and more; `"reprogram"` and `"restart"` are allowed by the protocol.

### KeyFifo, GopInput (proofs in GopProofs)

`Q`, `Front`, `Rear`, `Cs` are the rings `Read` and `Notify`. The window thread
adds each key typed to both, in two critical sections (`wpc`); the firmware's call
(`fop`, `fpc`) and the timer handler (`hpc`) take keys with `DeleteQ`, step by
step. A key is its place in the order typed; `partial` holds those that are only
a shift or control key. `KeyFifo` is a bounded FIFO.

### GopNotify, MCGopNotify (proofs in GopProofs)

`GopNotify` extends `GopInput` by the list of registered callbacks, a circular list
of records with `ForwardLink` and `BackLink`. RegisterKeyNotify and
UnregisterKeyNotify (`call`) do not raise the TPL: each record looked at and each
store to a link is a step, and the timer handler may walk the list (`walk`) between
any two. A callback may register or unregister records itself; it runs at TPL_NOTIFY,
so that its change is one step. `CallbackChanges` says when callbacks do so: `"quiet"`
is when the firmware is not itself in the middle of a change, and not their own
record; `"any"` is what nothing prevents. `walk.due` is history: the records
registered for the key when the walk began and not called yet.

### GopScreen, MCGopScreen (proofs in GopProofs)

Actors: `main`, `event` (drawing the cursor in a notification) and one window
thread per controller. SetMode goes through its steps (`pc`): first mode or
change, free, allocate, point, MoveWindow, fill line. `sent` is the queue of calls
that wait for the window thread (UpdateWindow, MoveWindow, SendMessage); the
window thread answers between two messages. `heap` says which blocks live and for
which resolution; of the two modes one is wider and the other higher. `tls`/`users`
are `mTlsIndex` and its count. A scenario names the controllers that are started and
stopped, and whether memory runs short and the firmware boots.

### BlockDevice, Fvb, FvbSmm, MCFvb, StorageProofs

`memory` is the flash, and each volume a base address and a block map, as in its
header. A call is checked in one step (nothing before its first store can be seen
from outside), and then writes byte by byte (`PutByte`), so that a notification
may write or erase in between; EraseBlocks makes its two passes. `result` is what
the last step returned. `BlockDevice` knows blocks and no addresses: the
refinement mapping cuts the flash into blocks by adding up lengths, whereas
`FvbGetLbaAddress` walks the block map as the code does. FWBlockServiceSmm.c repeats
these functions for the build with SMM: `FvbSmm` has its calls, where one caller runs
to the end, and chooses the build at the start. The start-up of both is `FvbInit`, below.
`LayoutAssumption` says what that start-up is given: the volumes lie in the flash and do not
overlap, as the regions of the flash description file do.

### Smm, SmmProofs

A call passes through Activate, WinNtSmmTrigger, WinNtSmmSetInfo, the dispatcher
and WinNtSmmGetInfo; every access to one of the two ports is a step (`call[a].at`).
The SMM core between Trigger and dispatcher is external: it calls the dispatcher.
Register and UnRegister are one step each, since only a dispatcher that was given
a command reads the list, and no notification of the platform passes one.

### FileSystem, MCFileSystem, FileSystemProofs

Every call of the file protocol but Open runs at TPL_CALLBACK and none waits, so a
call is one step; what makes it hard is its many ways out. The stages of a call
are operators on a record of the host, its handles, the object (`me`) and the
status so far, in the order of the code: SetInfo renames, resizes, stamps and sets
the attributes, and a stage after one that ended the call does nothing. `Reopen` is
the label of that name, reached from two places. `host`, `handle` and the operators
before `OpenVolume` stand for Windows: sharing modes without FILE_SHARE_DELETE (what
is open is neither moved nor deleted), read-only files, directories opened with
FILE_FLAG_BACKUP_SEMANTICS, a find handle that lists names in order.
The volume's root is the directory of the build (`.`). `\` as a name means the
directory of This in the code (it is cut to nothing), and `OpenedAsSpelled` excludes
it; a name `IsFileNameValid` refuses is one that is not in `Name`.
`volume` is the driver's private data with the label, which SetInfo frees and
copies; Stop comes when every file is closed, as its callers see to.
GetPosition, GetInfo and Flush change nothing. `pass` and `owed` are history.

### ByteFifo, Serial, MCSerial, SerialProofs

The settings of one port exist in the host's port (`port`), in the mode, in the UART
node and in the installed device path (`dev.mode`, `dev.uart`, `dev.path`), and every
call of the host may fail in between. A protocol function runs at TPL_NOTIFY and is
one step; `call` is at the places of Reset and of a second Start where the TPL is low
and a notification may come; `transfer` is a Read or Write under way, a byte or a
piece at a time. `fresh`, `torn` and `half` are history: nothing was programmed yet,
SetCommTimeouts failed after SetCommState, the host failed inside SetControl. The
loopback FIFO is the code's ring of `First`, `Last`, `Surplus`; `ByteFifo` is a
sequence, and `Contents` maps one to the other.

### Snp, SnpProofs

`stage` is how far the entry point or Unload is: locate, load, fill the table,
initialise, one interface after the other, and the ways out. Transmit and
GetStatus are the steps of `call[a]` over the array `RecycledTxBuf`, its count and its
size: each store to one of them is one. `outstanding` is what the client waits for;
`forgotten` is history, the buffers that Transmit sent and did not store (the array
was full, or as large as it gets). The library of the host is external: it succeeds or fails.

### Bus, BlockIo, MCBlockIo, StorageProofs

`Bus` has the binding of the bus driver: the PCD strings name the devices, a device
path asks for one, all or none, and a child that cannot be made is left out. `BlockIo`
extends it by the disks among the children. Each function runs at TPL_CALLBACK and is
one step. `private[d]` is the driver's private data (handle, present, read-only, media
ID), `host[d]` the file or drive with its medium, size and blocks. `OpenDevice` truncates
and extends a file of another size, without looking whether it could. `acked` is
history (what was written with success), and `short` the files that could not be extended.

### Microcode, MCMicrocode (proofs in StorageProofs)

The region is a sequence of cells of 1 KB, the unit of the driver's scan; a cell is a
part of an image or erased. `Start` is the entry point; SetImage verifies, loads
(`cpuRev`) and chooses a place as UpdateMicrocodeFlashRegion does (`PlanFor`: in situ, at
the end, moving the rest, from the beginning); then the flash is written a cell at a
time (MicrocodeFlashWrite and PlatformFlashAccessLib) and the outcome saved. `End` may
come anywhere; `cut` is history, whether it came in the middle of a write. The scan
(`Scan`) is a recursive function over the offsets, from one header to the end of its image.
`Shipped` are the regions the flash may be built with: no image begins inside another or
goes on beyond the region (`IsTidy`), with padding between them or without. Sizes are
unsigned: `FitsTheRest` and `Available` take the wrap into account.

### FwVol, Sec, Pei, FvbInit, Tpm, Boot, MCBoot, BootProofs

One life of the emulator after the other; each module extends the one before.
`FwVol` is Sec/FwVol.c as recursive functions over offsets, with a second definition
beside it (`FirstOf`: the offsets that tile the volume), which does not follow the files;
`IsVolume` is what is assumed of an image (files inside the volume, none of size 0: section 5).
`Sec` maps the FDs, finds and starts the core, and allocates and fills regions when PEI
asks. `Pei` chooses the boot mode, scans the regions, coalesces the capsule and announces the volumes.
`FvbInit` is FvbInitialize with its two passes, in both drivers. `Tpm` is the client of the
simulator: an exchange sends, and reads length, data and status in pieces of any size;
`sim` and `stream` outlive the process. `Boot` composes them with the boot manager, an
application that stages a capsule, ResetSystem (region after region) and the ends of the
process: an orderly one, `Exit` when SEC gives up, `PeiResetSystem`, and `Die` anywhere.
What the host keeps between two lives is `files`, `flash`, the variable `CapsuleUpdateData`
and the simulator; `staged` and `due` are history. `staged.kept` says that the reset of the
life in which the capsule was left (`staged.life`) could do its work on the region's file: a
later life does not know the region by that capsule, and may save there what it read itself.

## 4. The runs

| Run | States | Shows | Bounds, and why they are enough |
|---|---|---|---|
| `timer_core` | 179,997 | under the core's use: the main thread is never frozen with the lock, time is not delivered twice, a stop is silent; every call returns | 2 timer ids (the old timer and a new one), 1 handler, clock to 4 with the tick wrapping at 4 and `MaxDelta` 3, so the wrap and the too-long delay happen |
| `timer_reprogram` | 8,888 | with reprogramming, the callback still implements `EmulatedInterrupt`, and SUCCESS means changed | 2 ids, 2 handlers, periods 0 and one in range; the clock stands still, as no property of this run reads it |
| `gop_input` | 711,026 | the reader's ring implements `KeyFifo`; a signalled key is read; every key leaves the callbacks' ring; every registered function is called | 2 keys (one partial or both) through rings with room for 1, so that one is lost and the ring wraps; 2 records and 2 notifications, one with a wildcard; `CallbackChanges = "quiet"` |
| `gop_screen` | 264,297 | frame buffers live while drawn on, the thread-local index is kept while needed, no call waits for ever | 2 controllers (the index is shared), 3 blocks of memory, resolutions that differ both ways, three scenarios |
| `fvb` | 181,390 | `Fvb` implements `BlockDevice`; refusals erase nothing; in both builds | 2 volumes, one with two block lengths, unowned bytes before them; writes up to 2 bytes from any offset, lists of up to 2 ranges; notifications write and erase |
| `smm` | 222,910 | a handler sees its own call's ports, the walk stays on live records, a command is served unless another call disturbed it | command ports 0-3 with 3 for none, 3 records, two data values; notifications activate SMIs without a command, as SMM communication does |
| `file_system` | 39,007 | every handle has one owner and is closed; handles are those of the object's name; listings are complete; a call changes its own file | 2 objects, names 1 and 2 in 2 levels, the root and 2 more entries, sizes 0 and 1, positions up to one whose low word looks like INVALID_SET_FILE_POINTER (2 of a 32-bit half scaled to 3); requests that open, create, move, resize and protect in each combination that meets another branch; 3 labels |
| `serial` | 102,996 | the copies of the settings agree, the port is owned, the loopback is a FIFO | room for 2 bytes, so that the ring fills and wraps; a rate too low, one too high, one between two supported ones; every call of the host may fail |
| `snp` | 1,235,928 | each transmitted buffer comes back once; the interfaces are taken back before the library, whatever step failed | 2 interfaces, 4 buffers, an array of 1 that grows by 1 up to its limit below 4 |
| `disk` | 41,503 | written blocks stay, handles are owned | a file and a drive of 2 blocks behind the bus, a medium that is changed once, a device whose string says nothing and one that is no disk |
| `microcode` | 171,050 | what the driver knows is true, what runs is stored, the others are kept, writes stay inside | a region of 8 cells, images of 1, 2, 3 and 5 cells, for this processor and another, older and newer than the one that runs; six shipped flashes, with one image and with several, with a usable one and without |
| `boot` | 4,084,773 | the first whole core is started; volumes are served; a capsule survives a warm reset, and no stale one is applied; a TPM command gets its own answer and the power-off is orderly | 3 lives (staged, reset, and once more), 2 FDs of 10 volumes each way a file may be, 2 regions at 3 addresses, capsules that fit in the buffer of PEI, one TPM command with a buffer that fits or does not |

Constraints and views. In `disk`, `OneIsUsed`: the two disks share nothing but the bus, so that
one is used at a time. In `serial`, `Apart` excludes a transfer that begins inside a Reset
or a Start (a transfer touches neither the settings nor `call`), and the view `Seen`
leaves out the slots of the ring that hold no byte, which no action reads. In `file_system`, `OneIsUsed` tries the label only
without other files, which it has nothing to do with, and the view leaves out `reply`, the
answer of the last call: no action reads it, and the action property is evaluated on
every step. In that run a file moved to another directory is only read, written, closed or
deleted (`MovedReused`), as the shell's `mv` does; section 5 says what happens otherwise.
Symmetry is used for the objects of the file system and the addresses of `boot`, which
nothing distinguishes; neither run checks liveness.

`Uint32`, `LbaLimit`, `LowWord` and `CountLimit` are the widths of the code's
integers, scaled down. `MaxTyped`, `MaxClock`, `MaxBytes`, `MaxRanges`, `MaxSize`,
`MaxDepth`, `MaxFiles`, `MaxMedium`, `MaxLeak`, `MaxLives` and `MaxCommands` bound what the
user, the clock and the callers do. Deadlock is checked in the runs of the timer, the
keyboard, the flash, the SMIs and the microcode. It is not in those of the display,
where the system may stop (every controller stopped, or after ExitBootServices), with no
actor waiting: `ScreenCallsReturn` covers the rest; of the files, the serial port, the network and the disk,
where nothing waits for anything; and of `boot`, where the last life ends.

The runs name the properties that say most. These, defined in the modules beside them, hold
on the same instances: the type invariants, `SuspensionEnds`, `WriteIsClipped`, `SwiIsUnique`,
`PortsComeBack`, `PaintEndsWithSetMode`, `PositionKept`, `UsableAfterRefusal`, `OpenedAsSpelled`,
`FlowIsPublished` and `MediaIdGuards`, and `CallsReturn` of `Smm`.

**Fairness.** Windows schedules every thread, so a step that stays possible is
taken (weak fairness) for the window threads, the timer event and a notification
under way. The main thread is suspended, or interrupted by notifications, again
and again; but these come a timer period apart and end, so that it runs in
between infinitely often, and strong fairness for its calls is what the
scheduling gives. For the timer's callback strong fairness is needed because the
critical section is taken and given back by the other thread. Nothing is assumed
of users, keys, or when a call is made.

## 5. What the code does not keep

No run spends itself on these; each was met while modelling, most of them with TLC, and the
properties of the runs are stated so as to leave them out. The ones named in the first
column are defined in the modules.

| Property | What happens |
|---|---|
| `StoppedIsSilent` with `Uses = {"stop", "restart"}` | a callback that killed its own timer may store 0 to `mMMTimerThreadID` (Timer.c 135) after SetTimerPeriod has started another, which no later stop then finds; the comment at 344 says period 0 disables the interrupt |
| `StopWaitsForCallback` | SetTimerPeriod (0) may return while a callback that killed its own timer still has its last store to do |
| `SuccessMeansChanged` with a period out of range, or one that rounds to 0 ms | EFI_SUCCESS with no such timer running |
| `FirmwareTimeNotAhead` with reprogramming | the last tick is stored outside the critical section, and an interval is delivered twice |
| `NotReadyMeansEmpty`, `ResetDrains` | a dropped partial key ends a read and the loops of Reset with keys behind it (WinNtGopInput.c 430: "A reset is draining the Queue") |
| `HotKeyFirst` | a reader may get a key before its callback was called |
| `WalkIsComplete` with `CallbackChanges = "any"` | a callback that unregisters itself frees the record whose link is read next (244); one that comes in the middle of the firmware's own change tears the list |
| `BltSeesItsScreen` with a cursor | a notification that draws the cursor during SetMode draws on a freed screen; so does WM_PAINT (WinNtGopScreen.c 327; the comment at 594 says a paint misses some data at most) |
| `FillLineFits` with failing allocations | after SetMode fails to allocate, fills use the line of the old resolution |
| `ScreenFitsBlock` | the first frame buffer is too short by its header |
| `TimerHasContext` | a controller stopped before its first mode leaves its keyboard timer behind |
| `TlsServesWindows` with stops and a boot of several controllers | a stopped controller is destroyed again at ExitBootServices, and gives its use of the thread-local index back twice |
| `EverySmiIsServed` | an SMI without a command, activated by a notification, makes the interrupted one lose its command |
| `SuccessMeansUpdated`, `HandlesAreOwned` with `MovedReused = TRUE` | SetInfo stores a new FileName (2605) and leaves FilePath, so that the next SetInfo of a moved file changes the attributes of another one, or finds none and opens the moved file again over the handle it has (2849), which nobody closes then. Without moves too: a file that became read-only while open loses its handle when it is renamed (2614), and the next SetInfo compares with what was on the stack |
| `PortIsInitialized`, `RtsFollowsWrite` | Start with the settings the mode has already does not program the port; a Write whose SetControl fails leaves the request to send on |
| `RecycleIsExact` with `Preempts = TRUE` | the array and its count are used outside the lock (SnpNt32.c 968): a notification in between loses a buffer, or leaves a slot counted that holds none |
| `OthersKept` without `~plan.slips` | the rest is copied from the end of the old image, which is padding when an update left some, with the length counted from the next one (MicrocodeUpdate.c 883): the last image is cut |
| `OthersKept` for an image behind a cut-off header | an update cut off by the end of the emulator leaves a header whose image is not all there; the scan goes on behind what the header claims, and an image that begins inside is not in the list and not kept |
| `StaysInside` without `cut` | after three updates that were cut off (9 cells), the head of one image lies in what the head of another claims; when that one moves it is found again, with an end beyond the region, `Used` exceeds the region's size, the subtraction in UpdateMicrocodeFlashRegion (MicrocodeUpdate.c) wraps, and the next write leaves the region |

Others have no property. *Timer*: SetTimerPeriod called with interrupts disabled waits for a
callback that waits for them to be enabled (388). *Keyboard*: a registration is matched with wildcards,
so that two registrations may share a handle, and the first Unregister takes both. *Flash*:
block numbers near 2^64 wrap (FWBlockService.c 953; `FarLba`), and the attributes may be changed by a notification in the
middle of a change. A variable volume never written has a damaged length in its header, from which PEI makes the
HOB, so that GetFvbInfo does not know it, although the comment in the PEIM leaves such a header to the driver;
a length of 0 makes the PEIM loop. *File system*: a directory renamed while it is listed gives an
entry twice, since SetInfo reopens it with a FindBuf of its own (2645); a SetInfo some of whose times are zero returns EFI_SUCCESS without
having set the attributes (2745); from 4 GiB on, sizes are cut to 32 bits and one position looks like a failure
(1594, 1947); CREATE of a directory that exists as a file succeeds (1160); a label is copied without
a look at its length (2386); the driver's Stop frees the volume under files that are open. *Serial*: a Start without memory
forgets the port's handle (`leaked`). *Network*: DisableBits and ResetMcastFilter are ignored; at the largest array Transmit
answers NOT_READY for a frame that has left. *Disk*: Reset closes the handle, and the next open does
not compare the medium; neither SetEndOfFile is looked at (691). *Bus*: a Start that gives up leaves protocols open, and one buffer
is a byte short. *Sec*: a file of size 0 in a volume makes the search loop for ever (FwVol.c 162, 185, 203); a buffer
for a name is a character short (SecMain.c 307). *PEI*: a region smaller than SMRAM wraps (AutoScan 261), no memory in region 0 leaves its
base unset, and a recovery wins over a capsule that waits; two regions that swap their addresses between two lives make
the variable point to another, stale capsule (`AppliedIsStaged` asks for the same base). *Reset*: a memory file that was read is not deleted.
*TPM*: too small a buffer leaves the stream out of step, and is reported as DEVICE_ERROR; a failed connection keeps its
sockets open; two users of the socket share it without a lock. *Tcg2Config*: UNSUPPORTED is returned after the banks were saved, and one pending
request replaces another.

## 6. The proofs

TLC shows a property on the instance above; the theorems hold for every value of
the constants under the modules' assumptions.

* `TimerProofs`. `TypeCorrect`. `LockIsNeverFrozen` and `HandlerAlwaysInterrupts`
  from `SafetyInv`: who owns the critical section at each place of either thread
  (`LockInv`: the callback suspends the main thread only while it owns the
  section itself, hence the main thread does not), and how the interrupt flag
  follows the priority level (`MaskInv`). `StopIsSilent`, if the timer is not
  started again after a stop, from `StopInv`: at most one timer lives, a callback
  under way belongs to it, and after the kill there is none (`OneTimerInv`),
  with what the call's place says of its argument (`CallInv`). `SuccessIsTrue`
  adds `ChangeInv`, for periods in range. `TimeIsNotAhead`, if SetTimerPeriod is only
  used to stop, from `TimeInv`: the last tick is the reading of some moment that
  nothing later was delivered for. `ImplementsInterrupt`: initial states and steps
  of `Timer` are those of `EmulatedInterrupt`.
* `GopProofs`, the keyboard. The invariant `IInv` says who holds which
  ring's lock where (`LockInv`), that a place AddQ has found stays free (`RoomInv`), that
  keys in a ring were typed (`TypedInv`) and that what WaitForKey saw stays the
  oldest whole key until read (`SignalInv`). `SignalledKeyIsRead` follows from it, and
  so do both refinements: each step on a ring appends to, takes from or leaves
  the sequence between Front and Rear. Every step of `GopNotify` is one of `GopInput` or leaves
  its variables alone, whatever the callbacks do to the list: hence
  `SignalledKeyIsReadWithCallbacks` and `ReadRingImplementsFifoWithCallbacks`.
  `WalkCompletes`, unless `CallbackChanges = "any"`, from `NotifyInv`: the links are a
  circle because the records have ranks that grow along ForwardLink (`Chain`, `ListInv`), in the middle of
  a call up to the one link that is not stored yet (`Listed`, `CallInv`), and what a walk
  owes lies ahead of where it is (`Ahead`, `WalkInv`).
* `GopProofs`, the display, for any number of controllers, modes, blocks and lives.
  `DisplayInv` says where every actor is when another one moves: what main relies on at each of its
  labels (`Where`), which stages a window thread may be in meanwhile (`Windows`), that a
  request to destroy a window keeps its place in the queue until the thread takes it
  (`Asked`), that a thread draws only while nobody replaces its buffer (`Blts`), and which
  block holds the buffer of which controller, of its mode and with its room, at each step of
  SetMode (`Screens`: two controllers never share a block). `ScreenTypes` and
  `BltIsSafeOutsideSetMode` follow: the one Blt that may touch a buffer that is freed or of
  another mode is that of an event notification in the middle of the SetMode of its controller
  (section 5). `BltSeesScreen` is what is left where no notification draws. `IndexServesWindows`
  adds `Counts`: `mTlsIndexUseCount` is the number of controllers that have a window and have not given
  their use back, and the index is allocated while there is one; for fewer controllers than
  the counter has values, and for the lives in which no controller is destroyed twice (section 5).
* `SmmProofs`. `TypeCorrect` and `UniqueCorrect` (`SwiIsUnique`) by one invariant each: the
  least free value is a free one because every nonempty set of numbers has a least
  element, and what UnRegister leaves is the list without one of its records.
  `PortsCorrect`, if notifications pass no ports, from `PortInv`: while a call is
  under way the command port is its own or that of no command, the data port once
  stored is its own, and so is what the dispatcher copied of either.
  Under the same condition `WalkStaysLive` and `ServedCorrect`, from `WalkInv` (a notification
  never reaches the list, and the record a walk is at is in it) and `ServeInv` (what is
  still to come of the list holds the handler of the command, unless it was disturbed).
* `FileSystemProofs`, for trees, objects and sizes of any number. `TypeCorrect`,
  `HandlesOwned`, `NamesOwn`, `ListingCompletes` and `OwnFileOnly` assume
  `~MovedReused`, as the run does (section 5 says what the code does otherwise). `FsInv`: the host's entries are a tree
  (`FileTree`), each handle belongs to one object and one of its two fields and has its
  path in the tree (`HandlesFit`), and each object has just the handles its fields name, on
  its own name, with a listing one entry ahead (`Has`). Each operator of a call's stages
  has a lemma of what it does to a world: it stays in order (`Sound`, `Good`), the others'
  handles are left alone (`Apart`), and only its own file changes (`Stage`) or it has
  the new name (`Names`). A move keeps the tree a tree because it sends no two paths to
  one (`GoesInjective`) and each path's beginnings to the beginnings of where it goes.
* `SerialProofs`. One invariant, `SerialInv`: at the places of Reset and Start where a
  notification may come, which copies of the settings are equal already (`Core`), and that the
  indices of the ring agree with each other (`Sound`). `TypeCorrect`, `PortOwned`, `SettingsStayEqual` (with
  `FlowIsPublished`) follow, and `LoopbackFifo`: every step appends a byte to the contents,
  takes the first, empties them or leaves them.
* `StorageProofs`, BlockIo. Each call works on one disk and is a function of that disk's record (`OneDisk`);
  `Sane` is what every call leaves: blocks written with success are there, a file
  once written has its size, nothing was written to a medium that came after the handle,
  and who knows the present MediaId has it from the handle's medium. `TypeCorrect`,
  `HandleOwned`, `WrittenKept` and `MediaIdGuarded` follow from it.
* `StorageProofs`, Microcode, for every size of the region, every set of images and every tidy flash,
  through any number of updates, failures and ends of the emulator. `UpdateInv`: between calls the list
  is the scan of the region, and the index that of an image in use (`Known`); during a write the region is
  what it was with the first cells of a good plan over it (`Writing`, `Overlay`); after the write
  the new image is one the scan finds (`Wrote`); and while no update was cut off, the
  region stays tidy. `GoodPlan` is what the four kinds of plan have in common (in situ, at
  the end, moving the rest, from the beginning), with a lemma for each: the cells begin with the image, any
  region that agrees before the plan's address finds it there, the others the plan keeps are
  sound afterwards, and a tidy region is not left and stays tidy. What a scan finds is
  settled by the least offset for which it would fail: the list is ordered and disjoint, holds
  the header it is entered at again when only cells behind it change (`HasAgain`), and ends
  where the last image ends. `InformationIsTrue`, `LoadedImageIsStored`, `OthersAreKept` and
  `WritesStayInside` follow. The exception `spilled` cannot be left out: it happens (section 5).
* `StorageProofs`, Fvb, in either build, for any volumes that satisfy `LayoutAssumption`, with block maps of
  any length. `BlocksAre`, `FirstFrom` and `AddressIs`: the entry at which the walk of FvbGetLbaAddress stops
  is the one whose blocks contain the number, and the address it computes is the sum of the lengths of
  all blocks before; `PlacesApart`: so no two blocks, of one volume or of two, share a byte. The walk and the sum are
  recursive functions, which exist because they can be built up a step at a time
  (`RecursionExists`). Every step of either driver is one of five kinds (`StepOf`). `VolumesAreBlocks` is the
  refinement of `BlockDevice`, if no notification sets attributes, from `FlashTypeOK` (what a call has left to write
  lies in one block) and `Settling` (while main stores a status, the bits of its volume are clear, so that no
  notification begins to write there). `InvalidIsClean` needs `AllListed`: the blocks a
  list of ranges stands for exist, since the first pass has checked each range; this takes
  `Unwrapped`, that no block number asked for is near 2^64 (section 5). `WritesAreClipped`
  (`WriteIsClipped`): what a write has put and has still to put are the bytes asked for that lie in the block.
* `BootProofs`, for any number of lives. `CapsuleInv` says where the capsule that was left last is
  in each phase: in its region until that life ends, then in the region's file or
  nowhere, then in memory, then coalesced, then handed on (`Left`, `Carried`); for one that
  must not get lost, also that neither the scan nor the boot mode has missed it
  (`Saved`). `StagedIsWhatIsApplied` and `CapsuleReachesConsole` follow. `TpmInv` accounts for every
  word on both sockets while the exchanges stay in step (`ReadSoFar`) and for the simulator's state
  at each command of the shutdown (`InOrder`): `AnswerIsRead` and `PowerIsCutLast`.
  `FindIsFirst` is about the search alone. The recursive function exists because each
  look goes forward (`SearchExists`); what it finds is reached from where it began
  (`FoundIsReached`), and a whole file that is reached does not lie before it
  (`ReachedIsFound`); each from the last offset for which it would fail. `CoreComesFirst`
  follows: no FD so far has a core, or the first that has one is remembered (`CoreInv`).
  `BufferIsEnough` from `FvbInv`: what is left of the buffer is the sum of the headers still
  ahead (`BufferLeft`), which the replaced ones do not change, and the instances are the
  served volumes behind, in order (`Instances`). The sum is a fold over a set, which takes
  its elements in an order nobody knows: it exists (`FoldExists`), and any element may
  be taken out first (`FoldSums`), both from the smallest set for which it would fail.
* `SnpProofs`. `InterfacesCorrect` from `DriverInv`, which says what each stage of the entry
  point and of Unload has made so far. `RecycleCorrect`, if calls do not come in the middle of
  one another, from `RecycleInv`: one call at most is under way (`Alone`), the count is within the array
  and what a call has found out of it still holds (`Place`), and the buffers waited for are
  those in the array, in the call's hand or forgotten, each in one place (`Exact`).

Why strengthening is needed: none of the properties says where in its call the
other actor is, and each holds only because of that.

**Only model-checked:** of `FileSystem`, `OpenedAsSpelled`, `UsableAfterRefusal` and `PositionKept`;
of `GopScreen`, `PaintEndsWithSetMode` (these four are in no run's list);
all liveness (`CallsReturn`, `ScreenCallsReturn`, `CallbacksAreCalled`, `SuspensionEnds`) and the fairness part of
`EmulatedInterrupt`, since TLAPS does not reason about fairness and ENABLED here.
`FlowIsPublished`, `MediaIdGuards` and `WriteIsClipped` are proved and in no run's list; they hold on the
instances of `serial`, `disk` and `fvb`.

## 7. What is not modelled

See the components marked `not_modelled` and `partly` in `PROJECT.json`, with their reasons.
Whole components: Tcg2Config is a form each of whose callbacks saves one request of an external library;
MP services refuse or do nothing, SmmAccess is two flags with no SMRAM behind them; the clock, the metronome
and the stall convert the host's time and keep nothing; SMBIOS data, status codes and the libraries are
tables, logging and wrappers of single calls. Recovery's loader reads a file; the recovery mode
and the recovered volume are choices of `Boot`. In the modelled components: the
contents of keys, pixels, files and strings; formatting and logging; component names; the time
values of files; shift and toggle states, except where a registration is matched with them; QueryMode and the copy between two parts of the screen;
the start-up of the SMM drivers and the save-state registers; virtual addresses, which the
emulator never switches to; the microcode's extended signature table; the loading of images as
host libraries and the memory-type information in PEI; addresses as numbers (bases and handles are values that are equal or not). Memory that has been
freed and is used again is modelled up to the point where a property notices.
