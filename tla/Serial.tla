------------------------------- MODULE Serial -------------------------------
(***************************************************************************)
(* The serial driver (WinNtSerialIoDxe): one host COM port, the child that *)
(* Start creates for it with the UART settings of a device path, and the   *)
(* Serial I/O protocol of the child.                                       *)
(*                                                                         *)
(* The settings exist four times: in the host's port, in SerialIoMode, in  *)
(* UartDevicePath and in the installed DevicePath; the control flags twice *)
(* more.  Every host call can fail.  A protocol function raises the TPL to *)
(* NOTIFY and is one step, except where the code lowers it in between: a   *)
(* notification's call can come there, and is the same action.             *)
(***************************************************************************)
EXTENDS Naturals, Sequences, FiniteSetsExt

CONSTANTS
    SERIAL_MAX_BUFFER_SIZE,  \* bytes of the loopback FIFO
    Byte,
    mBaudRateCurrentSupport, \* the rates supported, the sentinel left out
    SERIAL_PORT_MAX_BAUD_RATE,
    DefaultBaud,             \* PcdUartDefaultBaudRate
    BaudAsked,               \* rates that callers and device paths ask for
    FrameAsked,              \* data bits, parity and stop bits, as one value
    DefaultFrame, BadFrame,
    WaitAsked,               \* receive FIFO depth and timeout, as one value
    DefaultWait, BadWait,
    FlowAsked,               \* flow control nodes: Null, "none", "hardware"
    ControlAsked,            \* the control words that callers pass
    Leftover,                \* what an uninitialised control word may hold
    StatusBits,              \* the modem lines that GetControl may report
    Buffers,                 \* what callers write
    Null

Flags == {"HLB", "SLB", "HFC"}
Settable == {"RTS", "DTR"} \cup Flags

(* SERIAL_IO_MODE, UART_DEVICE_PATH, SERIAL_DEV_FIFO and the private data. *)
Frames == FrameAsked \cup {DefaultFrame, Null}
Waits == WaitAsked \cup {DefaultWait, Null}
Settings == [baud : Nat, frame : Frames]
Modes == [baud : Nat, frame : Frames, wait : Waits]
Slots == 0 .. SERIAL_MAX_BUFFER_SIZE - 1
Fifos == [First : Slots, Last : Slots, Surplus : 0 .. SERIAL_MAX_BUFFER_SIZE,
          Data : [Slots -> Byte \cup {Null}]]
Devices == [installed : BOOLEAN, uart : Settings, path : Settings,
            flow : {Null, "none", "hardware"}, mode : Modes, flags : SUBSET Flags,
            fifo : Fifos, fresh : BOOLEAN, torn : BOOLEAN, half : BOOLEAN]

ASSUME SizeAssumption == SERIAL_MAX_BUFFER_SIZE \in Nat \ {0}
ASSUME BaudAssumption ==
    /\ mBaudRateCurrentSupport \subseteq Nat /\ BaudAsked \subseteq Nat
    /\ DefaultBaud \in mBaudRateCurrentSupport /\ SERIAL_PORT_MAX_BAUD_RATE \in Nat
    /\ \A b \in mBaudRateCurrentSupport : 0 < b /\ b <= SERIAL_PORT_MAX_BAUD_RATE
ASSUME ControlAssumption == StatusBits \cap Settable = {} /\ Null \notin Byte
ASSUME BufferAssumption == Buffers \subseteq Seq(Byte)
ASSUME NullAssumption ==
    FlowAsked \subseteq {Null, "none", "hardware"} /\ Null \notin Devices \cup {"none", "hardware"}

VARIABLES
    opened,    \* the driver has the controller's protocols open BY_DRIVER
    dev,       \* WIN_NT_SERIAL_IO_PRIVATE_DATA of the child, or Null
    port,      \* the host's port, and the lines it drives
    call,      \* the call in which the TPL is low: see Idle
    transfer,  \* the loop under way at TPL_NOTIFY, or Null
    heard,     \* the last byte a loopback Read handed out
    leaked     \* a handle of the port was left open by a Start without memory
vars == <<opened, dev, port, call, transfer, heard, leaked>>

Idle == [at |-> "idle"]
Uninterrupted == transfer = Null

Init ==
    /\ opened = FALSE /\ dev = Null
    /\ port = [open |-> FALSE, baud |-> DefaultBaud, frame |-> DefaultFrame,
               wait |-> Null, lines |-> {}]
    /\ call = Idle /\ transfer = Null /\ heard \in Byte /\ leaked = FALSE

----------------------------------------------------------------------------
(* The FIFO of the loopback modes: Surplus counts the free slots.  (In the *)
(* variants with a fault, an index wraps late and a byte is stored behind  *)
(* its slot.)                                                              *)
SuccLate(i) == IF i >= SERIAL_MAX_BUFFER_SIZE THEN 0 ELSE i + 1
Succ(i) == IF i + 1 >= SERIAL_MAX_BUFFER_SIZE THEN 0 ELSE i + 1
EmptyFifo == [First |-> 0, Last |-> 0, Surplus |-> SERIAL_MAX_BUFFER_SIZE,
              Data |-> [i \in Slots |-> Null]]

IsaSerialFifoFull(f) == f.Surplus = 0
IsaSerialFifoEmpty(f) == f.Surplus = SERIAL_MAX_BUFFER_SIZE
AddBehind(f, b) ==
    [First |-> f.First, Last |-> Succ(f.Last), Surplus |-> f.Surplus - 1,
     Data |-> [f.Data EXCEPT ![Succ(f.Last)] = b]]
IsaSerialFifoAdd(f, b) ==
    [First |-> f.First, Last |-> Succ(f.Last), Surplus |-> f.Surplus - 1,
     Data |-> [f.Data EXCEPT ![f.Last] = b]]
IsaSerialFifoRemove(f) ==
    [First |-> Succ(f.First), Last |-> f.Last, Surplus |-> f.Surplus + 1, Data |-> f.Data]

(* The bytes waiting, oldest first.                                        *)
Contents(f) ==
    [i \in 1 .. SERIAL_MAX_BUFFER_SIZE - f.Surplus |->
        f.Data[(f.First + i - 1) % SERIAL_MAX_BUFFER_SIZE]]

----------------------------------------------------------------------------
(* SetAttributes: 0 and Null ask for the default, a rate is rounded down   *)
(* to a supported one.  Nothing is done when UartDevicePath and the mode   *)
(* have the settings already; else the port is programmed, then the mode,  *)
(* then the UART node, of the installed path too once there is one.        *)
Supported(baud) == {b \in mBaudRateCurrentSupport : b <= baud}
Asked(baud) == IF baud = 0 THEN DefaultBaud ELSE baud
Valid(a) ==
    /\ Asked(a.baud) <= SERIAL_PORT_MAX_BAUD_RATE /\ Supported(Asked(a.baud)) # {}
    /\ a.frame # BadFrame /\ a.wait # BadWait
Filled(a) == [baud |-> Max(Supported(Asked(a.baud))),
              frame |-> IF a.frame = Null THEN DefaultFrame ELSE a.frame,
              wait |-> IF a.wait = Null THEN DefaultWait ELSE a.wait]
Uart(a) == [baud |-> a.baud, frame |-> a.frame]

Outcome(d, p, ok) == [dev |-> d, port |-> p, ok |-> ok]

(* The host takes the rate and the frame, and asserts both lines, in one   *)
(* call (SetCommState) and the timeout in a second (SetCommTimeouts).  (A  *)
(* variant with a fault stores the mode and forgets the UART node.)        *)
Framed(p, a) == [p EXCEPT !.baud = a.baud, !.frame = a.frame, !.lines = {"RTS", "DTR"}]
Timed(p, a) == [Framed(p, a) EXCEPT !.wait = a.wait]
ModeOnly(d, a) == [d EXCEPT !.mode = a, !.fresh = FALSE, !.torn = FALSE]
Programmed(d, a) ==
    [d EXCEPT !.mode = a, !.fresh = FALSE, !.torn = FALSE, !.uart = Uart(a),
              !.path = IF d.installed /\ d.uart # Uart(a) THEN Uart(a) ELSE @]

SetAttributes(d, p, asked) ==
    LET a == Filled(asked)
    IN  IF ~Valid(asked) THEN {Outcome(d, p, FALSE)}
        ELSE IF d.uart = Uart(a) /\ d.mode.wait = a.wait THEN {Outcome(d, p, TRUE)}
        ELSE {Outcome(d, p, FALSE), Outcome([d EXCEPT !.torn = TRUE], Framed(p, a), FALSE),
              Outcome(Programmed(d, a), Timed(p, a), TRUE)}
             \cup {Outcome(Programmed(d, a), Timed(p, a), FALSE) :   \* the path is not reinstalled
                     x \in {y \in {d.installed} : y /\ d.uart # Uart(a)}}

(* SetControl refuses a word with a status bit, else sets every flag and   *)
(* line; the flow control node of an installed path follows (in a variant  *)
(* with a fault, only when flow control is switched on).                   *)
NodeOf(c) == IF "HFC" \in c THEN "hardware" ELSE "none"
PublishedOn(d, c) == [d EXCEPT !.flow = IF d.installed /\ @ # Null /\ "HFC" \in c THEN NodeOf(c) ELSE @]
Published(d, c) == [d EXCEPT !.flow = IF d.installed /\ @ # Null THEN NodeOf(c) ELSE @]
Flagged(d, c, half) == [d EXCEPT !.flags = c \cap Flags, !.half = half]

SetControl(d, p, c) ==
    IF ~(c \subseteq Settable) THEN {Outcome(d, p, FALSE)}
    ELSE {Outcome(d, p, FALSE), Outcome(Flagged(d, c, TRUE), p, FALSE)}
         \cup {Outcome(Published(Flagged(d, c, FALSE), c), [p EXCEPT !.lines = c \ Flags], ok) :
                 ok \in {TRUE, Published(d, c) = d}}

(* GetControl: Null when the host fails, and the caller's word stays.      *)
GetControl(d, p) ==
    {Null} \cup {d.flags \cup p.lines \cup s : s \in SUBSET (StatusBits \cup {"EMPTY"})}

(* Write and Read switch a line on and off around the host's call, with    *)
(* hardware flow control, and look at neither function's status.           *)
Switched(s, bit, on) ==
    LET read == (GetControl(s.dev, s.port) \ {Null}) \cup {s.word}
        words == {IF on THEN w \cup {bit} ELSE w \ {bit} : w \in read}
    IN  IF "HFC" \in s.dev.flags
        THEN UNION {{[dev |-> o.dev, port |-> o.port, word |-> w] :
                        o \in SetControl(s.dev, s.port, w)} : w \in words}
        ELSE {s}
OnAndOff(bit) ==
    UNION {Switched(s, bit, FALSE) :
        s \in UNION {Switched([dev |-> dev, port |-> port, word |-> w], bit, TRUE) : w \in Leftover}}

----------------------------------------------------------------------------
(* The driver binding.  Start with the end of a path creates no child, and *)
(* without a path one with default settings.  Once started, Start with a   *)
(* path sets up the child there is: "getControl" and "setControl".         *)
NoPath == [baud |-> 0, frame |-> Null, flow |-> Null]
Paths == [baud : BaudAsked, frame : FrameAsked, flow : FlowAsked]

(* Supported, which the core asks before Start: a path names its frame,    *)
(* and a flow control node exactly if the child's path has one.            *)
BindingSupported(path) ==
    /\ path.baud <= SERIAL_PORT_MAX_BAUD_RATE /\ path.frame # Null
    /\ dev # Null => (path.flow # Null) = (dev.flow # Null)

NewDev(path) ==
    [installed |-> FALSE, uart |-> Uart(path), path |-> Uart(path), flow |-> path.flow,
     mode |-> [baud |-> path.baud, frame |-> path.frame, wait |-> DefaultWait],
     flags |-> IF path.flow = "hardware" THEN {"HFC"} ELSE {}, fifo |-> EmptyFifo,
     fresh |-> TRUE, torn |-> FALSE, half |-> FALSE]

Closed(p) == [p EXCEPT !.open = FALSE]
Exclusive(p) == ~p.open   \* CreateFile asks for a share mode of 0

(* The way out of a Start that fails; a variant with a fault forgets the   *)
(* handle of the port.                                                     *)
AbandonedOpen(p) == port' = p /\ UNCHANGED <<opened, dev, leaked>>
Abandoned(p) == port' = Closed(p) /\ UNCHANGED <<opened, dev, leaked>>

StartEnd == ~opened /\ opened' = TRUE /\ UNCHANGED <<dev, port, leaked>>

StartNoMemory ==
    /\ ~opened /\ Exclusive(port)
    /\ port' = [port EXCEPT !.open = TRUE] /\ leaked' = TRUE
    /\ UNCHANGED <<opened, dev>>

StartChild(path) ==
    /\ ~opened /\ Exclusive(port)
    /\ LET p == [port EXCEPT !.open = TRUE]
       IN  \/ Abandoned(p)
           \/ \E o \in SetAttributes(NewDev(path), p, NewDev(path).mode) :
                \/ Abandoned(o.port)
                \/ /\ o.ok
                   /\ opened' = TRUE /\ port' = o.port
                   /\ dev' = [o.dev EXCEPT !.installed = TRUE]
                   /\ UNCHANGED leaked

Start ==
    /\ Uninterrupted /\ call = Idle
    /\ \/ StartEnd
       \/ StartNoMemory
       \/ \E path \in Paths \cup {NoPath} :
            (path = NoPath \/ BindingSupported(path)) /\ StartChild(path)
    /\ UNCHANGED <<call, transfer, heard>>

Restart(path) ==
    /\ Uninterrupted /\ call = Idle /\ opened /\ dev # Null /\ BindingSupported(path)
    /\ \E o \in SetAttributes(dev, port, [baud |-> path.baud, frame |-> path.frame,
                                          wait |-> dev.mode.wait]) :
         /\ dev' = o.dev /\ port' = o.port
         /\ call' = IF o.ok /\ path.flow # Null
                    THEN [at |-> "getControl", flow |-> path.flow] ELSE Idle
    /\ UNCHANGED <<opened, transfer, heard, leaked>>

RestartGet ==
    /\ Uninterrupted /\ call.at = "getControl"
    /\ \E c \in GetControl(dev, port) :
         call' = IF c = Null THEN Idle
                 ELSE [at |-> "setControl",
                       word |-> ((c \ {"HFC"}) \cup (IF call.flow = "hardware" THEN {"HFC"} ELSE {}))
                                \cap Settable]
    /\ UNCHANGED <<opened, dev, port, transfer, heard, leaked>>

RestartSet ==
    /\ Uninterrupted /\ call.at = "setControl"
    /\ \E o \in SetControl(dev, port, call.word) : dev' = o.dev /\ port' = o.port
    /\ call' = Idle
    /\ UNCHANGED <<opened, transfer, heard, leaked>>

(* Stop with the child, and with none once the child is gone.  A child     *)
(* that cannot be uninstalled stays as it was.                             *)
Stop ==
    /\ Uninterrupted /\ call = Idle /\ opened
    /\ IF dev # Null
       THEN dev' = Null /\ port' = Closed(port) /\ UNCHANGED opened
       ELSE opened' = FALSE /\ UNCHANGED <<dev, port>>
    /\ UNCHANGED <<call, transfer, heard, leaked>>

----------------------------------------------------------------------------
(* The Serial I/O protocol, called by main or by a notification.           *)
Serves == Uninterrupted /\ dev # Null

CallSetAttributes(a) ==
    /\ Serves
    /\ \E o \in SetAttributes(dev, port, a) : dev' = o.dev /\ port' = o.port
    /\ UNCHANGED <<opened, call, transfer, heard, leaked>>

CallSetControl(c) ==
    /\ Serves
    /\ \E o \in SetControl(dev, port, c) : dev' = o.dev /\ port' = o.port
    /\ UNCHANGED <<opened, call, transfer, heard, leaked>>

(* Reset purges the port at TPL_NOTIFY, reads the mode, a field at a time, *)
(* and calls SetAttributes with what it read.                              *)
Reset ==
    /\ Serves /\ call = Idle /\ call' = [at |-> "purged"]
    /\ UNCHANGED <<opened, dev, port, transfer, heard, leaked>>
ResetReadBaud ==
    /\ Uninterrupted /\ call.at = "purged"
    /\ call' = [at |-> "baud", baud |-> dev.mode.baud]
    /\ UNCHANGED <<opened, dev, port, transfer, heard, leaked>>
ResetReadRest ==
    /\ Uninterrupted /\ call.at = "baud"
    /\ call' = [at |-> "reset", asked |-> [dev.mode EXCEPT !.baud = call.baud]]
    /\ UNCHANGED <<opened, dev, port, transfer, heard, leaked>>
ResetSet ==
    /\ Uninterrupted /\ call.at = "reset"
    /\ \E o \in SetAttributes(dev, port, call.asked) : dev' = o.dev /\ port' = o.port
    /\ call' = Idle
    /\ UNCHANGED <<opened, transfer, heard, leaked>>

(* Write and Read decide once whether the line loops.                      *)
Loops == dev.flags \cap {"HLB", "SLB"} # {}

Write(buffer) ==
    /\ Serves
    /\ transfer' = IF Loops THEN [op |-> "loopWrite", rest |-> buffer]
                   ELSE [op |-> "write", left |-> Len(buffer)]
    /\ UNCHANGED <<opened, dev, port, call, heard, leaked>>

LoopWrite ==
    /\ transfer # Null /\ transfer.op = "loopWrite"
    /\ IF transfer.rest = <<>> \/ IsaSerialFifoFull(dev.fifo)
       THEN transfer' = Null /\ UNCHANGED dev
       ELSE /\ dev' = [dev EXCEPT !.fifo = IsaSerialFifoAdd(@, Head(transfer.rest))]
            /\ transfer' = [transfer EXCEPT !.rest = Tail(@)]
    /\ UNCHANGED <<opened, port, call, heard, leaked>>

(* One turn of the loop: the host accepts some bytes or fails.             *)
WriteSome ==
    /\ transfer # Null /\ transfer.op = "write"
    /\ \E s \in OnAndOff("RTS") : dev' = s.dev /\ port' = s.port
    /\ \/ \E n \in 0 .. transfer.left :
            transfer' = IF n = transfer.left THEN Null ELSE [transfer EXCEPT !.left = @ - n]
       \/ transfer' = Null
    /\ UNCHANGED <<opened, call, heard, leaked>>

Read(size) ==
    /\ Serves
    /\ IF Loops
       THEN transfer' = [op |-> "loopRead", left |-> size] /\ UNCHANGED <<dev, port>>
       ELSE \E s \in OnAndOff("DTR") : dev' = s.dev /\ port' = s.port /\ UNCHANGED transfer
    /\ UNCHANGED <<opened, call, heard, leaked>>

LoopRead ==
    /\ transfer # Null /\ transfer.op = "loopRead"
    /\ IF transfer.left = 0 \/ IsaSerialFifoEmpty(dev.fifo)
       THEN transfer' = Null /\ UNCHANGED <<dev, heard>>
       ELSE /\ heard' = dev.fifo.Data[dev.fifo.First]
            /\ dev' = [dev EXCEPT !.fifo = IsaSerialFifoRemove(@)]
            /\ transfer' = [transfer EXCEPT !.left = @ - 1]
    /\ UNCHANGED <<opened, port, call, leaked>>

Binding == \/ Start \/ Stop \/ RestartGet \/ RestartSet
           \/ \E path \in Paths : Restart(path)
Calls ==
    \/ \E a \in [baud : BaudAsked, frame : FrameAsked, wait : WaitAsked] : CallSetAttributes(a)
    \/ \E c \in ControlAsked : CallSetControl(c)
    \/ Reset \/ ResetReadBaud \/ ResetReadRest \/ ResetSet
Transfers ==
    \/ \E b \in Buffers : Write(b) \/ Read(Len(b))
    \/ LoopWrite \/ LoopRead \/ WriteSome

Next == Binding \/ Calls \/ Transfers
Spec == Init /\ [][Next]_vars

----------------------------------------------------------------------------
(* Types; and the three indices of the FIFO always tell the same story.    *)
Consistent(f) ==
    f.Last = (f.First + SERIAL_MAX_BUFFER_SIZE - f.Surplus) % SERIAL_MAX_BUFFER_SIZE
Ports == [open : BOOLEAN, baud : Nat, frame : Frames, wait : Waits, lines : SUBSET Settable]
TypeOK ==
    /\ opened \in BOOLEAN /\ leaked \in BOOLEAN /\ heard \in Byte
    /\ port \in Ports
    /\ dev # Null => dev \in Devices /\ Consistent(dev.fifo)

(* The copies of the settings agree whenever no call is inside: the mode   *)
(* has the UART node's rate and frame; the installed path names them, or   *)
(* names defaults that they are; and the port has the mode's, unless Start *)
(* found nothing to set or SetCommTimeouts failed after SetCommState had   *)
(* succeeded (SetAttributes).                                              *)
SettingsAgree ==
    dev # Null =>
        /\ Uart(dev.mode) = dev.uart
        /\ Uart(Filled([baud |-> dev.path.baud, frame |-> dev.path.frame, wait |-> Null])) = dev.uart
        /\ ~dev.fresh /\ ~dev.torn => Uart(port) = dev.uart /\ port.wait = dev.mode.wait

(* The port is open exactly while there is a child, which needs the        *)
(* controller's protocols: Start leaves no half of it behind, whichever    *)
(* step fails, but for the handle it forgets when it has no memory for the *)
(* private data.                                                           *)
PortIsOwned ==
    /\ dev # Null => opened /\ port.open /\ dev.installed
    /\ port.open => dev # Null \/ leaked

(* The flow control node of the installed path says whether the driver     *)
(* uses flow control, except after the host failed in the middle of        *)
(* SetControl.                                                             *)
FlowIsPublished ==
    dev # Null /\ dev.flow # Null /\ ~dev.half => (dev.flow = "hardware" <=> "HFC" \in dev.flags)

(* What loops back is a FIFO, through any number of turns of the ring.     *)
Loopback == INSTANCE ByteFifo WITH
    Cap <- SERIAL_MAX_BUFFER_SIZE, line <- IF dev = Null THEN <<>> ELSE Contents(dev.fifo)
LoopbackIsFifo == Loopback!Spec

(* What the code's comments say and the code does not do: a port is        *)
(* programmed before it is used (Start), and request to send is off after  *)
(* a Write with hardware flow control (Write).                             *)
PortIsInitialized == dev # Null => ~dev.fresh
RtsFollowsWrite ==
    [][transfer # Null /\ transfer.op = "write" /\ transfer' = Null
         /\ "HFC" \in dev.flags /\ dev' = dev => "RTS" \notin port'.lines]_vars
=============================================================================
