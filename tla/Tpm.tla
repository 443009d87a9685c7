--------------------------------- MODULE Tpm ---------------------------------
(***************************************************************************)
(* Feature/Tpm2/Tpm2Simulator: the commands of the firmware to the TPM     *)
(* simulator, a process of its own that outlives it, over two sockets.  A  *)
(* socket is a stream: an answer arrives in pieces of any size, and where  *)
(* it ends is only known from the length in front of it.                   *)
(***************************************************************************)
EXTENDS FvbInit

CONSTANTS
    Commands,       \* the commands of the firmware, beside "Shutdown"
    AnswerLength,   \* of each command
    Buffers,        \* the sizes of the buffers that callers bring
    MaxCommands     \* bound: the commands of a life

Signals == {"PowerOn", "NvOn", "NvOff", "PowerOff"}   \* on the platform socket
Ports == {"command", "platform"}

ASSUME TpmAssumption ==
    /\ Commands \cap Signals = {} /\ Buffers \subseteq Nat
    /\ \A command \in Commands \cup {"Shutdown"} : AnswerLength[command] \in Nat

VARIABLES
    sim,        \* the simulator: powered, with its storage on, shut down
    stream,     \* what it has answered on each socket and is not read yet
    mTpmCommandSocket,   \* TRUE while both sockets are known
    exchange,   \* the command under way
    commands,   \* how many there were in this life
    inStep      \* whether every answer was read to its end

tpmVars == <<sim, stream, mTpmCommandSocket, exchange, commands, inStep>>

PortOf(command) == IF command \in Signals THEN "platform" ELSE "command"

NoExchange == [command |-> Null, at |-> "none", toSend |-> 0, max |-> 0,
               length |-> 0, read |-> <<>>]

(* An answer on the command socket is its length, the answer itself, and a *)
(* word of status; on the platform socket it is the status alone.          *)
Word(word, command) == [word |-> word, of |-> command]
Data(command) ==
    IF command \in Signals THEN <<>> ELSE [i \in 1 .. AnswerLength[command] |-> Word("data", command)]
Answer(command) ==
    (IF command \in Signals THEN <<>> ELSE <<Word("length", command)>>)
      \o Data(command) \o <<Word("status", command)>>

(* SendTpmCommand writes command, locality and data, SendTpmPlatformData   *)
(* the signal alone.                                                       *)
Start(command, max) ==
    exchange' = [NoExchange EXCEPT !.command = command, !.at = "send", !.max = max,
                                   !.toSend = IF command \in Signals THEN 1 ELSE 3]

(* The simulator answers what it has received in full.                     *)
Simulate(command) ==
    /\ sim' = CASE command = "PowerOn" -> [sim EXCEPT !.power = TRUE]
                [] command = "NvOn" -> [sim EXCEPT !.nv = TRUE]
                [] command = "NvOff" -> [sim EXCEPT !.nv = FALSE]
                [] command = "PowerOff" -> [sim EXCEPT !.power = FALSE]
                [] OTHER -> [sim EXCEPT !.shut = command = "Shutdown"]
    /\ stream' = [stream EXCEPT ![PortOf(command)] = @ \o Answer(command)]

(* send takes as much as it likes; the loop ends when all is sent.         *)
WriteBytes ==
    /\ exchange.at = "send"
    /\ \E n \in 1 .. exchange.toSend :
         IF n < exchange.toSend
           THEN exchange' = [exchange EXCEPT !.toSend = @ - n] /\ UNCHANGED <<sim, stream>>
           ELSE /\ exchange' = [exchange EXCEPT !.toSend = 0,
                                  !.at = IF exchange.command \in Signals THEN "status"
                                         ELSE "length"]
                /\ Simulate(exchange.command)
    /\ UNCHANGED inStep

Inbox == stream[PortOf(exchange.command)]

Take(n) == stream' = [stream EXCEPT ![PortOf(exchange.command)] = SubSeq(@, n + 1, Len(@))]

(* The length decides how much is read, and a longer answer than the       *)
(* buffer is left in the stream.  Out of step the word is anything.        *)
ReadMultipleBytes ==
    /\ exchange.at = "length" /\ Inbox # <<>>
    /\ Take(1)
    /\ \E length \in IF Inbox[1].word = "length" THEN {AnswerLength[Inbox[1].of]}
                     ELSE Buffers :
         IF length > exchange.max
           THEN exchange' = [exchange EXCEPT !.at = "failed"] /\ inStep' = FALSE
           ELSE /\ exchange' = [exchange EXCEPT !.length = length,
                                  !.at = IF length = 0 THEN "status" ELSE "data"]
                /\ UNCHANGED inStep
    /\ UNCHANGED sim

(* recv gives what has arrived, at least a byte; the loop ends when all    *)
(* that was asked for is read.  A variant with a fault asks only once.     *)
Missing == exchange.length - Len(exchange.read)

IsReadOnce(n) == TRUE
IsRead(n) == n = Missing

ReadBytes ==
    /\ exchange.at = "data" /\ Inbox # <<>>
    /\ \E n \in 1 .. IF Missing < Len(Inbox) THEN Missing ELSE Len(Inbox) :
         /\ Take(n)
         /\ exchange' = [exchange EXCEPT !.read = @ \o SubSeq(Inbox, 1, n),
                           !.at = IF IsRead(n) THEN "status" ELSE "data"]
    /\ UNCHANGED <<sim, inStep>>

ReadData32 ==
    /\ exchange.at = "status" /\ Inbox # <<>>
    /\ Take(1)
    /\ exchange' = [exchange EXCEPT !.at = "done"]
    /\ UNCHANGED <<sim, inStep>>

(* A call of the host fails, and the rest of the answer is not read.       *)
SocketError ==
    /\ exchange.at \in {"send", "length", "data", "status"}
    /\ exchange' = [exchange EXCEPT !.at = "failed"]
    /\ inStep' = FALSE
    /\ UNCHANGED <<sim, stream>>

Communicate == WriteBytes \/ ReadMultipleBytes \/ ReadBytes \/ ReadData32 \/ SocketError

IsOver == exchange.at \in {"done", "failed"}

(* What the firmware sends after what, when it connects and when it goes.  *)
(* A variant with a fault cuts the power before the storage.               *)
FollowedBySwap(command) ==
    CASE command = "PowerOn" -> "NvOn"
      [] command = "Shutdown" -> "PowerOff"
      [] command = "PowerOff" -> "NvOff"
FollowedBy(command) ==
    CASE command = "PowerOn" -> "NvOn"
      [] command = "Shutdown" -> "NvOff"
      [] command = "NvOff" -> "PowerOff"

(* CreateTpmSocket connects both sockets and turns the simulator on; on    *)
(* any failure the sockets are forgotten.                                  *)
CreateTpmSocket ==
    /\ phase = "power"
    /\ \/ /\ exchange = NoExchange
          /\ Start("PowerOn", 0) /\ stream' = [p \in Ports |-> <<>>] /\ inStep' = TRUE
          /\ commands' = 0
          /\ UNCHANGED <<phase, sim, mTpmCommandSocket>>
       \/ /\ exchange.at = "done" /\ exchange.command = "PowerOn"
          /\ Start(FollowedBy("PowerOn"), 0)
          /\ UNCHANGED <<phase, sim, stream, mTpmCommandSocket, commands, inStep>>
       \/ /\ IsOver /\ (exchange.command = "NvOn" \/ exchange.at = "failed")
          /\ mTpmCommandSocket' = (exchange.at = "done")
          /\ exchange' = NoExchange /\ phase' = "before"
          /\ UNCHANGED <<sim, stream, commands, inStep>>
    /\ UNCHANGED <<lives, gFdInfo, PeiCoreFile, gSystemMemory, memory, files>>
    /\ UNCHANGED peiVars /\ UNCHANGED fvbVars

(* The image that connects leaves the sockets in a HOB for all the others. *)
GetTpmCommandSocket == mTpmCommandSocket

(* A command of the firmware, with a buffer of its own.                    *)
Tpm2SubmitCommand ==
    /\ phase = "booted"
    /\ \/ /\ exchange = NoExchange /\ GetTpmCommandSocket /\ commands < MaxCommands
          /\ \E command \in Commands, max \in Buffers : Start(command, max)
          /\ commands' = commands + 1
       \/ /\ IsOver /\ exchange' = NoExchange /\ UNCHANGED commands
    /\ UNCHANGED <<sim, stream, mTpmCommandSocket, inStep>>
    /\ UNCHANGED secVars /\ UNCHANGED peiVars /\ UNCHANGED fvbVars

(* Tpm2Shutdown, then Tpm2SimulatorShutdown with DestroyTpmSocket: what    *)
(* fails is not looked at.                                                 *)
TpmShutdown ==
    /\ exchange = NoExchange /\ GetTpmCommandSocket
    /\ Start("Shutdown", 2)
    /\ UNCHANGED <<sim, stream, mTpmCommandSocket, commands, inStep>>

DestroyTpmSocket ==
    /\ IsOver /\ exchange.command # "PowerOff"
    /\ Start(FollowedBy(exchange.command), 0)
    /\ UNCHANGED <<sim, stream, mTpmCommandSocket, commands, inStep>>
=============================================================================
