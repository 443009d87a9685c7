--------------------------------- MODULE Smm ---------------------------------
(***************************************************************************)
(* Software SMIs in the emulator: SMM_CONTROL2 (WinNtSmmControlDxe) passes *)
(* the command and data port to the processor driver (WinNtSmmCpu), which  *)
(* keeps them in two variables and calls the SMM core; the core calls the  *)
(* child dispatcher (WinNtSmmChildDispatcherSmm), which reads the ports    *)
(* again and looks for the handler registered for the command.             *)
(*                                                                         *)
(* No SMM is entered and no interrupt is masked: an event notification     *)
(* ("event") may activate an SMI in the middle of one of the interrupted   *)
(* code ("main"), and both use the same two variables.  The model starts   *)
(* when the three drivers have.                                            *)
(***************************************************************************)
EXTENDS Naturals, Sequences, SequencesExt, FiniteSetsExt

CONSTANTS
    MaximumSwi,    \* MAXIMUM_SWI_VALUE: no command
    MainCommand,   \* command ports that main passes, Null for none
    EventCommand,  \* command ports that a notification passes
    MainData,      \* data ports that main passes, Null for none
    EventData,     \* data ports that a notification passes
    NoData,        \* the data port before the first SMI
    Record,        \* the memory there is for database records
    Choose,        \* SwSmiInputValue -1: the dispatcher chooses
    Null

ASSUME CommandAssumption ==
    /\ MaximumSwi \in Nat \ {0}
    /\ MainCommand \cup EventCommand \subseteq (0 .. MaximumSwi) \cup {Null}
    /\ {Null, Choose} \cap (0 .. MaximumSwi) = {}
ASSUME DataAssumption == NoData # Null /\ Null \notin Record

VARIABLES
    CommandPort, DataPort,  \* gSmmCpuPrivate
    CallbackDataBase,       \* the registered records, in their order
    call                    \* the Activate calls under way: see Idle
vars == <<CommandPort, DataPort, CallbackDataBase, call>>

Actor == {"main", "event"}

(* Of a call: where it is; the ports passed; the dispatcher's context and  *)
(* its place in the list; the ports handed back.  And, for the properties: *)
(* whether a handler is due, how many have run, and whether a notification *)
(* activated an SMI meanwhile.                                             *)
NoPorts == [command |-> Null, data |-> Null]
Idle == [at |-> "idle", passed |-> NoPorts, context |-> NoPorts, link |-> Null,
         out |-> NoPorts, due |-> FALSE, served |-> 0, disturbed |-> FALSE]

Init ==
    /\ CommandPort = MaximumSwi
    /\ DataPort = NoData
    /\ CallbackDataBase = <<>>
    /\ call = [a \in Actor |-> Idle]

(* A notification runs to its end before main goes on.                     *)
Runs(a) == a = "main" => call["event"] = Idle
At(a, where) == Runs(a) /\ call[a].at = where

----------------------------------------------------------------------------
(* Activate and Trigger: WinNtSmmSetInfo stores the ports one after the    *)
(* other.  A call without a command port is one with no command (a variant *)
(* with a fault leaves the last one), and one without a data port leaves   *)
(* the last one.  A periodic activation is refused.                        *)
SwiRegistered(swi) == \E i \in DOMAIN CallbackDataBase : CallbackDataBase[i].swi = swi

CommandOrLast(c) == IF c = Null THEN CommandPort ELSE c
CommandOrNone(c) == IF c = Null THEN MaximumSwi ELSE c

Activate(a, c, d) ==
    /\ At(a, "idle")
    /\ CommandPort' = CommandOrNone(c)
    /\ call' = [call EXCEPT
         ![a] = [Idle EXCEPT !.at = "setData", !.passed = [command |-> c, data |-> d],
                             !.due = SwiRegistered(c)],
         !["main"].disturbed = a = "event" /\ call["main"].at # "idle"]
    /\ UNCHANGED <<DataPort, CallbackDataBase>>

DataOrNone(d) == IF d = Null THEN NoData ELSE d
DataOrLast(d) == IF d = Null THEN DataPort ELSE d

SetData(a) ==
    /\ At(a, "setData")
    /\ DataPort' = DataOrLast(call[a].passed.data)
    /\ call' = [call EXCEPT ![a].at = "entry"]
    /\ UNCHANGED <<CommandPort, CallbackDataBase>>

(* The core calls the dispatcher, which reads the ports one after the      *)
(* other and leaves if there is no command or nothing registered.          *)
DispatchCommand(a) ==
    /\ At(a, "entry")
    /\ call' = [call EXCEPT ![a].at = "dispatch", ![a].context.command = CommandPort]
    /\ UNCHANGED <<CommandPort, DataPort, CallbackDataBase>>

DispatchData(a) ==
    /\ At(a, "dispatch")
    /\ IF call[a].context.command = MaximumSwi \/ CallbackDataBase = <<>>
         THEN call' = [call EXCEPT ![a].at = "leave", ![a].context.data = DataPort]
         ELSE call' = [call EXCEPT ![a].at = "walk", ![a].context.data = DataPort,
                                   ![a].link = CallbackDataBase[1].id]
    /\ UNCHANGED <<CommandPort, DataPort, CallbackDataBase>>

(* The next record of the list, or Null at its end; two variants with a    *)
(* fault stay where they are, and skip a record.                           *)
Place(link) == CHOOSE i \in DOMAIN CallbackDataBase : CallbackDataBase[i].id = link
NodeAt(i) == IF i \in DOMAIN CallbackDataBase THEN CallbackDataBase[i].id ELSE Null
SameNode(link) == link
NodeAfterNext(link) == NodeAt(Place(link) + 2)
GetNextNode(link) == NodeAt(Place(link) + 1)

(* The first record with the command as its value is the one: its handler  *)
(* is called, and then the dispatcher returns.  It reads nothing of the    *)
(* list after that, for the handler may have changed it; a variant with a  *)
(* fault goes on with the next record.                                     *)
Walk(a) ==
    /\ At(a, "walk")
    /\ LET record == CallbackDataBase[Place(call[a].link)]
           next == GetNextNode(call[a].link) IN
       IF record.swi = call[a].context.command
         THEN call' = [call EXCEPT ![a].at = "handler", ![a].served = @ + 1]
         ELSE call' = [call EXCEPT ![a].at = IF next = Null THEN "leave" ELSE "walk",
                                   ![a].link = next]
    /\ UNCHANGED <<CommandPort, DataPort, CallbackDataBase>>

HandlerReturnsToWalk(a) ==
    /\ At(a, "handler")
    /\ call' = [call EXCEPT ![a].at = "walk"]
    /\ UNCHANGED <<CommandPort, DataPort, CallbackDataBase>>
HandlerReturns(a) ==
    /\ At(a, "handler")
    /\ call' = [call EXCEPT ![a].at = "leave", ![a].link = Null]
    /\ UNCHANGED <<CommandPort, DataPort, CallbackDataBase>>

(* WinNtSmmGetInfo, into the variables of the caller that has some.        *)
GetCommand(a) ==
    /\ At(a, "leave")
    /\ call' = [call EXCEPT ![a].at = "getData",
         ![a].out.command = IF call[a].passed.command = Null THEN Null ELSE CommandPort]
    /\ UNCHANGED <<CommandPort, DataPort, CallbackDataBase>>

GetData(a) ==
    /\ At(a, "getData")
    /\ call' = [call EXCEPT ![a].at = "done",
         ![a].out.data = IF call[a].passed.data = Null THEN Null ELSE DataPort]
    /\ UNCHANGED <<CommandPort, DataPort, CallbackDataBase>>

Return(a) ==
    /\ At(a, "done")
    /\ call' = [call EXCEPT ![a] = Idle]
    /\ UNCHANGED <<CommandPort, DataPort, CallbackDataBase>>

----------------------------------------------------------------------------
(* Drivers register and unregister handlers when they start, and in the    *)
(* handlers themselves.  Only the dispatcher of a call with a command      *)
(* reads the list, so that nothing comes between the steps of the two.     *)
Drivers(a) == At(a, "handler") \/ (a = "main" /\ At(a, "idle"))

(* SmiInputValueDuplicateCheck goes through the whole list; a variant      *)
(* with a fault only sees the first record.                                *)
DuplicateOfFirst(swi) == CallbackDataBase # <<>> /\ Head(CallbackDataBase).swi = swi
Duplicate(swi) == SwiRegistered(swi)

(* The value registered, if any: the one asked for, or the least free one. *)
InRange(swi) == swi <= MaximumSwi
Below(swi) == swi < MaximumSwi
Chosen(swi) ==
    LET free == {i \in 1 .. MaximumSwi - 1 : ~Duplicate(i)} IN
    IF swi # Choose THEN {swi} ELSE IF free = {} THEN {} ELSE {Min(free)}

(* Without a value, with a value out of range or taken, or without memory, *)
(* the call is refused and changes nothing.                                *)
Register(a, asked) ==
    /\ Drivers(a)
    /\ \E swi \in Chosen(asked), r \in Record :
         /\ Below(swi) /\ ~Duplicate(swi)
         /\ \A i \in DOMAIN CallbackDataBase : CallbackDataBase[i].id # r
         /\ CallbackDataBase' = Append(CallbackDataBase, [id |-> r, swi |-> swi])
    /\ UNCHANGED <<CommandPort, DataPort, call>>

(* Whoever holds the handle of a record unregisters it, once.              *)
UnRegister(a) ==
    /\ Drivers(a)
    /\ \E i \in DOMAIN CallbackDataBase :
         CallbackDataBase' = RemoveAt(CallbackDataBase, i)
    /\ UNCHANGED <<CommandPort, DataPort, call>>

----------------------------------------------------------------------------
Step(a) ==
    \/ SetData(a) \/ DispatchCommand(a) \/ DispatchData(a) \/ Walk(a)
    \/ HandlerReturns(a) \/ GetCommand(a) \/ GetData(a) \/ Return(a)

Next ==
    \/ \E c \in MainCommand, d \in MainData : Activate("main", c, d)
    \/ \E c \in EventCommand, d \in EventData : Activate("event", c, d)
    \/ \E a \in Actor :
         \/ Step(a)
         \/ UnRegister(a)
         \/ \E asked \in (0 .. MaximumSwi) \cup {Choose} : Register(a, asked)

(* Handlers return.  A notification runs to its end, and the interrupted   *)
(* code goes on between two of them.                                       *)
Spec ==
    /\ Init /\ [][Next]_vars
    /\ WF_vars(Step("event")) /\ SF_vars(Step("main"))

----------------------------------------------------------------------------
Registered == {CallbackDataBase[i].id : i \in DOMAIN CallbackDataBase}

(* The types; the value of a record is one that a command port may hold.   *)
TypeOK ==
    /\ CommandPort \in 0 .. MaximumSwi
    /\ DataPort \in ((MainData \cup EventData) \ {Null}) \cup {NoData}
    /\ \A i \in DOMAIN CallbackDataBase :
         CallbackDataBase[i] \in [id : Record, swi : 0 .. MaximumSwi - 1]
    /\ \A a \in Actor : call[a].link \in Record \cup {Null}

(* No two handlers have the same value, chosen or asked for, in whatever   *)
(* order handlers come and go.                                             *)
SwiIsUnique == IsInjective([i \in DOMAIN CallbackDataBase |-> CallbackDataBase[i].swi])

(* The dispatcher only ever stands on a record that is registered, even    *)
(* when a handler unregisters itself or others.                            *)
WalkIsLive == \A a \in Actor : call[a].at = "walk" => call[a].link \in Registered

(* A handler runs for the call that has its value: its context holds the   *)
(* ports which that call passed, though another call may have come between *)
(* them and the dispatcher.                                                *)
HandlerSeesItsCall ==
    \A a \in Actor :
      call[a].at = "handler" =>
        /\ call[a].context.command = call[a].passed.command
        /\ call[a].passed.data \in {Null, call[a].context.data}

(* Unless a notification came between, a call whose command is registered  *)
(* runs exactly one handler, and another call runs none.                   *)
Left(a) == call[a].at \in {"leave", "getData", "done"}
ServedUnlessDisturbed ==
    \A a \in Actor :
      Left(a) /\ ~call[a].disturbed =>
        call[a].served = IF call[a].due THEN 1 ELSE 0

(* The data port of a call comes back as it was passed, and the command    *)
(* port too or as that of no command.                                      *)
PortsComeBack ==
    \A a \in Actor :
      call[a].at = "done" =>
        /\ call[a].out.data = call[a].passed.data
        /\ call[a].out.command \in {call[a].passed.command, MaximumSwi}

(* Every call returns.                                                     *)
CallsReturn == \A a \in Actor : call[a].at # "idle" ~> call[a].at = "idle"

(* Generates an SMI using the parameters passed in (SmmControlDriver.c:61) *)
(* -- a call whose command is registered runs its handler -- does not hold *)
(* when a notification activates an SMI without a command in between.      *)
EverySmiIsServed ==
    \A a \in Actor : Left(a) /\ call[a].due => call[a].served = 1
=============================================================================
