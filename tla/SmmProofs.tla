------------------------------ MODULE SmmProofs ------------------------------
(***************************************************************************)
(* What Smm keeps for every number of commands, records and drivers.       *)
(***************************************************************************)
EXTENDS Smm, SequenceTheorems, WellFoundedInduction, TLAPS

Places == {"idle", "setData", "entry", "dispatch", "walk", "handler", "leave",
           "getData", "done"}
Commands == (0 .. MaximumSwi) \cup {Null}
Data == MainData \cup EventData \cup {NoData, Null}
Ports == [command : Commands, data : Data]
Calls == [at : Places, passed : Ports, context : Ports, link : Record \cup {Null},
          out : Ports, due : BOOLEAN, served : Nat, disturbed : BOOLEAN]
Node == [id : Record, swi : 0 .. MaximumSwi - 1]

(* The types of the variables, and of what a call keeps.                   *)
TypeInv ==
    /\ CommandPort \in 0 .. MaximumSwi
    /\ DataPort \in Data \ {Null}
    /\ CallbackDataBase \in Seq(Node)
    /\ call \in [Actor -> Calls]

(* A nonempty set of numbers has a least one, which Min chooses.           *)
LEMMA MinIsMember == ASSUME NEW S \in SUBSET Nat, S # {} PROVE Min(S) \in S
<1>1. \E m \in S : \A n \in S : <<n, m>> \notin OpToRel(<, Nat)
  BY NatLessThanWellFounded, WFMin
<1>2. \E m \in S : \A n \in S : m <= n
  <2>1. PICK m \in S : \A n \in S : <<n, m>> \notin OpToRel(<, Nat)
    BY <1>1
  <2>2. ASSUME NEW n \in S PROVE m <= n
    <3>1. ~(n < m)
      BY <2>1 DEF OpToRel
    <3> QED BY <3>1
  <2> QED BY <2>2
<1> QED
  BY <1>2 DEF Min

(* What is left of a sequence without one of its elements.                 *)
LEMMA RemoveAtProperties ==
    ASSUME NEW S, NEW s \in Seq(S), NEW i \in 1 .. Len(s)
    PROVE  /\ RemoveAt(s, i) \in Seq(S)
           /\ Len(RemoveAt(s, i)) = Len(s) - 1
           /\ \A j \in 1 .. Len(s) - 1 :
                RemoveAt(s, i)[j] = s[IF j < i THEN j ELSE j + 1]
<1> DEFINE left == SubSeq(s, 1, i - 1)
           right == SubSeq(s, i + 1, Len(s))
<1>1. /\ left \in Seq(S) /\ Len(left) = i - 1
      /\ \A j \in 1 .. i - 1 : left[j] = s[j]
  BY SubSeqProperties
<1>2. /\ right \in Seq(S) /\ Len(right) = Len(s) - i
      /\ \A j \in 1 .. Len(s) - i : right[j] = s[i + j]
  BY SubSeqProperties
<1>3. RemoveAt(s, i) = left \o right
  BY DEF RemoveAt
<1> HIDE DEF left, right
<1>4. /\ left \o right \in Seq(S)
      /\ Len(left \o right) = Len(left) + Len(right)
      /\ \A j \in 1 .. Len(left) + Len(right) :
           (left \o right)[j] = IF j <= Len(left) THEN left[j] ELSE right[j - Len(left)]
  BY <1>1, <1>2, ConcatProperties
<1>5. ASSUME NEW j \in 1 .. Len(s) - 1
      PROVE  (left \o right)[j] = s[IF j < i THEN j ELSE j + 1]
  <2>1. CASE j < i
    BY <1>1, <1>2, <1>4, <2>1
  <2>2. CASE ~(j < i)
    <3>1. j - (i - 1) \in 1 .. Len(s) - i
      BY <2>2
    <3>2. right[j - (i - 1)] = s[i + (j - (i - 1))]
      BY <1>2, <3>1
    <3>3. i + (j - (i - 1)) = j + 1
      OBVIOUS
    <3>4. (left \o right)[j] = right[j - (i - 1)]
      BY <1>1, <1>2, <1>4, <2>2
    <3> QED BY <2>2, <3>2, <3>3, <3>4
  <2> QED BY <2>1, <2>2
<1> QED
  BY <1>1, <1>2, <1>3, <1>4, <1>5

(* A port, and a call, with one of its fields replaced.                    *)
LEMMA PortSet ==
    ASSUME NEW p \in Ports
    PROVE  /\ \A c \in Commands : [p EXCEPT !.command = c] \in Ports
           /\ \A d \in Data : [p EXCEPT !.data = d] \in Ports
BY DEF Ports

LEMMA CallSet ==
    ASSUME NEW c \in Calls
    PROVE  /\ c.context \in Ports /\ c.out \in Ports /\ c.passed \in Ports
           /\ \A p \in Places : [c EXCEPT !.at = p] \in Calls
           /\ \A p \in Ports : [c EXCEPT !.context = p] \in Calls
           /\ \A p \in Ports : [c EXCEPT !.out = p] \in Calls
           /\ \A n \in Record \cup {Null} : [c EXCEPT !.link = n] \in Calls
           /\ [c EXCEPT !.served = c.served + 1] \in Calls
BY DEF Calls

(* A call goes to another place, follows the list, or reads or returns one *)
(* of the ports.                                                           *)
LEMMA Moved ==
    ASSUME NEW calls \in [Actor -> Calls], NEW a \in Actor, NEW p \in Places
    PROVE  [calls EXCEPT ![a].at = p] \in [Actor -> Calls]
<1>1. [calls[a] EXCEPT !.at = p] \in Calls
  BY CallSet
<1> QED BY <1>1, Zenon

LEMMA Followed ==
    ASSUME NEW calls \in [Actor -> Calls], NEW a \in Actor,
           NEW n \in Record \cup {Null}
    PROVE  [calls EXCEPT ![a].link = n] \in [Actor -> Calls]
<1>1. [calls[a] EXCEPT !.link = n] \in Calls
  BY CallSet
<1> QED BY <1>1, Zenon

LEMMA Served ==
    ASSUME NEW calls \in [Actor -> Calls], NEW a \in Actor
    PROVE  [calls EXCEPT ![a].served = @ + 1] \in [Actor -> Calls]
<1>1. [calls[a] EXCEPT !.served = calls[a].served + 1] \in Calls
  BY CallSet
<1> QED BY <1>1, Zenon

LEMMA PortRead ==
    ASSUME NEW calls \in [Actor -> Calls], NEW a \in Actor, NEW c \in Commands,
           NEW d \in Data
    PROVE  /\ [calls EXCEPT ![a].context.command = c] \in [Actor -> Calls]
           /\ [calls EXCEPT ![a].context.data = d] \in [Actor -> Calls]
<1>1. /\ [calls[a].context EXCEPT !.command = c] \in Ports
      /\ [calls[a].context EXCEPT !.data = d] \in Ports
  BY CallSet, PortSet
<1>2. [calls[a] EXCEPT !.context = [calls[a].context EXCEPT !.command = c]] \in Calls
  BY <1>1, CallSet
<1>3. [calls[a] EXCEPT !.context = [calls[a].context EXCEPT !.data = d]] \in Calls
  BY <1>1, CallSet
<1>4. [calls EXCEPT ![a].context.command = c] \in [Actor -> Calls]
  BY <1>2, Zenon
<1>5. [calls EXCEPT ![a].context.data = d] \in [Actor -> Calls]
  BY <1>3, Zenon
<1> QED BY <1>4, <1>5

LEMMA PortReturned ==
    ASSUME NEW calls \in [Actor -> Calls], NEW a \in Actor, NEW c \in Commands,
           NEW d \in Data
    PROVE  /\ [calls EXCEPT ![a].out.command = c] \in [Actor -> Calls]
           /\ [calls EXCEPT ![a].out.data = d] \in [Actor -> Calls]
<1>1. /\ [calls[a].out EXCEPT !.command = c] \in Ports
      /\ [calls[a].out EXCEPT !.data = d] \in Ports
  BY CallSet, PortSet
<1>2. [calls[a] EXCEPT !.out = [calls[a].out EXCEPT !.command = c]] \in Calls
  BY <1>1, CallSet
<1>3. [calls[a] EXCEPT !.out = [calls[a].out EXCEPT !.data = d]] \in Calls
  BY <1>1, CallSet
<1>4. [calls EXCEPT ![a].out.command = c] \in [Actor -> Calls]
  BY <1>2, Zenon
<1>5. [calls EXCEPT ![a].out.data = d] \in [Actor -> Calls]
  BY <1>3, Zenon
<1> QED BY <1>4, <1>5

LEMMA TypeInit == Init => TypeInv
BY CommandAssumption, DataAssumption
   DEF Init, TypeInv, Idle, NoPorts, Calls, Ports, Places, Commands, Data, Actor

(* The dispatcher reads the data port.                                     *)
LEMMA DataRead ==
    ASSUME TypeInv, NEW a \in Actor, NEW p \in Places
    PROVE  [call EXCEPT ![a].at = p, ![a].context.data = DataPort] \in [Actor -> Calls]
<1> DEFINE moved == [call EXCEPT ![a].at = p]
<1>1. moved \in [Actor -> Calls] /\ DataPort \in Data
  BY Moved DEF TypeInv
<1>2. [call EXCEPT ![a].at = p, ![a].context.data = DataPort]
        = [moved EXCEPT ![a].context.data = DataPort]
  OBVIOUS
<1> HIDE DEF moved
<1>3. [moved EXCEPT ![a].context.data = DataPort] \in [Actor -> Calls]
  <2>1. \E c \in Commands : TRUE
    BY DEF Commands
  <2> QED BY <1>1, <2>1, PortRead
<1> QED BY <1>2, <1>3

(* What a step on the call of a does to the calls.                         *)
LEMMA TypeNext == TypeInv /\ [Next]_vars => TypeInv'
<1> SUFFICES ASSUME TypeInv, [Next]_vars PROVE TypeInv'
  OBVIOUS
<1>0. \A i \in DOMAIN CallbackDataBase : CallbackDataBase[i].id \in Record
  <2>1. \A i \in DOMAIN CallbackDataBase : CallbackDataBase[i] \in Node
    BY DEF TypeInv
  <2> QED BY <2>1 DEF Node
<1>1. ASSUME NEW a \in Actor, NEW c \in MainCommand \cup EventCommand,
             NEW d \in MainData \cup EventData, Activate(a, c, d)
      PROVE  TypeInv'
  <2>1. CommandPort' \in 0 .. MaximumSwi
    BY <1>1, CommandAssumption DEF Activate, CommandOrNone, TypeInv
  <2>2. call' \in [Actor -> Calls]
    <3> DEFINE called == [Idle EXCEPT !.at = "setData",
                                      !.passed = [command |-> c, data |-> d],
                                      !.due = SwiRegistered(c)]
               asCalled == [call EXCEPT ![a] = called]
               came == a = "event" /\ call["main"].at # "idle"
    <3>1. SwiRegistered(c) \in BOOLEAN
      BY Zenon DEF SwiRegistered
    <3>2. called \in Calls
      BY <3>1, CommandAssumption DEF Calls, Ports, Places, Commands, Data, Idle, NoPorts
    <3>3. asCalled \in [Actor -> Calls]
      BY <3>2 DEF TypeInv
    <3>4. call' = [asCalled EXCEPT !["main"].disturbed = came]
      BY <1>1 DEF Activate
    <3>5. came \in BOOLEAN
      BY Zenon
    <3> HIDE DEF called, asCalled, came
    <3> QED BY <3>3, <3>4, <3>5 DEF Calls, Actor
  <2> QED BY <1>1, <2>1, <2>2 DEF Activate, TypeInv
<1>2. ASSUME NEW a \in Actor, SetData(a) PROVE TypeInv'
  <2>1. DataPort' \in Data \ {Null}
    BY <1>2 DEF SetData, DataOrLast, TypeInv, Calls, Ports
  <2>2. call' \in [Actor -> Calls]
    BY <1>2, Moved DEF SetData, TypeInv, Places
  <2> QED BY <1>2, <2>1, <2>2 DEF SetData, TypeInv
<1>3. ASSUME NEW a \in Actor, DispatchCommand(a) PROVE TypeInv'
  <2> DEFINE moved == [call EXCEPT ![a].at = "dispatch"]
  <2>1. moved \in [Actor -> Calls]
    BY Moved DEF TypeInv, Places
  <2>2. CommandPort \in Commands
    BY DEF TypeInv, Commands
  <2>3. call' = [moved EXCEPT ![a].context.command = CommandPort]
    BY <1>3 DEF DispatchCommand
  <2> HIDE DEF moved
  <2>4. call' \in [Actor -> Calls]
    BY <2>1, <2>2, <2>3, PortRead DEF Data
  <2> QED BY <1>3, <2>4 DEF DispatchCommand, TypeInv
<1>4. ASSUME NEW a \in Actor, DispatchData(a) PROVE TypeInv'
  <2>1. \A p \in Places :
          [call EXCEPT ![a].at = p, ![a].context.data = DataPort] \in [Actor -> Calls]
    BY DataRead
  <2>2. CASE call' = [call EXCEPT ![a].at = "leave", ![a].context.data = DataPort]
    BY <1>4, <2>1, <2>2 DEF DispatchData, TypeInv, Places
  <2>3. CASE /\ CallbackDataBase # <<>>
             /\ call' = [call EXCEPT ![a].at = "walk", ![a].context.data = DataPort,
                                     ![a].link = CallbackDataBase[1].id]
    <3>1. CallbackDataBase[1].id \in Record
      <4>1. 1 \in DOMAIN CallbackDataBase
        BY <2>3 DEF TypeInv
      <4> QED BY <1>0, <4>1
    <3> DEFINE read == [call EXCEPT ![a].at = "walk", ![a].context.data = DataPort]
    <3>2. read \in [Actor -> Calls]
      BY <2>1 DEF Places
    <3>3. call' = [read EXCEPT ![a].link = CallbackDataBase[1].id]
      BY <2>3
    <3> HIDE DEF read
    <3>4. call' \in [Actor -> Calls]
      BY <3>1, <3>2, <3>3, Followed
    <3> QED BY <1>4, <3>4 DEF DispatchData, TypeInv
  <2> QED BY <1>4, <2>2, <2>3 DEF DispatchData
<1>5. ASSUME NEW a \in Actor, Walk(a) PROVE TypeInv'
  <2>1. GetNextNode(call[a].link) \in Record \cup {Null}
    BY <1>0 DEF GetNextNode, NodeAt
  <2>2. CASE call' = [call EXCEPT ![a].at = "handler", ![a].served = @ + 1]
    <3> DEFINE moved == [call EXCEPT ![a].at = "handler"]
    <3>1. moved \in [Actor -> Calls]
      BY Moved DEF TypeInv, Places
    <3>2. call' = [moved EXCEPT ![a].served = @ + 1]
      BY <2>2
    <3> HIDE DEF moved
    <3>3. call' \in [Actor -> Calls]
      BY <3>1, <3>2, Served
    <3> QED BY <1>5, <3>3 DEF Walk, TypeInv
  <2>3. ASSUME NEW p \in {"leave", "walk"},
               call' = [call EXCEPT ![a].at = p, ![a].link = GetNextNode(call[a].link)]
        PROVE  TypeInv'
    <3> DEFINE moved == [call EXCEPT ![a].at = p]
    <3>1. moved \in [Actor -> Calls]
      BY Moved DEF TypeInv, Places
    <3>2. call' = [moved EXCEPT ![a].link = GetNextNode(call[a].link)]
      BY <2>3
    <3> HIDE DEF moved
    <3>3. call' \in [Actor -> Calls]
      BY <2>1, <3>1, <3>2, Followed
    <3> QED BY <1>5, <3>3 DEF Walk, TypeInv
  <2> QED BY <1>5, <2>2, <2>3 DEF Walk
<1>6. ASSUME NEW a \in Actor, HandlerReturns(a) PROVE TypeInv'
  <2> DEFINE moved == [call EXCEPT ![a].at = "leave"]
  <2>1. moved \in [Actor -> Calls]
    BY Moved DEF TypeInv, Places
  <2>2. call' = [moved EXCEPT ![a].link = Null]
    BY <1>6 DEF HandlerReturns
  <2> HIDE DEF moved
  <2>3. call' \in [Actor -> Calls]
    BY <2>1, <2>2, Followed
  <2> QED BY <1>6, <2>3 DEF HandlerReturns, TypeInv
<1>7. ASSUME NEW a \in Actor, GetCommand(a) PROVE TypeInv'
  <2> DEFINE moved == [call EXCEPT ![a].at = "getData"]
             port == IF call[a].passed.command = Null THEN Null ELSE CommandPort
  <2>1. moved \in [Actor -> Calls]
    BY Moved DEF TypeInv, Places
  <2>2. port \in Commands
    BY DEF TypeInv, Commands
  <2>3. call' = [moved EXCEPT ![a].out.command = port]
    BY <1>7 DEF GetCommand
  <2> HIDE DEF moved, port
  <2>4. call' \in [Actor -> Calls]
    BY <2>1, <2>2, <2>3, PortReturned DEF Data
  <2> QED BY <1>7, <2>4 DEF GetCommand, TypeInv
<1>8. ASSUME NEW a \in Actor, GetData(a) PROVE TypeInv'
  <2> DEFINE moved == [call EXCEPT ![a].at = "done"]
             port == IF call[a].passed.data = Null THEN Null ELSE DataPort
  <2>1. moved \in [Actor -> Calls]
    BY Moved DEF TypeInv, Places
  <2>2. port \in Data
    BY DEF TypeInv, Data
  <2>3. call' = [moved EXCEPT ![a].out.data = port]
    BY <1>8 DEF GetData
  <2> HIDE DEF moved, port
  <2>4. call' \in [Actor -> Calls]
    BY <2>1, <2>2, <2>3, PortReturned DEF Commands
  <2> QED BY <1>8, <2>4 DEF GetData, TypeInv
<1>9. ASSUME NEW a \in Actor, Return(a) PROVE TypeInv'
  BY <1>9 DEF Return, Idle, NoPorts, TypeInv, Calls, Ports, Places, Commands, Data, Actor
<1>10. ASSUME NEW a \in Actor, NEW asked \in (0 .. MaximumSwi) \cup {Choose},
              Register(a, asked)
       PROVE  TypeInv'
  <2>1. PICK swi \in Chosen(asked), r \in Record :
          /\ Below(swi)
          /\ CallbackDataBase' = Append(CallbackDataBase, [id |-> r, swi |-> swi])
    BY <1>10 DEF Register
  <2>2. swi \in 0 .. MaximumSwi - 1
    <3>1. CASE asked # Choose
      BY <2>1, <3>1, CommandAssumption DEF Chosen, Below
    <3>2. CASE asked = Choose
      <4> DEFINE free == {i \in 1 .. MaximumSwi - 1 : ~Duplicate(i)}
      <4>1. swi = Min(free) /\ free # {}
        BY <2>1, <3>2 DEF Chosen
      <4>2. swi \in free
        BY <4>1, MinIsMember, CommandAssumption
      <4> QED BY <4>2, CommandAssumption
    <3> QED BY <3>1, <3>2
  <2> QED BY <1>10, <2>1, <2>2 DEF Register, TypeInv, Node
<1>11. ASSUME NEW a \in Actor, UnRegister(a) PROVE TypeInv'
  <2>1. PICK i \in 1 .. Len(CallbackDataBase) :
          CallbackDataBase' = RemoveAt(CallbackDataBase, i)
    BY <1>11 DEF UnRegister, TypeInv
  <2>2. CallbackDataBase' \in Seq(Node)
    BY <2>1, RemoveAtProperties DEF TypeInv
  <2> QED BY <1>11, <2>2 DEF UnRegister, TypeInv
<1>12. CASE UNCHANGED vars
  BY <1>12 DEF TypeInv, vars
<1> QED
  BY <1>1, <1>2, <1>3, <1>4, <1>5, <1>6, <1>7, <1>8, <1>9, <1>10, <1>11, <1>12
     DEF Next, Step, Actor

----------------------------------------------------------------------------
LEMMA TypeAlways == Spec => []TypeInv
BY TypeInit, TypeNext, PTL DEF Spec

(* The types of Smm, whatever drivers register and whoever calls: the      *)
(* command port never holds more than the greatest value, and every        *)
(* record's value is one that a command port can hold.                     *)
THEOREM TypeCorrect == Spec => []TypeOK
<1>1. TypeInv => TypeOK
  <2> SUFFICES ASSUME TypeInv PROVE TypeOK
    OBVIOUS
  <2>1. \A i \in DOMAIN CallbackDataBase : CallbackDataBase[i] \in Node
    BY DEF TypeInv
  <2>2. \A a \in Actor : call[a].link \in Record \cup {Null}
    BY DEF TypeInv, Calls
  <2> QED
    BY <2>1, <2>2, DataAssumption DEF TypeInv, TypeOK, Node, Data
<1> QED
  BY <1>1, TypeAlways, PTL

(* What SwiIsUnique says, without the function.                            *)
Unique ==
    \A i, j \in DOMAIN CallbackDataBase :
      CallbackDataBase[i].swi = CallbackDataBase[j].swi => i = j

LEMMA UniqueNext == TypeInv /\ Unique /\ [Next]_vars => Unique'
<1> SUFFICES ASSUME TypeInv, Unique, [Next]_vars PROVE Unique'
  OBVIOUS
<1>1. ASSUME NEW a \in Actor, NEW asked \in (0 .. MaximumSwi) \cup {Choose},
             Register(a, asked)
      PROVE  Unique'
  <2>1. PICK swi \in Chosen(asked), r \in Record :
          /\ ~Duplicate(swi)
          /\ CallbackDataBase' = Append(CallbackDataBase, [id |-> r, swi |-> swi])
    BY <1>1 DEF Register
  <2>2. \A i \in DOMAIN CallbackDataBase : CallbackDataBase[i].swi # swi
    BY <2>1 DEF Duplicate, SwiRegistered
  <2>3. /\ DOMAIN CallbackDataBase' = 1 .. Len(CallbackDataBase) + 1
        /\ \A i \in DOMAIN CallbackDataBase : CallbackDataBase'[i] = CallbackDataBase[i]
        /\ CallbackDataBase'[Len(CallbackDataBase) + 1].swi = swi
        /\ DOMAIN CallbackDataBase = 1 .. Len(CallbackDataBase)
    BY <2>1 DEF TypeInv
  <2> QED BY <2>2, <2>3 DEF Unique
<1>2. ASSUME NEW a \in Actor, UnRegister(a) PROVE Unique'
  <2>1. PICK i \in 1 .. Len(CallbackDataBase) :
          CallbackDataBase' = RemoveAt(CallbackDataBase, i)
    BY <1>2 DEF UnRegister, TypeInv
  <2>2. /\ DOMAIN CallbackDataBase' = 1 .. Len(CallbackDataBase) - 1
        /\ \A j \in 1 .. Len(CallbackDataBase) - 1 :
             CallbackDataBase'[j] = CallbackDataBase[IF j < i THEN j ELSE j + 1]
    BY <2>1, RemoveAtProperties DEF TypeInv
  <2> QED BY <2>2 DEF Unique, TypeInv
<1>3. CASE UNCHANGED CallbackDataBase
  BY <1>3 DEF Unique
<1> QED
  BY <1>1, <1>2, <1>3
     DEF Next, Step, vars, Activate, SetData, DispatchCommand, DispatchData, Walk,
         HandlerReturns, GetCommand, GetData, Return

(* However many handlers come and go, and whether drivers ask for a value  *)
(* or let the dispatcher choose one (WinNtSmmChildDispatcherSmm Register,  *)
(* UnRegister), no two of those registered have the same: the dispatcher's *)
(* first match is the only one.                                            *)
THEOREM UniqueCorrect == Spec => []SwiIsUnique
<1>1. Init => Unique
  BY DEF Init, Unique
<1>2. Unique => SwiIsUnique
  BY DEF Unique, SwiIsUnique, IsInjective
<1> QED
  BY <1>1, <1>2, TypeAlways, UniqueNext, PTL DEF Spec

----------------------------------------------------------------------------
(* The ports of a call: while it is under way the command port is its own  *)
(* or that of no command, and so is what the dispatcher read of it; the    *)
(* data port, once stored, is its own if it passed one.                    *)
OwnCommands(a) == {CommandOrNone(call[a].passed.command), MaximumSwi}
OwnData(a, d) == call[a].passed.data \in {Null, d}

OwnPorts(a) ==
    /\ call[a].at # "idle" => CommandPort \in OwnCommands(a)
    /\ call[a].at \notin {"idle", "setData"} => OwnData(a, DataPort)
    /\ call[a].at \in {"dispatch", "walk", "handler"} =>
         call[a].context.command \in OwnCommands(a)
    /\ call[a].at \in {"walk", "handler"} =>
         call[a].context.command # MaximumSwi /\ OwnData(a, call[a].context.data)
    /\ call[a].at \in {"getData", "done"} =>
         call[a].out.command \in {call[a].passed.command, MaximumSwi}
    /\ call[a].at = "done" => call[a].out.data = call[a].passed.data

PortInv ==
    /\ call["event"].passed = NoPorts
    /\ \A a \in Actor : OwnPorts(a)

(* A step on the call of a, which leaves the ports alone, keeps this of    *)
(* every call if it keeps it of the call of a.                             *)
LEMMA OwnStep ==
    ASSUME PortInv, NEW a \in Actor, UNCHANGED <<CommandPort, DataPort>>,
           \A b \in Actor : b # a => call'[b] = call[b],
           call'[a].passed = call[a].passed, OwnPorts(a)'
    PROVE  PortInv'
<1>1. ASSUME NEW b \in Actor, b # a PROVE OwnPorts(b)'
  <2>1. OwnPorts(b) /\ call'[b] = call[b]
    BY <1>1 DEF PortInv
  <2> QED BY <2>1 DEF OwnPorts, OwnCommands, OwnData, CommandOrNone
<1>2. call["event"].passed = NoPorts /\ call'["event"].passed = call["event"].passed
  BY DEF PortInv, Actor
<1> QED BY <1>1, <1>2 DEF PortInv

(* A new call stores its command port, and a notification has none.        *)
LEMMA OwnActivate ==
    ASSUME TypeInv, PortInv, NEW a \in Actor, NEW c, NEW d, Activate(a, c, d),
           a = "event" => c = Null /\ d = Null
    PROVE  PortInv'
<1>1. /\ CommandPort' = CommandOrNone(c) /\ DataPort' = DataPort
      /\ a = "main" => call["event"] = Idle
  BY DEF Activate, At, Runs
<1>2. call'[a].at = "setData" /\ call'[a].passed = [command |-> c, data |-> d]
  <2>1. CASE a = "main"
    BY <2>1 DEF Activate, TypeInv, Calls, Idle, Actor
  <2>2. CASE a = "event"
    BY <2>2 DEF Activate, TypeInv, Calls, Idle, Actor
  <2> QED BY <2>1, <2>2 DEF Actor
<1>3. ASSUME NEW b \in Actor, b # a
      PROVE  /\ call'[b].at = call[b].at /\ call'[b].passed = call[b].passed
             /\ call'[b].context = call[b].context /\ call'[b].out = call[b].out
  <2>1. CASE a = "main"
    <3>1. call'[b] = call[b]
      BY <1>3, <2>1 DEF Activate, TypeInv, Actor
    <3> QED BY <3>1
  <2>2. CASE a = "event"
    <3>1. call'["main"] = [call["main"] EXCEPT !.disturbed = call["main"].at # "idle"]
      BY <2>2 DEF Activate, TypeInv, Actor
    <3>2. call["main"] \in Calls /\ b = "main"
      BY <1>3, <2>2 DEF TypeInv, Actor
    <3> QED BY <3>1, <3>2 DEF Calls
  <2> QED BY <2>1, <2>2 DEF Actor
<1>4. OwnPorts(a)'
  BY <1>1, <1>2 DEF OwnPorts, OwnCommands
<1>5. ASSUME NEW b \in Actor, b # a PROVE OwnPorts(b)'
  <2>1. OwnPorts(b)
    BY DEF PortInv
  <2>2. CASE a = "main"
    <3>1. call'[b].at = "idle"
      BY <1>1, <1>3, <1>5, <2>2 DEF Idle, Actor
    <3> QED BY <3>1 DEF OwnPorts
  <2>3. CASE a = "event"
    <3>1. CommandPort' = MaximumSwi
      BY <1>1, <2>3 DEF CommandOrNone
    <3> QED
      BY <1>1, <1>3, <1>5, <2>1, <3>1 DEF OwnPorts, OwnCommands, OwnData
  <2> QED BY <2>2, <2>3 DEF Actor
<1>6. call'["event"].passed = NoPorts
  <2>1. CASE a = "main"
    BY <1>3, <2>1 DEF PortInv, Actor
  <2>2. CASE a = "event"
    BY <1>2, <2>2 DEF NoPorts
  <2> QED BY <2>1, <2>2 DEF Actor
<1> QED BY <1>4, <1>5, <1>6 DEF PortInv

(* It stores its data port, and a notification has none.                   *)
LEMMA OwnSetData ==
    ASSUME TypeInv, PortInv, NEW a \in Actor, SetData(a)
    PROVE  PortInv'
<1>1. /\ call[a].at = "setData" /\ CommandPort' = CommandPort
      /\ DataPort' = DataOrLast(call[a].passed.data)
      /\ a = "main" => call["event"] = Idle
  BY DEF SetData, At, Runs
<1>2. /\ call'[a].at = "entry" /\ call'[a].passed = call[a].passed
      /\ \A b \in Actor : b # a => call'[b] = call[b]
  BY DEF SetData, TypeInv, Calls
<1>3. OwnPorts(a)'
  <2>1. OwnPorts(a)
    BY DEF PortInv
  <2>2. call[a].passed.data \in {Null, DataPort'}
    BY <1>1 DEF DataOrLast
  <2> QED BY <1>1, <1>2, <2>1, <2>2 DEF OwnPorts, OwnCommands, OwnData
<1>4. ASSUME NEW b \in Actor, b # a PROVE OwnPorts(b)'
  <2>1. OwnPorts(b) /\ call'[b] = call[b]
    BY <1>2, <1>4 DEF PortInv
  <2>2. CASE a = "main"
    <3>1. call'[b].at = "idle"
      BY <1>1, <1>4, <2>1, <2>2 DEF Idle, Actor
    <3> QED BY <3>1 DEF OwnPorts
  <2>3. CASE a = "event"
    <3>1. DataPort' = DataPort
      BY <1>1, <2>3 DEF PortInv, NoPorts, DataOrLast
    <3> QED
      BY <1>1, <2>1, <3>1 DEF OwnPorts, OwnCommands, OwnData
  <2> QED BY <2>2, <2>3 DEF Actor
<1>5. call'["event"].passed = NoPorts
  BY <1>2 DEF PortInv, Actor
<1> QED BY <1>3, <1>4, <1>5 DEF PortInv

LEMMA PortsNext ==
    ASSUME EventCommand = {Null}, EventData = {Null}
    PROVE  TypeInv /\ PortInv /\ [Next]_vars => PortInv'
<1> SUFFICES ASSUME TypeInv, PortInv, [Next]_vars PROVE PortInv'
  OBVIOUS
<1>1. ASSUME NEW c \in MainCommand, NEW d \in MainData, Activate("main", c, d)
      PROVE  PortInv'
  BY <1>1, OwnActivate DEF Actor
<1>2. CASE Activate("event", Null, Null)
  BY <1>2, OwnActivate DEF Actor
<1>3. ASSUME NEW a \in Actor, SetData(a) PROVE PortInv'
  BY <1>3, OwnSetData
<1>4. ASSUME NEW a \in Actor, DispatchCommand(a) PROVE PortInv'
  <2>1. /\ call'[a].at = "dispatch" /\ call'[a].passed = call[a].passed
        /\ call'[a].context.command = CommandPort
        /\ \A b \in Actor : b # a => call'[b] = call[b]
    BY <1>4 DEF DispatchCommand, TypeInv, Calls, Ports
  <2>2. call[a].at = "entry" /\ OwnPorts(a) /\ UNCHANGED <<CommandPort, DataPort>>
    BY <1>4 DEF DispatchCommand, At, PortInv
  <2>3. OwnPorts(a)'
    BY <2>1, <2>2 DEF OwnPorts, OwnCommands, OwnData
  <2> QED BY <2>1, <2>2, <2>3, OwnStep
<1>5. ASSUME NEW a \in Actor, DispatchData(a) PROVE PortInv'
  <2>1. call[a].at = "dispatch" /\ OwnPorts(a) /\ UNCHANGED <<CommandPort, DataPort>>
    BY <1>5 DEF DispatchData, At, PortInv
  <2>2. CASE call' = [call EXCEPT ![a].at = "leave", ![a].context.data = DataPort]
    <3>1. /\ call'[a].at = "leave" /\ call'[a].passed = call[a].passed
          /\ \A b \in Actor : b # a => call'[b] = call[b]
      BY <2>2 DEF TypeInv, Calls
    <3>2. OwnPorts(a)'
      BY <2>1, <3>1 DEF OwnPorts, OwnCommands, OwnData
    <3> QED BY <2>1, <3>1, <3>2, OwnStep
  <2>3. CASE /\ call[a].context.command # MaximumSwi
             /\ call' = [call EXCEPT ![a].at = "walk", ![a].context.data = DataPort,
                                     ![a].link = CallbackDataBase[1].id]
    <3>1. /\ call'[a].at = "walk" /\ call'[a].passed = call[a].passed
          /\ call'[a].context = [call[a].context EXCEPT !.data = DataPort]
          /\ \A b \in Actor : b # a => call'[b] = call[b]
      BY <2>3 DEF TypeInv, Calls
    <3>2. /\ call'[a].context.command = call[a].context.command
          /\ call'[a].context.data = DataPort
      BY <3>1, CallSet DEF TypeInv, Ports
    <3>3. OwnPorts(a)'
      BY <2>1, <2>3, <3>1, <3>2 DEF OwnPorts, OwnCommands, OwnData
    <3> QED BY <2>1, <3>1, <3>3, OwnStep
  <2> QED BY <1>5, <2>2, <2>3 DEF DispatchData
<1>6. ASSUME NEW a \in Actor, Walk(a) PROVE PortInv'
  <2>1. call[a].at = "walk" /\ OwnPorts(a) /\ UNCHANGED <<CommandPort, DataPort>>
    BY <1>6 DEF Walk, At, PortInv
  <2>2. /\ call'[a].at \in {"handler", "leave", "walk"}
        /\ call'[a].passed = call[a].passed /\ call'[a].context = call[a].context
        /\ \A b \in Actor : b # a => call'[b] = call[b]
    <3>1. CASE call' = [call EXCEPT ![a].at = "handler", ![a].served = @ + 1]
      BY <3>1 DEF TypeInv, Calls
    <3>2. ASSUME NEW p \in {"leave", "walk"},
                 call' = [call EXCEPT ![a].at = p, ![a].link = GetNextNode(call[a].link)]
          PROVE  /\ call'[a].at = p /\ call'[a].passed = call[a].passed
                 /\ call'[a].context = call[a].context
                 /\ \A b \in Actor : b # a => call'[b] = call[b]
      BY <3>2 DEF TypeInv, Calls
    <3> QED BY <1>6, <3>1, <3>2 DEF Walk
  <2>3. OwnPorts(a)'
    BY <2>1, <2>2 DEF OwnPorts, OwnCommands, OwnData
  <2> QED BY <2>1, <2>2, <2>3, OwnStep
<1>7. ASSUME NEW a \in Actor, HandlerReturns(a) PROVE PortInv'
  <2>1. call[a].at = "handler" /\ OwnPorts(a) /\ UNCHANGED <<CommandPort, DataPort>>
    BY <1>7 DEF HandlerReturns, At, PortInv
  <2>2. /\ call'[a].at = "leave" /\ call'[a].passed = call[a].passed
        /\ \A b \in Actor : b # a => call'[b] = call[b]
    BY <1>7 DEF HandlerReturns, TypeInv, Calls
  <2>3. OwnPorts(a)'
    BY <2>1, <2>2 DEF OwnPorts, OwnCommands, OwnData
  <2> QED BY <2>1, <2>2, <2>3, OwnStep
<1>8. ASSUME NEW a \in Actor, GetCommand(a) PROVE PortInv'
  <2> DEFINE port == IF call[a].passed.command = Null THEN Null ELSE CommandPort
  <2>1. call[a].at = "leave" /\ OwnPorts(a) /\ UNCHANGED <<CommandPort, DataPort>>
    BY <1>8 DEF GetCommand, At, PortInv
  <2>2. port \in {call[a].passed.command, MaximumSwi}
    BY <2>1 DEF OwnPorts, OwnCommands, CommandOrNone
  <2>3. call' = [call EXCEPT ![a].at = "getData", ![a].out.command = port]
    BY <1>8 DEF GetCommand
  <2> HIDE DEF port
  <2>4. /\ call'[a].at = "getData" /\ call'[a].passed = call[a].passed
        /\ call'[a].out = [call[a].out EXCEPT !.command = port]
        /\ \A b \in Actor : b # a => call'[b] = call[b]
    BY <2>3 DEF TypeInv, Calls
  <2>5. call'[a].out.command = port
    BY <2>4, CallSet DEF TypeInv, Ports
  <2>6. OwnPorts(a)'
    BY <2>1, <2>2, <2>4, <2>5 DEF OwnPorts, OwnCommands, OwnData
  <2> QED BY <2>1, <2>4, <2>6, OwnStep
<1>9. ASSUME NEW a \in Actor, GetData(a) PROVE PortInv'
  <2> DEFINE port == IF call[a].passed.data = Null THEN Null ELSE DataPort
  <2>1. call[a].at = "getData" /\ OwnPorts(a) /\ UNCHANGED <<CommandPort, DataPort>>
    BY <1>9 DEF GetData, At, PortInv
  <2>2. port = call[a].passed.data
    BY <2>1 DEF OwnPorts, OwnData
  <2>3. call' = [call EXCEPT ![a].at = "done", ![a].out.data = port]
    BY <1>9 DEF GetData
  <2> HIDE DEF port
  <2>4. /\ call'[a].at = "done" /\ call'[a].passed = call[a].passed
        /\ call'[a].out = [call[a].out EXCEPT !.data = port]
        /\ \A b \in Actor : b # a => call'[b] = call[b]
    BY <2>3 DEF TypeInv, Calls
  <2>5. call'[a].out.data = port /\ call'[a].out.command = call[a].out.command
    BY <2>4, CallSet DEF TypeInv, Ports
  <2>6. OwnPorts(a)'
    BY <2>1, <2>2, <2>4, <2>5 DEF OwnPorts, OwnCommands, OwnData
  <2> QED BY <2>1, <2>4, <2>6, OwnStep
<1>10. ASSUME NEW a \in Actor, Return(a) PROVE PortInv'
  <2>1. UNCHANGED <<CommandPort, DataPort>> /\ call' = [call EXCEPT ![a] = Idle]
    BY <1>10 DEF Return
  <2>2. /\ call'[a] = Idle
        /\ \A b \in Actor : b # a => call'[b] = call[b]
    BY <2>1 DEF TypeInv
  <2>3. ASSUME NEW b \in Actor PROVE OwnPorts(b)'
    <3>1. CASE b = a
      BY <2>2, <3>1 DEF OwnPorts, Idle
    <3>2. CASE b # a
      BY <2>1, <2>2, <3>2 DEF PortInv, OwnPorts, OwnCommands, OwnData
    <3> QED BY <3>1, <3>2
  <2>4. call'["event"].passed = NoPorts
    <3>1. CASE a = "event"
      BY <2>2, <3>1 DEF Idle
    <3>2. CASE a # "event"
      BY <2>2, <3>2 DEF PortInv, Actor
    <3> QED BY <3>1, <3>2
  <2> QED BY <2>3, <2>4 DEF PortInv
<1>11. CASE UNCHANGED <<CommandPort, DataPort, call>>
  BY <1>11 DEF PortInv, OwnPorts, OwnCommands, OwnData, CommandOrNone
<1> QED
  BY <1>1, <1>2, <1>3, <1>4, <1>5, <1>6, <1>7, <1>8, <1>9, <1>10, <1>11
     DEF Next, Step, vars, Register, UnRegister

(* A notification that activates SMIs without ports cannot make a handler  *)
(* see ports that its own call did not pass (WinNtSmmTrigger, SetInfo, the *)
(* dispatcher), nor make a call get back ports that are not its own,       *)
(* whatever the ports passed and the handlers registered.                  *)
THEOREM PortsCorrect ==
    ASSUME EventCommand = {Null}, EventData = {Null}
    PROVE  Spec => [](HandlerSeesItsCall /\ PortsComeBack)
<1>1. Init => PortInv
  BY DEF Init, PortInv, OwnPorts, Idle, NoPorts, Actor
<1>2. PortInv => HandlerSeesItsCall /\ PortsComeBack
  BY DEF PortInv, OwnPorts, OwnCommands, OwnData, CommandOrNone, HandlerSeesItsCall,
         PortsComeBack
<1>3. TypeInv /\ PortInv /\ [Next]_vars => PortInv'
  BY PortsNext
<1> QED
  BY <1>1, <1>2, <1>3, TypeAlways, PTL DEF Spec
----------------------------------------------------------------------------
(* The records of the list are different ones.                             *)
IdsUnique ==
    \A i, j \in DOMAIN CallbackDataBase :
      CallbackDataBase[i].id = CallbackDataBase[j].id => i = j

LEMMA IdsNext == TypeInv /\ IdsUnique /\ [Next]_vars => IdsUnique'
<1> SUFFICES ASSUME TypeInv, IdsUnique, [Next]_vars PROVE IdsUnique'
  OBVIOUS
<1>1. ASSUME NEW a \in Actor, NEW asked \in (0 .. MaximumSwi) \cup {Choose},
             Register(a, asked)
      PROVE  IdsUnique'
  <2>1. PICK swi \in Chosen(asked), r \in Record :
          /\ \A i \in DOMAIN CallbackDataBase : CallbackDataBase[i].id # r
          /\ CallbackDataBase' = Append(CallbackDataBase, [id |-> r, swi |-> swi])
    BY <1>1 DEF Register
  <2>2. /\ DOMAIN CallbackDataBase' = 1 .. Len(CallbackDataBase) + 1
        /\ \A i \in DOMAIN CallbackDataBase : CallbackDataBase'[i] = CallbackDataBase[i]
        /\ CallbackDataBase'[Len(CallbackDataBase) + 1].id = r
        /\ DOMAIN CallbackDataBase = 1 .. Len(CallbackDataBase)
    BY <2>1 DEF TypeInv
  <2> QED BY <2>1, <2>2 DEF IdsUnique
<1>2. ASSUME NEW a \in Actor, UnRegister(a) PROVE IdsUnique'
  <2>1. PICK i \in 1 .. Len(CallbackDataBase) :
          CallbackDataBase' = RemoveAt(CallbackDataBase, i)
    BY <1>2 DEF UnRegister, TypeInv
  <2>2. /\ DOMAIN CallbackDataBase' = 1 .. Len(CallbackDataBase) - 1
        /\ \A j \in 1 .. Len(CallbackDataBase) - 1 :
             CallbackDataBase'[j] = CallbackDataBase[IF j < i THEN j ELSE j + 1]
    <3>1. CallbackDataBase \in Seq(Node)
      BY DEF TypeInv
    <3>2. /\ CallbackDataBase' \in Seq(Node)
          /\ Len(CallbackDataBase') = Len(CallbackDataBase) - 1
          /\ \A j \in 1 .. Len(CallbackDataBase) - 1 :
               CallbackDataBase'[j] = CallbackDataBase[IF j < i THEN j ELSE j + 1]
      BY <2>1, <3>1, RemoveAtProperties
    <3> QED BY <3>2
  <2> QED BY <2>2 DEF IdsUnique, TypeInv
<1>3. CASE UNCHANGED CallbackDataBase
  BY <1>3 DEF IdsUnique
<1> QED
  BY <1>1, <1>2, <1>3
     DEF Next, Step, vars, Activate, SetData, DispatchCommand, DispatchData, Walk,
         HandlerReturns, GetCommand, GetData, Return

(* The calls as far as their dispatchers go.  A notification's call has no *)
(* command and meets no handler.  The dispatcher of another one stands on  *)
(* a record; undisturbed, it knows the command passed, and has found no    *)
(* record of it so far.                                                    *)
Values == {CallbackDataBase[i].swi : i \in DOMAIN CallbackDataBase}
MainPassed == CommandOrNone(call["main"].passed.command)

WalkInv ==
    /\ call["event"].at \notin {"walk", "handler"}
    /\ call["main"].at = "walk" =>
         \E i \in DOMAIN CallbackDataBase : CallbackDataBase[i].id = call["main"].link

Pending ==
    /\ call["main"].served = 0
    /\ call["main"].due = (MainPassed \in Values)

NotPassed ==
    \E i \in DOMAIN CallbackDataBase :
      /\ CallbackDataBase[i].id = call["main"].link
      /\ \A j \in DOMAIN CallbackDataBase : j < i => CallbackDataBase[j].swi # MainPassed

ServeInv ==
    /\ call["event"].served = 0 /\ ~call["event"].due
    /\ ~call["main"].disturbed =>
         /\ call["main"].at \in {"setData", "entry"} => Pending /\ CommandPort = MainPassed
         /\ call["main"].at = "dispatch" =>
              Pending /\ call["main"].context.command = MainPassed
         /\ call["main"].at = "walk" => Pending /\ NotPassed
         /\ call["main"].at = "handler" => call["main"].served = 1 /\ call["main"].due
         /\ Left("main") => call["main"].served = IF call["main"].due THEN 1 ELSE 0

(* The list is of records, none of which has no command as its value.      *)
LEMMA ListFacts ==
    ASSUME TypeInv
    PROVE  /\ DOMAIN CallbackDataBase = 1 .. Len(CallbackDataBase)
           /\ Len(CallbackDataBase) \in Nat
           /\ \A i \in DOMAIN CallbackDataBase :
                /\ CallbackDataBase[i].id \in Record
                /\ CallbackDataBase[i].swi \in 0 .. MaximumSwi - 1
           /\ Null \notin Values /\ MaximumSwi \notin Values
<1>1. \A i \in DOMAIN CallbackDataBase : CallbackDataBase[i] \in Node
  BY DEF TypeInv
<1>2. \A i \in DOMAIN CallbackDataBase :
        CallbackDataBase[i].id \in Record /\ CallbackDataBase[i].swi \in 0 .. MaximumSwi - 1
  BY <1>1 DEF Node
<1>3. Null \notin Values
  BY <1>2, CommandAssumption DEF Values
<1>4. MaximumSwi \notin Values
  BY <1>2, CommandAssumption DEF Values
<1> QED BY <1>2, <1>3, <1>4 DEF TypeInv

(* A record of the list is found again by its link.                        *)
LEMMA PlaceOf ==
    ASSUME TypeInv, IdsUnique, NEW i \in DOMAIN CallbackDataBase
    PROVE  Place(CallbackDataBase[i].id) = i
<1>1. \E j \in DOMAIN CallbackDataBase : CallbackDataBase[j].id = CallbackDataBase[i].id
  OBVIOUS
<1>2. /\ Place(CallbackDataBase[i].id) \in DOMAIN CallbackDataBase
      /\ CallbackDataBase[Place(CallbackDataBase[i].id)].id = CallbackDataBase[i].id
  BY <1>1 DEF Place
<1> QED BY <1>2 DEF IdsUnique

(* A step that leaves the list and main's call alone, and the command port *)
(* too, or main is disturbed.                                              *)
LEMMA MainKept ==
    ASSUME WalkInv, ServeInv, UNCHANGED CallbackDataBase,
           call'["main"] = call["main"],
           CommandPort' = CommandPort \/ call["main"].disturbed \/ call["main"].at = "idle",
           call'["event"].at \notin {"walk", "handler"},
           call'["event"].served = 0, ~call'["event"].due
    PROVE  WalkInv' /\ ServeInv'
<1>1. WalkInv'
  BY DEF WalkInv
<1>2. MainPassed' = MainPassed /\ Values' = Values
  BY DEF MainPassed, CommandOrNone, Values
<1>3. Pending' <=> Pending
  BY <1>2 DEF Pending
<1>4. NotPassed' <=> NotPassed
  BY <1>2 DEF NotPassed
<1>5. Left("main")' <=> Left("main")
  BY DEF Left
<1>6. CASE CommandPort' = CommandPort \/ call["main"].disturbed
  BY <1>1, <1>2, <1>3, <1>4, <1>6 DEF ServeInv, Left
<1>7. CASE call["main"].at = "idle"
  BY <1>1, <1>7 DEF ServeInv, Left
<1> QED BY <1>1, <1>6, <1>7

(* A step of the event's call, which is not at the list.                   *)
LEMMA EventKept ==
    ASSUME TypeInv, WalkInv, ServeInv, UNCHANGED <<CommandPort, CallbackDataBase>>,
           NEW p \in Places \ {"walk", "handler"},
           call'["main"] = call["main"],
           call'["event"].at = p,
           call'["event"].served = call["event"].served,
           call'["event"].due = call["event"].due
    PROVE  WalkInv' /\ ServeInv'
<1>1. call["event"].served = 0 /\ ~call["event"].due
  BY DEF ServeInv
<1> QED BY <1>1, MainKept

(* A step of main's call, for which the list and the command port stay as  *)
(* they are: what is left to show of it is what it knows where it is now.  *)
MainKnows ==
    /\ call["main"].at = "walk" => NotPassed
    /\ call["main"].at \in {"setData", "entry", "dispatch", "walk"} => Pending
    /\ call["main"].at \in {"setData", "entry"} => CommandPort = MainPassed
    /\ call["main"].at = "dispatch" => call["main"].context.command = MainPassed
    /\ call["main"].at = "handler" => call["main"].served = 1 /\ call["main"].due
    /\ Left("main") => call["main"].served = IF call["main"].due THEN 1 ELSE 0

LEMMA KnowsIsServe ==
    (call["event"].served = 0 /\ ~call["event"].due)
      => (ServeInv <=> (call["main"].disturbed \/ MainKnows))
<1>1. (call["event"].served = 0 /\ ~call["event"].due /\ ServeInv)
         => call["main"].disturbed \/ MainKnows
  BY DEF ServeInv, MainKnows, Left
<1>2. (call["event"].served = 0 /\ ~call["event"].due
         /\ (call["main"].disturbed \/ MainKnows)) => ServeInv
  BY DEF ServeInv, MainKnows, Left
<1> QED BY <1>1, <1>2

LEMMA MainStep ==
    ASSUME WalkInv, ServeInv,
           call'["event"] = call["event"],
           call'["main"].disturbed = call["main"].disturbed,
           call'["main"].at = "walk" =>
             \E i \in DOMAIN CallbackDataBase' :
                CallbackDataBase'[i].id = call'["main"].link,
           ~call["main"].disturbed /\ MainKnows => MainKnows'
    PROVE  WalkInv' /\ ServeInv'
<1>1. WalkInv'
  BY DEF WalkInv
<1>2. call["event"].served = 0 /\ ~call["event"].due
  BY DEF ServeInv
<1>3. call["main"].disturbed \/ MainKnows
  BY <1>2, KnowsIsServe
<1>4. call'["main"].disturbed \/ MainKnows'
  BY <1>3
<1>5. ServeInv'
  BY <1>2, <1>4 DEF ServeInv, MainKnows, Left
<1> QED BY <1>1, <1>5

LEMMA ServeActivate ==
    ASSUME TypeInv, WalkInv, ServeInv, NEW a \in Actor, NEW c, NEW d,
           Activate(a, c, d), a = "event" => c = Null
    PROVE  WalkInv' /\ ServeInv'
<1>1. CASE a = "main"
  <2>1. /\ call'["main"] = [[Idle EXCEPT !.at = "setData",
                              !.passed = [command |-> c, data |-> d],
                              !.due = SwiRegistered(c)] EXCEPT !.disturbed = FALSE]
        /\ call'["event"] = call["event"]
    BY <1>1 DEF Activate, TypeInv, Actor
  <2>2. /\ call'["main"].at = "setData" /\ call'["main"].passed.command = c
        /\ call'["main"].due = SwiRegistered(c) /\ call'["main"].served = 0
    BY <2>1 DEF Idle
  <2>3. UNCHANGED CallbackDataBase /\ CommandPort' = CommandOrNone(c)
    BY DEF Activate
  <2>4. SwiRegistered(c) = (CommandOrNone(c) \in Values)
    <3>1. SwiRegistered(c) = (c \in Values)
      <4>1. SwiRegistered(c) <=> (c \in Values)
        BY DEF SwiRegistered, Values
      <4>2. SwiRegistered(c) \in BOOLEAN
        BY Zenon DEF SwiRegistered
      <4> QED BY <4>1, <4>2
    <3>2. Null \notin Values /\ MaximumSwi \notin Values
      BY ListFacts
    <3> QED BY <3>1, <3>2 DEF CommandOrNone
  <2>5. MainPassed' = CommandOrNone(c) /\ Values' = Values
    BY <2>2, <2>3 DEF MainPassed, CommandOrNone, Values
  <2>6. Pending' /\ CommandPort' = MainPassed'
    BY <2>2, <2>3, <2>4, <2>5 DEF Pending
  <2>7. WalkInv'
    BY <2>1, <2>2 DEF WalkInv
  <2>8. ServeInv'
    BY <2>1, <2>2, <2>6 DEF ServeInv, Left
  <2> QED BY <2>7, <2>8
<1>2. CASE a = "event"
  <2>1. /\ call'["event"].at = "setData" /\ call'["event"].served = 0
        /\ call'["event"].due = SwiRegistered(c)
    BY <1>2 DEF Activate, TypeInv, Calls, Idle, Actor
  <2>2. ~SwiRegistered(c)
    <3>1. Null \notin Values
      BY ListFacts
    <3> QED BY <1>2, <3>1 DEF SwiRegistered, Values
  <2>3. call'["main"] = [call["main"] EXCEPT !.disturbed = call["main"].at # "idle"]
    BY <1>2 DEF Activate, TypeInv, Actor
  <2>4. UNCHANGED CallbackDataBase
    BY DEF Activate
  <2>5. call["main"] \in Calls
    BY DEF TypeInv, Actor
  <2>6. /\ call'["main"].at = call["main"].at /\ call'["main"].link = call["main"].link
        /\ call'["main"].disturbed = (call["main"].at # "idle")
    BY <2>3, <2>5 DEF Calls
  <2>7. WalkInv'
    BY <2>1, <2>4, <2>6 DEF WalkInv
  <2>8. ServeInv'
    BY <2>1, <2>2, <2>6 DEF ServeInv, Left
  <2> QED BY <2>7, <2>8
<1> QED BY <1>1, <1>2 DEF Actor

(* Between the arrival at the list and a match.                            *)
LEMMA ServeWalk ==
    ASSUME TypeInv, IdsUnique, PortInv, WalkInv, ServeInv, Walk("main")
    PROVE  WalkInv' /\ ServeInv'
<1>1. call["main"].at = "walk" /\ UNCHANGED <<CommandPort, CallbackDataBase>>
  BY DEF Walk, At
<1>2. call["main"].context.command = MainPassed
  BY <1>1 DEF PortInv, OwnPorts, OwnCommands, MainPassed, Actor
<1>3. call["main"] \in Calls /\ "main" \in Actor /\ "event" \in Actor
  BY DEF TypeInv, Actor
<1>4. PICK i \in DOMAIN CallbackDataBase : CallbackDataBase[i].id = call["main"].link
  BY <1>1 DEF WalkInv
<1>5. Place(call["main"].link) = i
  BY <1>4, PlaceOf
<1>6. /\ DOMAIN CallbackDataBase = 1 .. Len(CallbackDataBase)
      /\ Len(CallbackDataBase) \in Nat
      /\ \A j \in DOMAIN CallbackDataBase : CallbackDataBase[j].id \in Record
  BY ListFacts
<1>7. MainKnows => \A j \in DOMAIN CallbackDataBase : j < i => CallbackDataBase[j].swi # MainPassed
  BY <1>1, <1>4 DEF MainKnows, NotPassed, IdsUnique
<1>8. Values' = Values
  BY <1>1 DEF Values
<1>9. CASE CallbackDataBase[i].swi = call["main"].context.command
  <2>1. call' = [call EXCEPT !["main"].at = "handler", !["main"].served = @ + 1]
    BY <1>5, <1>9 DEF Walk
  <2>2. /\ call'["main"].at = "handler"
        /\ call'["main"].served = call["main"].served + 1
        /\ call'["main"].due = call["main"].due
        /\ call'["main"].disturbed = call["main"].disturbed
        /\ call'["event"] = call["event"]
    BY <1>3, <2>1 DEF Calls, TypeInv
  <2>3. MainPassed \in Values
    BY <1>2, <1>9 DEF Values
  <2>4. MainKnows => call["main"].served = 0 /\ call["main"].due
    BY <1>1, <2>3 DEF MainKnows, Pending
  <2>5. MainKnows => MainKnows'
    BY <2>2, <2>4 DEF MainKnows, Left
  <2> QED BY <2>2, <2>5, MainStep
<1>10. CASE CallbackDataBase[i].swi # call["main"].context.command
  <2> DEFINE next == GetNextNode(call["main"].link)
             to == IF next = Null THEN "leave" ELSE "walk"
  <2>1. call' = [call EXCEPT !["main"].at = to, !["main"].link = next]
    BY <1>5, <1>10 DEF Walk
  <2>2. next = IF i + 1 \in DOMAIN CallbackDataBase THEN CallbackDataBase[i + 1].id ELSE Null
    BY <1>5 DEF GetNextNode, NodeAt
  <2>3. (next = Null) <=> (i + 1 \notin DOMAIN CallbackDataBase)
    BY <1>6, <2>2, DataAssumption
  <2> HIDE DEF next
  <2>4. /\ call'["main"].at = to
        /\ call'["main"].link = next
        /\ call'["main"].served = call["main"].served
        /\ call'["main"].due = call["main"].due
        /\ call'["main"].passed = call["main"].passed
        /\ call'["main"].disturbed = call["main"].disturbed
        /\ call'["event"] = call["event"]
    BY <1>3, <2>1 DEF Calls, TypeInv
  <2>5. MainPassed' = MainPassed
    BY <2>4 DEF MainPassed, CommandOrNone
  <2>6. MainKnows => \A j \in DOMAIN CallbackDataBase : j < i + 1 => CallbackDataBase[j].swi # MainPassed
    BY <1>2, <1>6, <1>7, <1>10
  <2>7. CASE i + 1 \in DOMAIN CallbackDataBase
    <3>1. call'["main"].at = "walk" /\ call'["main"].link = CallbackDataBase[i + 1].id
      BY <2>2, <2>3, <2>4, <2>7
    <3>2. MainKnows => NotPassed'
      BY <1>1, <2>5, <2>6, <2>7, <3>1 DEF NotPassed
    <3>3. MainKnows => Pending'
      BY <1>1, <1>8, <2>4, <2>5 DEF MainKnows, Pending
    <3>4. MainKnows => MainKnows'
      BY <3>1, <3>2, <3>3 DEF MainKnows, Left
    <3>5. \E j \in DOMAIN CallbackDataBase' : CallbackDataBase'[j].id = call'["main"].link
      BY <1>1, <2>7, <3>1
    <3> QED BY <2>4, <3>4, <3>5, MainStep
  <2>8. CASE i + 1 \notin DOMAIN CallbackDataBase
    <3>1. call'["main"].at = "leave"
      BY <2>3, <2>4, <2>8
    <3>2. MainKnows => MainPassed \notin Values
      BY <1>6, <2>6, <2>8 DEF Values
    <3>3. MainKnows => MainKnows'
      BY <1>1, <2>4, <3>1, <3>2 DEF MainKnows, Pending, Left
    <3> QED BY <2>4, <3>1, <3>3, MainStep
  <2> QED BY <2>7, <2>8
<1> QED BY <1>9, <1>10

LEMMA ServeDispatch ==
    ASSUME TypeInv, IdsUnique, PortInv, WalkInv, ServeInv, DispatchData("main")
    PROVE  WalkInv' /\ ServeInv'
<1>1. call["main"].at = "dispatch" /\ UNCHANGED <<CommandPort, CallbackDataBase>>
  BY DEF DispatchData, At
<1>2. call["main"] \in Calls /\ "main" \in Actor /\ "event" \in Actor
  BY DEF TypeInv, Actor
<1>3. /\ DOMAIN CallbackDataBase = 1 .. Len(CallbackDataBase)
      /\ Len(CallbackDataBase) \in Nat
      /\ MaximumSwi \notin Values
  BY ListFacts
<1>4. Values' = Values
  BY <1>1 DEF Values
<1>5. CASE call["main"].context.command = MaximumSwi \/ CallbackDataBase = <<>>
  <2>1. call' = [call EXCEPT !["main"].at = "leave", !["main"].context.data = DataPort]
    BY <1>5 DEF DispatchData
  <2>2. /\ call'["main"].at = "leave"
        /\ call'["main"].served = call["main"].served
        /\ call'["main"].due = call["main"].due
        /\ call'["main"].disturbed = call["main"].disturbed
        /\ call'["event"] = call["event"]
    BY <1>2, <2>1 DEF Calls, TypeInv
  <2>3. MainKnows => MainPassed \notin Values
    BY <1>1, <1>3, <1>5 DEF MainKnows, Values
  <2>4. MainKnows => MainKnows'
    BY <1>1, <2>2, <2>3 DEF MainKnows, Pending, Left
  <2> QED BY <2>2, <2>4, MainStep
<1>6. CASE ~(call["main"].context.command = MaximumSwi \/ CallbackDataBase = <<>>)
  <2>1. call' = [call EXCEPT !["main"].at = "walk", !["main"].context.data = DataPort,
                             !["main"].link = CallbackDataBase[1].id]
    BY <1>6 DEF DispatchData
  <2>2. /\ call'["main"].at = "walk"
        /\ call'["main"].link = CallbackDataBase[1].id
        /\ call'["main"].served = call["main"].served
        /\ call'["main"].due = call["main"].due
        /\ call'["main"].passed = call["main"].passed
        /\ call'["main"].disturbed = call["main"].disturbed
        /\ call'["event"] = call["event"]
    BY <1>2, <2>1 DEF Calls, TypeInv
  <2>3. 1 \in DOMAIN CallbackDataBase
    BY <1>3, <1>6 DEF TypeInv
  <2>4. MainPassed' = MainPassed
    BY <2>2 DEF MainPassed, CommandOrNone
  <2>5. NotPassed'
    BY <1>1, <1>3, <2>2, <2>3 DEF NotPassed
  <2>6. MainKnows => Pending'
    BY <1>1, <1>4, <2>2, <2>4 DEF MainKnows, Pending
  <2>7. MainKnows => MainKnows'
    BY <2>2, <2>5, <2>6 DEF MainKnows, Left
  <2>8. \E j \in DOMAIN CallbackDataBase' : CallbackDataBase'[j].id = call'["main"].link
    BY <1>1, <2>2, <2>3
  <2> QED BY <2>2, <2>7, <2>8, MainStep
<1> QED BY <1>5, <1>6

LEMMA ServeNext ==
    ASSUME EventCommand = {Null}, EventData = {Null}
    PROVE  TypeInv /\ IdsUnique /\ PortInv /\ WalkInv /\ ServeInv /\ [Next]_vars
             => WalkInv' /\ ServeInv'
<1> SUFFICES ASSUME TypeInv, IdsUnique, PortInv, WalkInv, ServeInv, [Next]_vars
             PROVE  WalkInv' /\ ServeInv'
  OBVIOUS
<1>0. /\ call["main"] \in Calls /\ call["event"] \in Calls
      /\ "main" \in Actor /\ "event" \in Actor
  BY DEF TypeInv, Actor
<1>1. ASSUME NEW c \in MainCommand, NEW d \in MainData, Activate("main", c, d)
      PROVE  WalkInv' /\ ServeInv'
  BY <1>0, <1>1, ServeActivate
<1>2. CASE Activate("event", Null, Null)
  BY <1>0, <1>2, ServeActivate
<1>3. CASE SetData("main")
  <2>1. /\ call["main"].at = "setData" /\ UNCHANGED <<CommandPort, CallbackDataBase>>
        /\ call' = [call EXCEPT !["main"].at = "entry"]
    BY <1>3 DEF SetData, At
  <2>2. /\ call'["main"].at = "entry" /\ call'["main"].served = call["main"].served
        /\ call'["main"].due = call["main"].due
        /\ call'["main"].passed = call["main"].passed
        /\ call'["main"].disturbed = call["main"].disturbed
        /\ call'["event"] = call["event"]
    BY <1>0, <2>1 DEF Calls, TypeInv
  <2>3. MainPassed' = MainPassed /\ Values' = Values
    BY <2>1, <2>2 DEF MainPassed, CommandOrNone, Values
  <2>4. MainKnows => MainKnows'
    BY <2>1, <2>2, <2>3 DEF MainKnows, Pending, Left
  <2> QED BY <2>2, <2>4, MainStep
<1>4. CASE DispatchCommand("main")
  <2>1. /\ call["main"].at = "entry" /\ UNCHANGED <<CommandPort, CallbackDataBase>>
        /\ call' = [call EXCEPT !["main"].at = "dispatch",
                                !["main"].context.command = CommandPort]
    BY <1>4 DEF DispatchCommand, At
  <2>2. /\ call'["main"].at = "dispatch" /\ call'["main"].served = call["main"].served
        /\ call'["main"].due = call["main"].due
        /\ call'["main"].passed = call["main"].passed
        /\ call'["main"].context.command = CommandPort
        /\ call'["main"].disturbed = call["main"].disturbed
        /\ call'["event"] = call["event"]
    BY <1>0, <2>1 DEF Calls, Ports, TypeInv
  <2>3. MainPassed' = MainPassed /\ Values' = Values
    BY <2>1, <2>2 DEF MainPassed, CommandOrNone, Values
  <2>4. MainKnows => MainKnows'
    BY <2>1, <2>2, <2>3 DEF MainKnows, Pending, Left
  <2> QED BY <2>2, <2>4, MainStep
<1>5. CASE DispatchData("main")
  BY <1>5, ServeDispatch
<1>6. CASE Walk("main")
  BY <1>6, ServeWalk
<1>7. ASSUME call["main"].at \in {"handler", "leave", "getData"},
             UNCHANGED CallbackDataBase, NEW p \in {"leave", "getData", "done"},
             call'["main"].at = p, call'["main"].served = call["main"].served,
             call'["main"].due = call["main"].due,
             call'["main"].disturbed = call["main"].disturbed,
             call'["event"] = call["event"]
      PROVE  WalkInv' /\ ServeInv'
  <2>1. MainKnows => MainKnows'
    BY <1>7 DEF MainKnows, Left
  <2> QED BY <1>7, <2>1, MainStep
<1>8. CASE HandlerReturns("main")
  BY <1>0, <1>7, <1>8 DEF HandlerReturns, At, Calls, TypeInv
<1>9. CASE GetCommand("main")
  BY <1>0, <1>7, <1>9 DEF GetCommand, At, Calls, TypeInv
<1>10. CASE GetData("main")
  BY <1>0, <1>7, <1>10 DEF GetData, At, Calls, TypeInv
<1>11. CASE Return("main")
  <2>1. call'["main"] = Idle /\ call'["event"] = call["event"]
    BY <1>0, <1>11 DEF Return, TypeInv
  <2>2. WalkInv'
    BY <2>1 DEF WalkInv, Idle
  <2>3. ServeInv'
    BY <2>1 DEF ServeInv, Idle, Left
  <2> QED BY <2>2, <2>3
<1>12. CASE Step("event")
  <2>1. call["event"].at \notin {"walk", "handler"}
    BY DEF WalkInv
  <2>2. call["event"].at = "dispatch" => call["event"].context.command = MaximumSwi
    BY <1>0 DEF PortInv, OwnPorts, OwnCommands, CommandOrNone, NoPorts
  <2>3. UNCHANGED <<CommandPort, CallbackDataBase>>
    BY <1>12 DEF Step, SetData, DispatchCommand, DispatchData, Walk, HandlerReturns,
                 GetCommand, GetData, Return
  <2>4. CASE Return("event")
    <3>1. call'["event"] = Idle /\ call'["main"] = call["main"]
      BY <1>0, <2>4 DEF Return, TypeInv
    <3> QED BY <2>3, <3>1, MainKept DEF Idle
  <2>5. CASE SetData("event")
    <3>1. call' = [call EXCEPT !["event"].at = "entry"]
      BY <2>5 DEF SetData
    <3>2. /\ call'["event"].at = "entry" /\ call'["main"] = call["main"]
          /\ call'["event"].served = call["event"].served
          /\ call'["event"].due = call["event"].due
      BY <1>0, <3>1 DEF Calls, TypeInv
    <3> QED BY <2>3, <3>2, EventKept DEF Places
  <2>6. CASE DispatchCommand("event")
    <3>1. /\ call'["event"].at = "dispatch" /\ call'["main"] = call["main"]
          /\ call'["event"].served = call["event"].served
          /\ call'["event"].due = call["event"].due
      BY <1>0, <2>6 DEF DispatchCommand, Calls, TypeInv
    <3> QED BY <2>3, <3>1, EventKept DEF Places
  <2>7. CASE DispatchData("event")
    <3>1. call' = [call EXCEPT !["event"].at = "leave", !["event"].context.data = DataPort]
      BY <2>2, <2>7 DEF DispatchData, At
    <3>2. /\ call'["event"].at = "leave" /\ call'["main"] = call["main"]
          /\ call'["event"].served = call["event"].served
          /\ call'["event"].due = call["event"].due
      BY <1>0, <3>1 DEF Calls, TypeInv
    <3> QED BY <2>3, <3>2, EventKept DEF Places
  <2>8. CASE GetCommand("event")
    <3>1. /\ call'["event"].at = "getData" /\ call'["main"] = call["main"]
          /\ call'["event"].served = call["event"].served
          /\ call'["event"].due = call["event"].due
      BY <1>0, <2>8 DEF GetCommand, Calls, TypeInv
    <3> QED BY <2>3, <3>1, EventKept DEF Places
  <2>9. CASE GetData("event")
    <3>1. /\ call'["event"].at = "done" /\ call'["main"] = call["main"]
          /\ call'["event"].served = call["event"].served
          /\ call'["event"].due = call["event"].due
      BY <1>0, <2>9 DEF GetData, Calls, TypeInv
    <3> QED BY <2>3, <3>1, EventKept DEF Places
  <2> QED
    BY <1>12, <2>1, <2>4, <2>5, <2>6, <2>7, <2>8, <2>9
       DEF Step, Walk, HandlerReturns, At
<1>13. ASSUME NEW a \in Actor, Drivers(a), UNCHANGED <<CommandPort, call>>
       PROVE  WalkInv' /\ ServeInv'
  <2>1. call["main"].at \in {"idle", "handler"}
    BY <1>13 DEF Drivers, At, WalkInv, Actor
  <2>2. WalkInv'
    BY <1>13, <2>1 DEF WalkInv
  <2>3. ServeInv'
    BY <1>13, <2>1 DEF ServeInv, Left
  <2> QED BY <2>2, <2>3
<1>14. CASE UNCHANGED vars
  <2>1. call["event"].at \notin {"walk", "handler"} /\ call["event"].served = 0 /\ ~call["event"].due
    BY DEF WalkInv, ServeInv
  <2> QED BY <1>14, <2>1, MainKept DEF vars
<1>15. CASE Next
  <2>1. \A a \in Actor : UnRegister(a) => Drivers(a) /\ UNCHANGED <<CommandPort, call>>
    BY DEF UnRegister
  <2>2. \A a \in Actor, asked \in (0 .. MaximumSwi) \cup {Choose} :
          Register(a, asked) => Drivers(a) /\ UNCHANGED <<CommandPort, call>>
    BY DEF Register
  <2> QED
    BY <1>15, <2>1, <2>2, <1>1, <1>2, <1>3, <1>4, <1>5, <1>6, <1>8, <1>9, <1>10, <1>11, <1>12, <1>13
       DEF Next, Step, Actor
<1> QED BY <1>14, <1>15

LEMMA ServedAlways ==
    ASSUME EventCommand = {Null}, EventData = {Null}
    PROVE  Spec => [](WalkIsLive /\ ServedUnlessDisturbed)
<1>1. Init => IdsUnique /\ PortInv /\ WalkInv /\ ServeInv
  <2>1. Init => IdsUnique
    BY DEF Init, IdsUnique
  <2>2. Init => PortInv
    BY DEF Init, PortInv, OwnPorts, Idle, NoPorts, Actor
  <2>3. Init => WalkInv /\ ServeInv
    BY DEF Init, WalkInv, ServeInv, Left, Idle, Actor
  <2> QED BY <2>1, <2>2, <2>3
<1>2. TypeInv /\ PortInv /\ [Next]_vars => PortInv'
  BY PortsNext
<1>3. TypeInv /\ IdsUnique /\ PortInv /\ WalkInv /\ ServeInv /\ [Next]_vars
        => WalkInv' /\ ServeInv'
  BY ServeNext
<1>4. WalkInv => WalkIsLive
  BY DEF WalkInv, WalkIsLive, Registered, Actor
<1>5. WalkInv /\ ServeInv => ServedUnlessDisturbed
  BY DEF ServeInv, ServedUnlessDisturbed, Left, Actor
<1> QED
  BY <1>1, <1>2, <1>3, <1>4, <1>5, IdsNext, TypeAlways, PTL DEF Spec

(* As long as notifications activate SMIs without a command, the           *)
(* dispatcher (WinNtSmmChildDispatcherSmm.c, the walk over the list) only  *)
(* ever stands on a record that is registered, though the handler it calls *)
(* may unregister itself or others, for any number of records.             *)
THEOREM WalkStaysLive ==
    ASSUME EventCommand = {Null}, EventData = {Null}
    PROVE  Spec => []WalkIsLive
BY ServedAlways, PTL

(* Under the same condition a call between whose steps no notification     *)
(* came runs exactly one handler if its command was registered, and none   *)
(* if not (WinNtSmmCoreDispatcher, and the ports it reads).                *)
THEOREM ServedCorrect ==
    ASSUME EventCommand = {Null}, EventData = {Null}
    PROVE  Spec => []ServedUnlessDisturbed
BY ServedAlways, PTL
=============================================================================
