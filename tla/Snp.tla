-------------------------------- MODULE Snp --------------------------------
(***************************************************************************)
(* The network driver (SnpNt32Dxe): one Simple Network protocol for every  *)
(* interface of the host, over a library loaded into the emulator.         *)
(*                                                                         *)
(* A transmitted buffer belongs to the driver until GetStatus gives it     *)
(* back.  The buffers to give back wait in one array for all interfaces.   *)
(* The lock is held during the calls of the library only: it raises the    *)
(* TPL to CALLBACK, so these are one step.  The array is used outside it.  *)
(***************************************************************************)
EXTENDS Integers, FiniteSets

CONSTANTS
    Interface,                  \* the host's interfaces
    Buffer,                     \* the client's transmit buffers
    SNP_TX_BUFFER_INCREASEMENT,
    SNP_MAX_TX_BUFFER_NUM,
    FilterBit,                  \* EFI_SIMPLE_NETWORK_RECEIVE_*
    Frame,                      \* what the network may bring: frames of sizes
    InitialMax,                 \* MaxRecycledTxBuf to begin with
    Preempts,                   \* a notification may call in the middle of a
                                \* call of main: no client raises the TPL
    Null

ASSUME SizeAssumption ==
    /\ InitialMax \in Nat \ {0} /\ SNP_TX_BUFFER_INCREASEMENT \in Nat \ {0}
    /\ SNP_MAX_TX_BUFFER_NUM \in Nat /\ Frame \subseteq Nat \ {0}
ASSUME NullAssumption == Null \notin Buffer /\ Preempts \in BOOLEAN

VARIABLES
    stage,            \* how far the driver's entry point or Unload is
    thunk,            \* WinNtThunk has been located
    library,          \* NetworkLibraryHandle: "none", "loaded" or "freed"
    Finalize,         \* the entry of that name in NtNetUtilityTable is set
    netInit,          \* the library's Initialize has succeeded
    InstanceList,     \* the interfaces in the list
    installed,        \* the interfaces whose protocol is installed
    RecycledTxBuf, RecycledTxBufCount, MaxRecycledTxBuf,
    call,             \* the Transmit or GetStatus of each actor
    filter,           \* the receive filter of each interface in the library
    frame,            \* the size of the frame that waits there, or 0
    outstanding,      \* the buffers that the client waits for
    forgotten         \* those that were transmitted and not put into the array
driverVars == <<stage, thunk, library, Finalize, netInit, InstanceList, installed>>
arrayVars == <<RecycledTxBuf, RecycledTxBufCount, MaxRecycledTxBuf>>
receiveVars == <<filter, frame>>
vars == <<driverVars, arrayVars, receiveVars, call, outstanding, forgotten>>

Actor == {"main", "event"}
Idle == [at |-> "idle", buffer |-> Null, copy |-> <<>>]

(* The memory of an array with nothing in it yet.                          *)
Fresh(max) == [i \in 0 .. max - 1 |-> Null]

Init ==
    /\ stage = "out" /\ thunk = FALSE /\ library = "none" /\ Finalize = FALSE /\ netInit = FALSE
    /\ InstanceList = {} /\ installed = {}
    /\ RecycledTxBuf = Fresh(InitialMax) /\ RecycledTxBufCount = 0 /\ MaxRecycledTxBuf = InitialMax
    /\ filter = [i \in Interface |-> {}] /\ frame = [i \in Interface |-> 0]
    /\ call = [a \in Actor |-> Idle]
    /\ outstanding = {} /\ forgotten = {}

----------------------------------------------------------------------------
(* Transmit: the frame leaves first; then its buffer is stored and counted *)
(* where there is room, else the array grows without it.  Once the array   *)
(* may not grow, a frame that has left is reported as not ready.  (In the  *)
(* variants with a fault the array takes one buffer too many, and its last *)
(* one is not copied.)                                                     *)
Runs(a) ==
    IF a = "main" THEN call["event"] = Idle ELSE Preempts \/ call["main"] = Idle
At(a, where) == Runs(a) /\ call[a].at = where
Goes(a, where) == call' = [call EXCEPT ![a].at = where]
Returns(a) == call' = [call EXCEPT ![a] = Idle]

FullLate == RecycledTxBufCount > MaxRecycledTxBuf
Full == RecycledTxBufCount >= MaxRecycledTxBuf
Limit == MaxRecycledTxBuf + SNP_TX_BUFFER_INCREASEMENT >= SNP_MAX_TX_BUFFER_NUM

Transmit(a, i, b) ==
    /\ At(a, "idle") /\ i \in installed /\ b \notin outstanding
    /\ call' = [call EXCEPT ![a] = [at |-> "sent", buffer |-> b, copy |-> <<>>]]
    /\ outstanding' = outstanding \cup {b}
    /\ UNCHANGED <<driverVars, arrayVars, forgotten>>

Forget(a) == forgotten' = forgotten \cup {call[a].buffer}

Sent(a) ==
    /\ At(a, "sent")
    /\ \/ Limit /\ Returns(a) /\ Forget(a)
       \/ ~Limit /\ ~Full /\ Goes(a, "store") /\ UNCHANGED forgotten
       \/ ~Limit /\ Full /\ Goes(a, "grow") /\ Forget(a)
       \/ ~Limit /\ Full /\ Returns(a) /\ Forget(a)     \* AllocatePool fails
    /\ UNCHANGED <<driverVars, arrayVars, outstanding>>

Stored(array, i, b) == [k \in DOMAIN array \cup {i} |-> IF k = i THEN b ELSE array[k]]
Store(a) ==
    /\ At(a, "store") /\ Goes(a, "count")
    /\ RecycledTxBuf' = Stored(RecycledTxBuf, RecycledTxBufCount, call[a].buffer)
    /\ UNCHANGED <<driverVars, RecycledTxBufCount, MaxRecycledTxBuf, outstanding, forgotten>>
Count(a) ==
    /\ At(a, "count") /\ Returns(a)
    /\ RecycledTxBufCount' = RecycledTxBufCount + 1
    /\ UNCHANGED <<driverVars, RecycledTxBuf, MaxRecycledTxBuf, outstanding, forgotten>>

CopiedLess(count) ==
    [k \in 0 .. MaxRecycledTxBuf + SNP_TX_BUFFER_INCREASEMENT - 1 |->
        IF k < count - 1 THEN RecycledTxBuf[k] ELSE Null]
Copied(count) ==
    [k \in 0 .. MaxRecycledTxBuf + SNP_TX_BUFFER_INCREASEMENT - 1 |->
        IF k < count THEN RecycledTxBuf[k] ELSE Null]
Grow(a) ==
    /\ At(a, "grow")
    /\ call' = [call EXCEPT ![a] = [at |-> "swap", buffer |-> Null,
                                    copy |-> Copied(RecycledTxBufCount)]]
    /\ UNCHANGED <<driverVars, arrayVars, outstanding, forgotten>>
Swap(a) ==
    /\ At(a, "swap") /\ Goes(a, "enlarge")
    /\ RecycledTxBuf' = call[a].copy
    /\ UNCHANGED <<driverVars, RecycledTxBufCount, MaxRecycledTxBuf, outstanding, forgotten>>
Enlarge(a) ==
    /\ At(a, "enlarge") /\ Returns(a)
    /\ MaxRecycledTxBuf' = MaxRecycledTxBuf + SNP_TX_BUFFER_INCREASEMENT
    /\ UNCHANGED <<driverVars, RecycledTxBuf, RecycledTxBufCount, outstanding, forgotten>>

(* GetStatus takes the last buffer stored, whichever interface sent it.    *)
GetStatus(a) ==
    /\ At(a, "idle") /\ installed # {} /\ RecycledTxBufCount # 0 /\ Goes(a, "take")
    /\ UNCHANGED <<driverVars, arrayVars, outstanding, forgotten>>
Take(a) ==
    /\ At(a, "take") /\ Goes(a, "read")
    /\ RecycledTxBufCount' = RecycledTxBufCount - 1
    /\ UNCHANGED <<driverVars, RecycledTxBuf, MaxRecycledTxBuf, outstanding, forgotten>>
Read(a) ==
    /\ At(a, "read") /\ Returns(a)
    /\ RecycledTxBufCount \in DOMAIN RecycledTxBuf
    /\ outstanding' = outstanding \ {RecycledTxBuf[RecycledTxBufCount]}
    /\ UNCHANGED <<driverVars, arrayVars, forgotten>>

Calls(a) ==
    \/ \E i \in Interface, b \in Buffer : Transmit(a, i, b)
    \/ Sent(a) \/ Store(a) \/ Count(a) \/ Grow(a) \/ Swap(a) \/ Enlarge(a)
    \/ GetStatus(a) \/ Take(a) \/ Read(a)

----------------------------------------------------------------------------
(* The calls that do not touch the array are one step: with their lock in  *)
(* the way nobody interrupts.  The driver binding manages the handles of   *)
(* its list and does nothing to them; the calls that take an interface     *)
(* through its states do nothing either: the buffers in the array stay     *)
(* there over a Shutdown and a Stop.                                       *)
BindingSupported(i) == i \in InstanceList
Bind(i) == BindingSupported(i) /\ UNCHANGED vars   \* and its Stop
Called(a, i) == At(a, "idle") /\ i \in installed
ChangeState(a, i) == Called(a, i) /\ UNCHANGED vars
Unsupported(a, i) == Called(a, i) /\ UNCHANGED vars
NoStatus(a, i) == Called(a, i) /\ RecycledTxBufCount = 0 /\ UNCHANGED vars

(* ReceiveFilters gives the library the bits to enable, and that is the    *)
(* filter: what DisableBits and ResetMcastFilter say is lost.  The library *)
(* may refuse.                                                             *)
ReceiveFilters(a, i, EnableBits) ==
    /\ Called(a, i)
    /\ filter' \in {filter, [filter EXCEPT ![i] = EnableBits]}
    /\ UNCHANGED <<driverVars, arrayVars, frame, call, outstanding, forgotten>>

(* Receive takes a frame that fits the buffer, and tells the other ones'   *)
(* size; the library may fail.                                             *)
Receive(a, i, BufSize) ==
    /\ Called(a, i)
    /\ frame' \in {frame} \cup (IF frame[i] <= BufSize THEN {[frame EXCEPT ![i] = 0]} ELSE {})
    /\ UNCHANGED <<driverVars, arrayVars, filter, call, outstanding, forgotten>>

Arrives(i, n) ==
    /\ i \in installed /\ filter[i] # {} /\ frame[i] = 0
    /\ frame' = [frame EXCEPT ![i] = n]
    /\ UNCHANGED <<driverVars, arrayVars, filter, call, outstanding, forgotten>>

OtherCalls(i) ==
    \/ Bind(i) \/ \E n \in Frame : Arrives(i, n)
    \/ \E a \in Actor :
         \/ ChangeState(a, i) \/ Unsupported(a, i) \/ NoStatus(a, i)
         \/ \E EnableBits \in SUBSET FilterBit : ReceiveFilters(a, i, EnableBits)
         \/ \E BufSize \in Frame : Receive(a, i, BufSize)

----------------------------------------------------------------------------
(* The entry point, SnpNt32InitializeGlobalData, one step of it after the  *)
(* other; the array is allocated before.  A step that fails before the     *)
(* library is loaded leads to Unload at once, a later one by ErrorReturn.  *)
Quiet == \A a \in Actor : call[a] = Idle
Kept == UNCHANGED <<arrayVars, receiveVars, call, outstanding, forgotten>>

LocateThunk ==
    /\ stage = "out" /\ UNCHANGED <<library, Finalize, netInit, InstanceList, installed>>
    /\ \/ stage' = "thunk" /\ thunk' = TRUE
       \/ stage' = "unload" /\ UNCHANGED thunk   \* also when the array is not allocated

LoadNetLibrary ==
    /\ stage = "thunk" /\ UNCHANGED <<thunk, Finalize, netInit, InstanceList, installed>>
    /\ \/ stage' = "library" /\ library' = "loaded"
       \/ stage' = "unload" /\ UNCHANGED library

(* Five addresses: Initialize and Finalize first.                          *)
FillTable ==
    /\ stage = "library" /\ UNCHANGED <<thunk, library, netInit, InstanceList, installed>>
    /\ \/ stage' = "table" /\ Finalize' = TRUE
       \/ stage' = "error" /\ Finalize' \in BOOLEAN

InitializeLibrary ==
    /\ stage = "table" /\ UNCHANGED <<thunk, library, Finalize, InstanceList, installed>>
    /\ \/ stage' = "instances" /\ netInit' = TRUE
       \/ stage' = "error" /\ netInit' \in BOOLEAN   \* it fails, or finds no interface

(* An interface is installed and put into the list, or all are closed.     *)
InitializeInstance ==
    /\ stage = "instances" /\ Quiet
    /\ \/ \E i \in Interface \ InstanceList :
            /\ InstanceList' = InstanceList \cup {i} /\ installed' = installed \cup {i}
            /\ stage' \in {"instances", "up"}
       \/ stage' = "error" /\ UNCHANGED <<InstanceList, installed>>
    /\ UNCHANGED <<thunk, library, Finalize, netInit>>

(* A variant with a fault takes an interface off the list only.            *)
CloseInstanceLeft(i) == InstanceList' = InstanceList \ {i} /\ UNCHANGED installed
CloseInstance(i) == InstanceList' = InstanceList \ {i} /\ installed' = installed \ {i}

ErrorReturn ==
    /\ stage = "error" /\ Quiet
    /\ IF InstanceList # {}
       THEN (\E i \in InstanceList : CloseInstance(i)) /\ UNCHANGED <<stage, Finalize, netInit>>
       ELSE /\ stage' = "unload" /\ netInit' = FALSE
            /\ Finalize' = (Finalize /\ ~netInit)
            /\ UNCHANGED <<InstanceList, installed>>
    /\ UNCHANGED <<thunk, library>>

(* Unload disconnects the driver first, which a user of an interface can   *)
(* refuse.  A failed entry point goes the same way, whatever is missing:   *)
(* without WinNtThunk its last call goes through a null pointer.           *)
Unload ==
    /\ stage = "up" /\ Quiet /\ stage' = "unload"
    /\ UNCHANGED <<thunk, library, Finalize, netInit, InstanceList, installed>>

Unloading ==
    /\ stage = "unload" /\ Quiet
    /\ IF InstanceList # {}
       THEN (\E i \in InstanceList : CloseInstance(i)) /\ UNCHANGED <<stage, library, netInit>>
       ELSE /\ netInit' = (netInit /\ ~Finalize)
            /\ IF thunk THEN stage' = "gone" /\ library' = IF library = "loaded" THEN "freed" ELSE library
               ELSE stage' = "crashed" /\ UNCHANGED library
            /\ UNCHANGED <<InstanceList, installed>>
    /\ UNCHANGED <<thunk, Finalize>>

Driver ==
    /\ LocateThunk \/ LoadNetLibrary \/ FillTable \/ InitializeLibrary \/ InitializeInstance
         \/ ErrorReturn \/ Unload \/ Unloading
    /\ Kept

Next ==
    \/ Driver
    \/ \E a \in Actor : Calls(a) /\ UNCHANGED receiveVars
    \/ \E i \in Interface : OtherCalls(i)
Spec == Init /\ [][Next]_vars

----------------------------------------------------------------------------
(* Types; and the array is never written or read outside its memory.       *)
TypeOK ==
    /\ MaxRecycledTxBuf \in Nat /\ RecycledTxBufCount \in 0 .. MaxRecycledTxBuf
    /\ DOMAIN RecycledTxBuf \in {0 .. MaxRecycledTxBuf - 1,
                                 0 .. MaxRecycledTxBuf + SNP_TX_BUFFER_INCREASEMENT - 1}
    /\ outstanding \subseteq Buffer /\ forgotten \subseteq Buffer
    /\ filter \in [Interface -> SUBSET FilterBit] /\ frame \in [Interface -> Frame \cup {0}]
    /\ installed \subseteq Interface /\ InstanceList \subseteq Interface

(* The buffers that Transmit or GetStatus have in hand.                    *)
InHand(a) ==
    CASE call[a].at \in {"sent", "store", "count"} -> {call[a].buffer}
      [] call[a].at = "read" -> {RecycledTxBuf[RecycledTxBufCount]}
      [] OTHER -> {}
Waiting == {RecycledTxBuf[k] : k \in 0 .. RecycledTxBufCount - 1}

(* GetStatus gives every transmitted buffer back, and once: the buffers a  *)
(* client waits for are in the array, each in one slot, or in a call's     *)
(* hand, but for those that Transmit forgot when the array was full or as  *)
(* large as it gets.                                                       *)
RecycleIsExact ==
    /\ outstanding = Waiting \cup InHand("main") \cup InHand("event") \cup forgotten
    /\ Waiting \cap (InHand("main") \cup InHand("event") \cup forgotten) = {}
    /\ \A j, k \in 0 .. RecycledTxBufCount - 1 : RecycledTxBuf[j] = RecycledTxBuf[k] => j = k

(* An interface that can be called is in the driver's list, and the        *)
(* library behind it is loaded and initialised, whatever step of the entry *)
(* point fails and while Unload takes them down; in the end no interface   *)
(* is left, and the library is finalised and not loaded any more.          *)
InterfacesAreServed ==
    /\ installed = InstanceList
    /\ installed # {} => library = "loaded" /\ netInit /\ Finalize
    /\ stage = "gone" => installed = {} /\ library # "loaded" /\ ~netInit

(* What SnpNt32.h says of RecycledTxBufCount: so many buffers of clients   *)
(* are in the array.                                                       *)
CountIsTrue == Quiet => Cardinality(Waiting \ {Null}) = RecycledTxBufCount
=============================================================================
