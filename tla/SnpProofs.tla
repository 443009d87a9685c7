------------------------------ MODULE SnpProofs ------------------------------
(***************************************************************************)
(* What Snp keeps for every number of interfaces, buffers and slots of the *)
(* array.                                                                  *)
(***************************************************************************)
EXTENDS Snp, TLAPS

Stages == {"out", "thunk", "library", "table", "instances", "up", "error",
           "unload", "gone", "crashed"}

(* Where the entry point is when the library is there, initialised, and    *)
(* can be finalised again.                                                 *)
DriverInv ==
    /\ stage \in Stages /\ netInit \in BOOLEAN /\ Finalize \in BOOLEAN
    /\ netInit => Finalize
    /\ stage \in {"library", "table", "instances", "up"} => library = "loaded"
    /\ stage \in {"out", "thunk", "library", "table"} => ~netInit
    /\ stage = "table" => Finalize
    /\ stage \in {"instances", "up"} => netInit
    /\ InterfacesAreServed

LEMMA DriverStep == DriverInv /\ [Next]_vars => DriverInv'
<1> SUFFICES ASSUME DriverInv, [Next]_vars PROVE DriverInv'
  OBVIOUS
<1> USE DEF DriverInv, InterfacesAreServed, Stages
<1>1. CASE UNCHANGED driverVars
  BY <1>1 DEF driverVars
<1>2. CASE LocateThunk
  BY <1>2 DEF LocateThunk
<1>3. CASE LoadNetLibrary
  BY <1>3 DEF LoadNetLibrary
<1>4. CASE FillTable
  BY <1>4 DEF FillTable
<1>5. CASE InitializeLibrary
  BY <1>5 DEF InitializeLibrary
<1>6. CASE InitializeInstance
  BY <1>6 DEF InitializeInstance
<1>7. CASE ErrorReturn
  BY <1>7 DEF ErrorReturn, CloseInstance
<1>8. CASE Unload
  BY <1>8 DEF Unload
<1>9. CASE Unloading
  BY <1>9 DEF Unloading, CloseInstance
<1>10. CASE \E a \in Actor : Calls(a)
  <2>1. UNCHANGED driverVars
    BY <1>10 DEF Calls, Transmit, Sent, Store, Count, Grow, Swap, Enlarge, GetStatus, Take, Read
  <2> QED BY <2>1, <1>1
<1>11. CASE \E i \in Interface : OtherCalls(i)
  <2>1. UNCHANGED driverVars
    BY <1>11 DEF OtherCalls, Bind, Arrives, ChangeState, Unsupported, NoStatus,
         ReceiveFilters, Receive, vars
  <2> QED BY <2>1, <1>1
<1>12. CASE UNCHANGED vars
  BY <1>12, <1>1 DEF vars
<1> QED
  BY <1>2, <1>3, <1>4, <1>5, <1>6, <1>7, <1>8, <1>9, <1>10, <1>11, <1>12 DEF Next, Driver

(* Whatever step of SnpNt32InitializeGlobalData fails, and while           *)
(* SnpNt32Unload takes them down: an interface that can be called is in    *)
(* the list and has an initialised library behind it.                      *)
THEOREM InterfacesCorrect == Spec => []InterfacesAreServed
<1>1. Init => DriverInv
  BY DEF Init, DriverInv, InterfacesAreServed, Stages
<1>2. DriverInv => InterfacesAreServed
  BY DEF DriverInv
<1> QED
  BY <1>1, <1>2, DriverStep, PTL DEF Spec

----------------------------------------------------------------------------
(* One call at a time: without preemption a call runs while the other      *)
(* actor has none.                                                         *)
Places == {"idle", "sent", "store", "count", "grow", "swap", "enlarge", "take", "read"}

Alone(a) == \A b \in Actor \ {a} : call[b] = Idle

CallType ==
    /\ call = [b \in Actor |-> call[b]]
    /\ \A b \in Actor :
         /\ call[b].at \in Places
         /\ call[b] = [at |-> call[b].at, buffer |-> call[b].buffer, copy |-> call[b].copy]

ArrayType ==
    /\ MaxRecycledTxBuf \in Nat /\ RecycledTxBufCount \in 0 .. MaxRecycledTxBuf
    /\ 0 .. RecycledTxBufCount - 1 \subseteq DOMAIN RecycledTxBuf

(* What a call has seen of the array and done to it.                       *)
Place(a) ==
    /\ call[a].at \in {"store", "count", "read"} =>
         RecycledTxBufCount < MaxRecycledTxBuf
    /\ call[a].at = "count" =>
         /\ RecycledTxBufCount \in DOMAIN RecycledTxBuf
         /\ RecycledTxBuf[RecycledTxBufCount] = call[a].buffer
    /\ call[a].at = "swap" => call[a].copy = Copied(RecycledTxBufCount)
    /\ call[a].at = "take" => RecycledTxBufCount # 0
    /\ call[a].at = "read" => RecycledTxBufCount \in DOMAIN RecycledTxBuf

(* RecycleIsExact, as the only call sees it.                               *)
Exact(a) ==
    /\ outstanding = Waiting \cup InHand(a) \cup forgotten
    /\ Waiting \cap (InHand(a) \cup forgotten) = {} /\ InHand(a) \cap forgotten = {}
    /\ \A j, k \in 0 .. RecycledTxBufCount - 1 : RecycledTxBuf[j] = RecycledTxBuf[k] => j = k

RecycleInvOf(a) == CallType /\ ArrayType /\ Alone(a) /\ Place(a) /\ Exact(a)
RecycleInv == \E a \in Actor : RecycleInvOf(a)

LEMMA IdleHandIsEmpty == ASSUME NEW a, call[a] = Idle PROVE InHand(a) = {}
BY DEF InHand, Idle

(* The inv of one actor's call is the property of both.                    *)
LEMMA RecycleInvIsExact == RecycleInv => RecycleIsExact
<1> SUFFICES ASSUME NEW a \in Actor, RecycleInvOf(a) PROVE RecycleIsExact
  BY DEF RecycleInv
<1>1. InHand("main") \cup InHand("event") = InHand(a)
  <2>1. CASE a = "main"
    <3>1. InHand("event") = {}
      BY <2>1, IdleHandIsEmpty DEF RecycleInvOf, Alone, Actor
    <3> QED BY <3>1, <2>1
  <2>2. CASE a = "event"
    <3>1. InHand("main") = {}
      BY <2>2, IdleHandIsEmpty DEF RecycleInvOf, Alone, Actor
    <3> QED BY <3>1, <2>2
  <2> QED BY <2>1, <2>2 DEF Actor
<1>2. Exact(a)
  BY DEF RecycleInvOf
<1> HIDE DEF InHand, Waiting
<1> QED
  BY <1>1, <1>2 DEF Exact, RecycleIsExact

(* The actor that runs is the one that may have a call.                    *)
LEMMA RunnerIsAlone ==
    ASSUME ~Preempts, RecycleInv, NEW a \in Actor, Runs(a)
    PROVE  RecycleInvOf(a)
<1>1. PICK b \in Actor : RecycleInvOf(b)
  BY DEF RecycleInv
<1>2. CASE a = b
  BY <1>1, <1>2
<1>3. CASE a # b
  <2>1. call[a] = Idle /\ call[b] = Idle /\ Alone(a)
    BY <1>1, <1>3 DEF RecycleInvOf, Alone, Runs, Actor
  <2>2. InHand(a) = {} /\ InHand(b) = {}
    BY <2>1, IdleHandIsEmpty
  <2>3. Exact(a)
    BY <1>1, <2>2 DEF RecycleInvOf, Exact
  <2>4. Place(a)
    BY <2>1 DEF Place, Idle
  <2> QED BY <1>1, <2>1, <2>3, <2>4 DEF RecycleInvOf
<1> QED BY <1>2, <1>3

(* A step of a call changes its own record.                                *)
LEMMA CallChanges ==
    ASSUME NEW a \in Actor, CallType, NEW where \in Places, NEW b, NEW c,
           call' = [call EXCEPT ![a] = [at |-> where, buffer |-> b, copy |-> c]]
    PROVE  /\ CallType'
           /\ call'[a] = [at |-> where, buffer |-> b, copy |-> c]
           /\ \A d \in Actor \ {a} : call'[d] = call[d]
<1> DEFINE r == [at |-> where, buffer |-> b, copy |-> c]
<1> HIDE DEF r
<1>1. call' = [d \in Actor |-> IF d = a THEN r ELSE call[d]]
  BY DEF CallType, r
<1>2. \A d \in Actor : call'[d] = IF d = a THEN r ELSE call[d]
  BY <1>1
<1>3. r.at = where /\ r.buffer = b /\ r.copy = c /\ r = [at |-> where, buffer |-> b, copy |-> c]
  BY DEF r
<1>4. CallType'
  <2>1. call' = [d \in Actor |-> call'[d]]
    BY <1>1, <1>2
  <2>2. ASSUME NEW d \in Actor
        PROVE  /\ call'[d].at \in Places
               /\ call'[d] = [at |-> call'[d].at, buffer |-> call'[d].buffer, copy |-> call'[d].copy]
    <3>1. CASE d = a
      BY <3>1, <1>2, <1>3
    <3>2. CASE d # a
      BY <3>2, <1>2 DEF CallType
    <3> QED BY <3>1, <3>2
  <2> QED BY <2>1, <2>2 DEF CallType
<1> QED
  BY <1>2, <1>3, <1>4

LEMMA CallGoes ==
    ASSUME NEW a \in Actor, CallType, NEW where \in Places, Goes(a, where)
    PROVE  /\ CallType'
           /\ call'[a] = [at |-> where, buffer |-> call[a].buffer, copy |-> call[a].copy]
           /\ \A d \in Actor \ {a} : call'[d] = call[d]
<1>1. [call[a] EXCEPT !.at = where] = [at |-> where, buffer |-> call[a].buffer, copy |-> call[a].copy]
  <2>1. call[a] = [at |-> call[a].at, buffer |-> call[a].buffer, copy |-> call[a].copy]
    BY DEF CallType
  <2> QED BY <2>1
<1>2. call' = [call EXCEPT ![a] = [at |-> where, buffer |-> call[a].buffer, copy |-> call[a].copy]]
  BY <1>1 DEF Goes
<1> QED BY <1>2, CallChanges

LEMMA CallReturns ==
    ASSUME NEW a \in Actor, CallType, Returns(a)
    PROVE  CallType' /\ call'[a] = Idle /\ \A d \in Actor \ {a} : call'[d] = call[d]
<1>1. call' = [call EXCEPT ![a] = [at |-> "idle", buffer |-> Null, copy |-> <<>>]]
  BY DEF Returns, Idle
<1>2. "idle" \in Places
  BY DEF Places
<1>3. /\ CallType'
      /\ call'[a] = [at |-> "idle", buffer |-> Null, copy |-> <<>>]
      /\ \A d \in Actor \ {a} : call'[d] = call[d]
  BY <1>1, <1>2, CallChanges
<1> QED BY <1>3 DEF Idle

LEMMA TransmitStep ==
    ASSUME NEW a \in Actor, NEW i, NEW b \in Buffer, RecycleInvOf(a), Transmit(a, i, b)
    PROVE  RecycleInvOf(a)'
<1>1. call' = [call EXCEPT ![a] = [at |-> "sent", buffer |-> b, copy |-> <<>>]]
  BY DEF Transmit
<1>2. CallType' /\ Alone(a)' /\ call'[a] = [at |-> "sent", buffer |-> b, copy |-> <<>>]
  <2>1. "sent" \in Places /\ CallType
    BY DEF Places, RecycleInvOf
  <2>2. /\ CallType'
        /\ call'[a] = [at |-> "sent", buffer |-> b, copy |-> <<>>]
        /\ \A d \in Actor \ {a} : call'[d] = call[d]
    BY <1>1, <2>1, CallChanges
  <2> QED BY <2>2 DEF RecycleInvOf, Alone
<1>3. InHand(a) = {} /\ InHand(a)' = {b}
  BY <1>2 DEF Transmit, At, InHand
<1>4. ArrayType' /\ Waiting' = Waiting
  BY DEF RecycleInvOf, ArrayType, Transmit, arrayVars, Waiting
<1>5. Exact(a)'
  <2>1. b \notin outstanding /\ outstanding' = outstanding \cup {b} /\ UNCHANGED <<arrayVars, forgotten>>
    BY DEF Transmit
  <2> HIDE DEF InHand, Waiting
  <2> QED BY <2>1, <1>3, <1>4 DEF RecycleInvOf, Exact, arrayVars
<1>6. Place(a)'
  BY <1>2 DEF Place
<1> QED BY <1>2, <1>4, <1>5, <1>6 DEF RecycleInvOf

LEMMA SentStep ==
    ASSUME NEW a \in Actor, RecycleInvOf(a), Sent(a)
    PROVE  RecycleInvOf(a)'
<1>1. UNCHANGED <<arrayVars, outstanding>>
  BY DEF Sent
<1>2. ArrayType' /\ Waiting' = Waiting
  BY <1>1 DEF RecycleInvOf, ArrayType, arrayVars, Waiting
<1>3. InHand(a) = {call[a].buffer}
  BY DEF Sent, At, InHand
<1>4. CASE Returns(a) /\ Forget(a)
  <2>1. CallType' /\ Alone(a)' /\ call'[a] = Idle
    BY <1>4, CallReturns DEF RecycleInvOf, Alone
  <2>2. InHand(a)' = {} /\ Place(a)'
    BY <2>1 DEF InHand, Place, Idle
  <2>3. Exact(a)'
    BY <1>1, <1>2, <1>3, <1>4, <2>2 DEF RecycleInvOf, Exact, Forget, arrayVars
  <2> QED BY <1>2, <2>1, <2>2, <2>3 DEF RecycleInvOf
<1>5. CASE ~Full /\ Goes(a, "store") /\ UNCHANGED forgotten
  <2>1. CallType' /\ Alone(a)'
        /\ call'[a] = [at |-> "store", buffer |-> call[a].buffer, copy |-> call[a].copy]
    BY <1>5, CallGoes DEF RecycleInvOf, Places, Alone, Goes
  <2>2. InHand(a)' = {call[a].buffer}
    BY <2>1 DEF InHand
  <2>3. Place(a)'
    BY <1>1, <1>5, <2>1 DEF Place, Full, RecycleInvOf, ArrayType, arrayVars
  <2>4. Exact(a)'
    BY <1>1, <1>2, <1>3, <1>5, <2>2 DEF RecycleInvOf, Exact, arrayVars
  <2> QED BY <1>2, <2>1, <2>3, <2>4 DEF RecycleInvOf
<1>6. CASE Goes(a, "grow") /\ Forget(a)
  <2>1. CallType' /\ Alone(a)'
        /\ call'[a] = [at |-> "grow", buffer |-> call[a].buffer, copy |-> call[a].copy]
    BY <1>6, CallGoes DEF RecycleInvOf, Places, Alone, Goes
  <2>2. InHand(a)' = {} /\ Place(a)'
    BY <2>1 DEF InHand, Place
  <2>3. Exact(a)'
    BY <1>1, <1>2, <1>3, <1>6, <2>2 DEF RecycleInvOf, Exact, Forget, arrayVars
  <2> QED BY <1>2, <2>1, <2>2, <2>3 DEF RecycleInvOf
<1> QED BY <1>4, <1>5, <1>6 DEF Sent

LEMMA StoreStep ==
    ASSUME NEW a \in Actor, RecycleInvOf(a), Store(a)
    PROVE  RecycleInvOf(a)'
<1>1. /\ CallType' /\ Alone(a)'
      /\ call'[a] = [at |-> "count", buffer |-> call[a].buffer, copy |-> call[a].copy]
  BY CallGoes DEF RecycleInvOf, Places, Alone, Goes, Store
<1>2. RecycledTxBufCount < MaxRecycledTxBuf /\ ArrayType
  BY DEF RecycleInvOf, Place, Store, At
<1>3. /\ RecycledTxBuf' = Stored(RecycledTxBuf, RecycledTxBufCount, call[a].buffer)
      /\ UNCHANGED <<RecycledTxBufCount, MaxRecycledTxBuf, outstanding, forgotten>>
  BY DEF Store
<1>4. /\ DOMAIN RecycledTxBuf' = DOMAIN RecycledTxBuf \cup {RecycledTxBufCount}
      /\ RecycledTxBuf'[RecycledTxBufCount] = call[a].buffer
      /\ \A k \in 0 .. RecycledTxBufCount - 1 : RecycledTxBuf'[k] = RecycledTxBuf[k]
  BY <1>2, <1>3 DEF Stored, ArrayType
<1>5. ArrayType' /\ Waiting' = Waiting
  BY <1>2, <1>3, <1>4 DEF ArrayType, Waiting
<1>6. InHand(a)' = InHand(a)
  BY <1>1 DEF InHand, Store, At
<1>7. Exact(a)'
  <2> HIDE DEF InHand, Waiting
  <2> QED BY <1>3, <1>4, <1>5, <1>6 DEF RecycleInvOf, Exact
<1>8. Place(a)'
  BY <1>1, <1>2, <1>3, <1>4 DEF Place
<1> QED BY <1>1, <1>5, <1>7, <1>8 DEF RecycleInvOf

LEMMA CountStep ==
    ASSUME NEW a \in Actor, RecycleInvOf(a), Count(a)
    PROVE  RecycleInvOf(a)'
<1>1. CallType' /\ Alone(a)' /\ call'[a] = Idle
  BY CallReturns DEF RecycleInvOf, Alone, Count
<1>2. /\ RecycledTxBufCount < MaxRecycledTxBuf /\ ArrayType
      /\ RecycledTxBufCount \in DOMAIN RecycledTxBuf
      /\ RecycledTxBuf[RecycledTxBufCount] = call[a].buffer
  BY DEF RecycleInvOf, Place, Count, At
<1>3. /\ RecycledTxBufCount' = RecycledTxBufCount + 1
      /\ UNCHANGED <<RecycledTxBuf, MaxRecycledTxBuf, outstanding, forgotten>>
  BY DEF Count
<1>4. ArrayType'
  BY <1>2, <1>3 DEF ArrayType
<1>5. 0 .. RecycledTxBufCount' - 1 = (0 .. RecycledTxBufCount - 1) \cup {RecycledTxBufCount}
  BY <1>2, <1>3 DEF ArrayType
<1>6. Waiting' = Waiting \cup {call[a].buffer}
  BY <1>2, <1>3, <1>5 DEF Waiting
<1>7. InHand(a) = {call[a].buffer} /\ InHand(a)' = {} /\ Place(a)'
  BY <1>1 DEF InHand, Count, At, Idle, Place
<1>8. \A k \in 0 .. RecycledTxBufCount - 1 : RecycledTxBuf[k] # RecycledTxBuf[RecycledTxBufCount]
  BY <1>2, <1>7 DEF RecycleInvOf, Exact, Waiting
<1>9. Exact(a)'
  <2> HIDE DEF InHand, Waiting
  <2>1. outstanding' = Waiting' \cup InHand(a)' \cup forgotten'
    BY <1>3, <1>6, <1>7 DEF RecycleInvOf, Exact
  <2>2. Waiting' \cap (InHand(a)' \cup forgotten') = {} /\ InHand(a)' \cap forgotten' = {}
    BY <1>3, <1>6, <1>7 DEF RecycleInvOf, Exact
  <2>3. \A j, k \in 0 .. RecycledTxBufCount' - 1 : RecycledTxBuf'[j] = RecycledTxBuf'[k] => j = k
    BY <1>3, <1>5, <1>8 DEF RecycleInvOf, Exact
  <2> QED BY <2>1, <2>2, <2>3 DEF Exact
<1> QED BY <1>1, <1>4, <1>7, <1>9 DEF RecycleInvOf

LEMMA GrowStep ==
    ASSUME NEW a \in Actor, RecycleInvOf(a), Grow(a)
    PROVE  RecycleInvOf(a)'
<1>1. /\ CallType' /\ Alone(a)'
      /\ call'[a] = [at |-> "swap", buffer |-> Null, copy |-> Copied(RecycledTxBufCount)]
  <2>1. "swap" \in Places /\ CallType
    BY DEF Places, RecycleInvOf
  <2>2. call' = [call EXCEPT ![a] = [at |-> "swap", buffer |-> Null,
                                     copy |-> Copied(RecycledTxBufCount)]]
    BY DEF Grow
  <2>3. /\ CallType'
        /\ call'[a] = [at |-> "swap", buffer |-> Null, copy |-> Copied(RecycledTxBufCount)]
        /\ \A d \in Actor \ {a} : call'[d] = call[d]
    BY <2>1, <2>2, CallChanges
  <2> QED BY <2>3 DEF RecycleInvOf, Alone
<1>2. UNCHANGED <<arrayVars, outstanding, forgotten>>
  BY DEF Grow
<1>3. ArrayType' /\ Waiting' = Waiting
  BY <1>2 DEF RecycleInvOf, ArrayType, Waiting, arrayVars
<1>4. InHand(a) = {} /\ InHand(a)' = {}
  BY <1>1 DEF InHand, Grow, At
<1>5. Exact(a)'
  <2> HIDE DEF InHand, Waiting
  <2> QED BY <1>2, <1>3, <1>4 DEF RecycleInvOf, Exact, arrayVars
<1>6. Place(a)'
  BY <1>1, <1>2 DEF Place, arrayVars, Copied
<1> QED BY <1>1, <1>3, <1>5, <1>6 DEF RecycleInvOf

LEMMA SwapStep ==
    ASSUME NEW a \in Actor, RecycleInvOf(a), Swap(a)
    PROVE  RecycleInvOf(a)'
<1>1. /\ CallType' /\ Alone(a)'
      /\ call'[a] = [at |-> "enlarge", buffer |-> call[a].buffer, copy |-> call[a].copy]
  BY CallGoes DEF RecycleInvOf, Places, Alone, Goes, Swap
<1>2. /\ RecycledTxBuf' = Copied(RecycledTxBufCount)
      /\ UNCHANGED <<RecycledTxBufCount, MaxRecycledTxBuf, outstanding, forgotten>>
  BY DEF Swap, RecycleInvOf, Place, At
<1>3. /\ 0 .. RecycledTxBufCount - 1 \subseteq DOMAIN RecycledTxBuf'
      /\ \A k \in 0 .. RecycledTxBufCount - 1 : RecycledTxBuf'[k] = RecycledTxBuf[k]
  BY <1>2, SizeAssumption DEF Copied, RecycleInvOf, ArrayType
<1>4. ArrayType' /\ Waiting' = Waiting
  BY <1>2, <1>3 DEF RecycleInvOf, ArrayType, Waiting
<1>5. InHand(a) = {} /\ InHand(a)' = {} /\ Place(a)'
  BY <1>1 DEF InHand, Swap, At, Place
<1>6. Exact(a)'
  <2> HIDE DEF InHand, Waiting
  <2> QED BY <1>2, <1>3, <1>4, <1>5 DEF RecycleInvOf, Exact
<1> QED BY <1>1, <1>4, <1>5, <1>6 DEF RecycleInvOf

LEMMA EnlargeStep ==
    ASSUME NEW a \in Actor, RecycleInvOf(a), Enlarge(a)
    PROVE  RecycleInvOf(a)'
<1>1. CallType' /\ Alone(a)' /\ call'[a] = Idle
  BY CallReturns DEF RecycleInvOf, Alone, Enlarge
<1>2. /\ MaxRecycledTxBuf' = MaxRecycledTxBuf + SNP_TX_BUFFER_INCREASEMENT
      /\ UNCHANGED <<RecycledTxBuf, RecycledTxBufCount, outstanding, forgotten>>
  BY DEF Enlarge
<1>3. ArrayType' /\ Waiting' = Waiting
  BY <1>2, SizeAssumption DEF RecycleInvOf, ArrayType, Waiting
<1>4. InHand(a) = {} /\ InHand(a)' = {} /\ Place(a)'
  BY <1>1 DEF InHand, Enlarge, At, Place, Idle
<1>5. Exact(a)'
  <2> HIDE DEF InHand, Waiting
  <2> QED BY <1>2, <1>3, <1>4 DEF RecycleInvOf, Exact
<1> QED BY <1>1, <1>3, <1>4, <1>5 DEF RecycleInvOf

LEMMA GetStatusStep ==
    ASSUME NEW a \in Actor, RecycleInvOf(a), GetStatus(a)
    PROVE  RecycleInvOf(a)'
<1>1. /\ CallType' /\ Alone(a)'
      /\ call'[a] = [at |-> "take", buffer |-> call[a].buffer, copy |-> call[a].copy]
  BY CallGoes DEF RecycleInvOf, Places, Alone, Goes, GetStatus
<1>2. RecycledTxBufCount # 0 /\ UNCHANGED <<arrayVars, outstanding, forgotten>>
  BY DEF GetStatus
<1>3. ArrayType' /\ Waiting' = Waiting
  BY <1>2 DEF RecycleInvOf, ArrayType, Waiting, arrayVars
<1>4. InHand(a) = {} /\ InHand(a)' = {} /\ Place(a)'
  BY <1>1, <1>2 DEF InHand, GetStatus, At, Place, arrayVars
<1>5. Exact(a)'
  <2> HIDE DEF InHand, Waiting
  <2> QED BY <1>2, <1>3, <1>4 DEF RecycleInvOf, Exact, arrayVars
<1> QED BY <1>1, <1>3, <1>4, <1>5 DEF RecycleInvOf

LEMMA TakeStep ==
    ASSUME NEW a \in Actor, RecycleInvOf(a), Take(a)
    PROVE  RecycleInvOf(a)'
<1> DEFINE last == RecycledTxBufCount - 1
<1>1. /\ CallType' /\ Alone(a)'
      /\ call'[a] = [at |-> "read", buffer |-> call[a].buffer, copy |-> call[a].copy]
  BY CallGoes DEF RecycleInvOf, Places, Alone, Goes, Take
<1>2. RecycledTxBufCount # 0 /\ ArrayType
  BY DEF RecycleInvOf, Place, Take, At
<1>3. /\ RecycledTxBufCount' = last
      /\ UNCHANGED <<RecycledTxBuf, MaxRecycledTxBuf, outstanding, forgotten>>
  BY DEF Take
<1>4. last \in Nat /\ 0 .. last = (0 .. last - 1) \cup {last}
  BY <1>2 DEF ArrayType
<1>5. ArrayType' /\ Place(a)'
  BY <1>1, <1>2, <1>3, <1>4 DEF ArrayType, Place
<1>6. Waiting = Waiting' \cup {RecycledTxBuf[last]}
  BY <1>3, <1>4 DEF Waiting
<1>7. InHand(a) = {} /\ InHand(a)' = {RecycledTxBuf[last]}
  BY <1>1, <1>3 DEF InHand, Take, At
<1>8. RecycledTxBuf[last] \notin Waiting'
  BY <1>3, <1>4 DEF RecycleInvOf, Exact, Waiting
<1>9. Exact(a)'
  <2> HIDE DEF InHand, Waiting
  <2>1. outstanding' = Waiting' \cup InHand(a)' \cup forgotten'
    BY <1>3, <1>6, <1>7 DEF RecycleInvOf, Exact
  <2>2. Waiting' \cap (InHand(a)' \cup forgotten') = {} /\ InHand(a)' \cap forgotten' = {}
    BY <1>3, <1>6, <1>7, <1>8 DEF RecycleInvOf, Exact
  <2>3. \A j, k \in 0 .. last - 1 : RecycledTxBuf[j] = RecycledTxBuf[k] => j = k
    BY <1>4 DEF RecycleInvOf, Exact
  <2> QED BY <1>3, <2>1, <2>2, <2>3 DEF Exact
<1> QED BY <1>1, <1>5, <1>9 DEF RecycleInvOf

LEMMA ReadStep ==
    ASSUME NEW a \in Actor, RecycleInvOf(a), Read(a)
    PROVE  RecycleInvOf(a)'
<1>1. CallType' /\ Alone(a)' /\ call'[a] = Idle
  BY CallReturns DEF RecycleInvOf, Alone, Read
<1>2. /\ outstanding' = outstanding \ {RecycledTxBuf[RecycledTxBufCount]}
      /\ UNCHANGED <<arrayVars, forgotten>>
  BY DEF Read
<1>3. ArrayType' /\ Waiting' = Waiting
  BY <1>2 DEF RecycleInvOf, ArrayType, Waiting, arrayVars
<1>4. /\ InHand(a) = {RecycledTxBuf[RecycledTxBufCount]}
      /\ InHand(a)' = {} /\ Place(a)'
  BY <1>1 DEF InHand, Read, At, Place, Idle
<1>5. Exact(a)'
  <2> HIDE DEF InHand, Waiting
  <2> QED BY <1>2, <1>3, <1>4 DEF RecycleInvOf, Exact, arrayVars
<1> QED BY <1>1, <1>3, <1>4, <1>5 DEF RecycleInvOf

----------------------------------------------------------------------------
LEMMA RecycleStep == ~Preempts /\ RecycleInv /\ [Next]_vars => RecycleInv'
<1> SUFFICES ASSUME ~Preempts, RecycleInv, [Next]_vars PROVE RecycleInv'
  OBVIOUS
<1>1. CASE UNCHANGED <<arrayVars, call, outstanding, forgotten>>
  <2>1. PICK a \in Actor : RecycleInvOf(a)
    BY DEF RecycleInv
  <2>2. CallType' /\ ArrayType' /\ Alone(a)' /\ Place(a)'
    BY <1>1, <2>1 DEF RecycleInvOf, CallType, ArrayType, Alone, Place, Copied, arrayVars
  <2>3. Waiting' = Waiting /\ InHand(a)' = InHand(a)
    BY <1>1 DEF Waiting, InHand, arrayVars
  <2>4. Exact(a)'
    <3> HIDE DEF InHand, Waiting
    <3> QED BY <1>1, <2>1, <2>3 DEF RecycleInvOf, Exact, arrayVars
  <2> QED BY <2>2, <2>4 DEF RecycleInv, RecycleInvOf
<1>2. ASSUME NEW a \in Actor, Calls(a) PROVE RecycleInv'
  <2>1. Runs(a)
    BY <1>2 DEF Calls, Transmit, Sent, Store, Count, Grow, Swap, Enlarge, GetStatus, Take, Read, At
  <2>2. RecycleInvOf(a)
    BY <2>1, RunnerIsAlone
  <2>3. RecycleInvOf(a)'
    <3>1. CASE \E i \in Interface, b \in Buffer : Transmit(a, i, b)
      BY <3>1, <2>2, TransmitStep
    <3>2. CASE Sent(a)
      BY <3>2, <2>2, SentStep
    <3>3. CASE Store(a)
      BY <3>3, <2>2, StoreStep
    <3>4. CASE Count(a)
      BY <3>4, <2>2, CountStep
    <3>5. CASE Grow(a)
      BY <3>5, <2>2, GrowStep
    <3>6. CASE Swap(a)
      BY <3>6, <2>2, SwapStep
    <3>7. CASE Enlarge(a)
      BY <3>7, <2>2, EnlargeStep
    <3>8. CASE GetStatus(a)
      BY <3>8, <2>2, GetStatusStep
    <3>9. CASE Take(a)
      BY <3>9, <2>2, TakeStep
    <3>10. CASE Read(a)
      BY <3>10, <2>2, ReadStep
    <3> QED
      BY <1>2, <3>1, <3>2, <3>3, <3>4, <3>5, <3>6, <3>7, <3>8, <3>9, <3>10 DEF Calls
  <2> QED BY <2>3 DEF RecycleInv
<1>3. CASE Driver
  BY <1>3, <1>1 DEF Driver, Kept
<1>4. CASE \E i \in Interface : OtherCalls(i)
  <2>1. UNCHANGED <<arrayVars, call, outstanding, forgotten>>
    BY <1>4 DEF OtherCalls, Bind, Arrives, ChangeState, Unsupported, NoStatus,
         ReceiveFilters, Receive, vars
  <2> QED BY <2>1, <1>1
<1>5. CASE UNCHANGED vars
  BY <1>5, <1>1 DEF vars
<1> QED
  BY <1>2, <1>3, <1>4, <1>5 DEF Next

(* Without preemption, however many buffers, slots and interfaces: what a  *)
(* client waits for is in the array once, in the call's hand, or forgotten *)
(* because there was no room.                                              *)
THEOREM RecycleCorrect ==
    ASSUME ~Preempts
    PROVE  Spec => []RecycleIsExact
<1>1. Init => RecycleInv
  <2> SUFFICES ASSUME Init PROVE RecycleInvOf("main")
    BY DEF RecycleInv, Actor
  <2>1. \A b \in Actor : call[b] = Idle
    BY DEF Init
  <2>2. CallType
    <3>1. call = [b \in Actor |-> call[b]]
      BY DEF Init
    <3> QED BY <2>1, <3>1 DEF CallType, Idle, Places
  <2>3. ArrayType /\ Waiting = {}
    BY SizeAssumption DEF Init, ArrayType, Waiting
  <2>4. Alone("main") /\ InHand("main") = {} /\ Place("main")
    BY <2>1, IdleHandIsEmpty DEF Alone, Place, Actor, Idle
  <2>5. Exact("main")
    <3> HIDE DEF InHand, Waiting
    <3> QED BY <2>3, <2>4 DEF Init, Exact
  <2> QED BY <2>2, <2>3, <2>4, <2>5 DEF RecycleInvOf
<1>2. RecycleInv /\ [Next]_vars => RecycleInv'
  BY RecycleStep
<1> QED
  BY <1>1, <1>2, RecycleInvIsExact, PTL DEF Spec
=============================================================================
