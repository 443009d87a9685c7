------------------------------ MODULE GopNotify ------------------------------
(***************************************************************************)
(* The hot key callbacks of the emulated keyboard: GopInput together with  *)
(* the list of registered notifications, WinNtGopDxe/WinNtGopInput.c.  For *)
(* every key it takes from its ring the timer handler walks the list and   *)
(* calls what is registered for the key.  The firmware registers and       *)
(* unregisters without raising the TPL, so that the handler may walk the   *)
(* list between any two of its stores; and what is called may change the   *)
(* list itself.                                                            *)
(***************************************************************************)
EXTENDS GopInput

CONSTANTS
    Record,           \* room for WIN_NT_GOP_SIMPLE_TEXTIN_EX_NOTIFY in the pool
    NotifyList,       \* the head of the list
    Null,
    KeyData,          \* what is known of a key typed
    Notification,     \* what may be registered: key data and a function
    CallbackChanges   \* whether callbacks change the list, and when

ASSUME NotifyAssumption ==
    /\ NotifyList \notin Record /\ Null \notin Record \cup {NotifyList} \cup Notification
    /\ CallbackChanges \in {"never", "quiet", "any"}

Link == Record \cup {NotifyList}

VARIABLES
    notify,                  \* what each record holds, Null if it is free
    ForwardLink, BackLink,
    call,                    \* the firmware's call of one of the two functions
    walk                     \* the handler's walk over the list

listVars == <<notify, ForwardLink, BackLink>>
notifyVars == <<vars, listVars, call, walk>>

NoCall == [op |-> "none", at |-> "idle", link |-> NotifyList, record |-> Null, wanted |-> Null]
NoWalk == [link |-> NotifyList, key |-> Null, due |-> {}]

NotifyInit ==
    /\ Init
    /\ notify = [r \in Record |-> Null]
    /\ ForwardLink = [l \in Link |-> IF l = NotifyList THEN NotifyList ELSE Null]
    /\ BackLink = ForwardLink
    /\ call = NoCall /\ walk = NoWalk

(* The codes have to be equal; a state of 0 was registered for any.        *)
IsKeyRegistered(registered, input) ==
    /\ registered.code = input.code
    /\ \A state \in {"shift", "toggle"} : registered[state] \in {0, input[state]}

(* Is what the record holds the notification that is to be registered?     *)
IsSame(record, n) ==
    IsKeyRegistered(notify[record].key, n.key) /\ notify[record].function = n.function

IsLive(record) == notify[record] # Null

----------------------------------------------------------------------------
(* RegisterKeyNotify and UnregisterKeyNotify, called by the firmware: a    *)
(* step for every record looked at and for every store to the list.        *)
CallStep(at, to) ==
    /\ hpc = "idle" /\ call.at = at /\ call' = to
    /\ UNCHANGED <<vars, walk>>

RegisterKeyNotify ==
    /\ fpc = "idle"
    /\ \E n \in Notification :
         CallStep("idle", [op |-> "Register", at |-> "search",
                           link |-> ForwardLink[NotifyList], record |-> Null, wanted |-> n])
    /\ UNCHANGED listVars

UnregisterKeyNotify ==
    /\ fpc = "idle"
    /\ \E handle \in Record :
         CallStep("idle", [op |-> "Unregister", at |-> "search",
                           link |-> ForwardLink[NotifyList], record |-> handle, wanted |-> Null])
    /\ UNCHANGED listVars

IsFound ==
    /\ call.link # NotifyList
    /\ IF call.op = "Register" THEN IsSame(call.link, call.wanted)
                               ELSE call.link = call.record

Search ==
    /\ call.link # NotifyList /\ ~IsFound
    /\ CallStep("search", [call EXCEPT !.link = ForwardLink[call.link]])
    /\ UNCHANGED listVars

(* What is there is not registered twice: its handle is given out again.   *)
AlreadyRegistered ==
    /\ call.op = "Register" /\ IsFound
    /\ CallStep("search", NoCall) /\ UNCHANGED listVars

NotRegistered ==
    /\ call.op = "Unregister" /\ call.link = NotifyList
    /\ CallStep("search", NoCall) /\ UNCHANGED listVars

OutOfResources ==
    /\ call.op = "Register" /\ call.link = NotifyList
    /\ CallStep("search", NoCall) /\ UNCHANGED listVars

(* Allocated, filled and given its own links; then, as InsertTailList does, *)
(* the links to it.                                                        *)
Allocate ==
    /\ call.op = "Register" /\ call.link = NotifyList
    /\ \E r \in Record :
         /\ ~IsLive(r) /\ notify' = [notify EXCEPT ![r] = call.wanted]
         /\ ForwardLink' = [ForwardLink EXCEPT ![r] = NotifyList]
         /\ BackLink' = [BackLink EXCEPT ![r] = BackLink[NotifyList]]
         /\ CallStep("search", [call EXCEPT !.at = "link", !.record = r, !.wanted = Null])

LinkForward ==
    /\ CallStep("link", [call EXCEPT !.at = "tail"])
    /\ ForwardLink' = [ForwardLink EXCEPT ![BackLink[call.record]] = call.record]
    /\ UNCHANGED <<notify, BackLink>>

LinkBack ==
    /\ CallStep("tail", NoCall)
    /\ BackLink' = [BackLink EXCEPT ![NotifyList] = call.record]
    /\ UNCHANGED <<notify, ForwardLink>>

(* RemoveEntryList and FreePool.                                           *)
UnlinkBack ==
    /\ call.op = "Unregister" /\ IsFound
    /\ CallStep("search", [call EXCEPT !.at = "unlink", !.link = NotifyList])
    /\ BackLink' = [BackLink EXCEPT ![ForwardLink[call.record]] = BackLink[call.record]]
    /\ UNCHANGED <<notify, ForwardLink>>

Freed(f, r) == [f EXCEPT ![r] = Null]

UnlinkForward ==
    /\ CallStep("unlink", NoCall)
    /\ notify' = Freed(notify, call.record)
    /\ ForwardLink' = Freed([ForwardLink EXCEPT ![BackLink[call.record]] =
                                                   ForwardLink[call.record]], call.record)
    /\ BackLink' = Freed(BackLink, call.record)

List ==
    \/ RegisterKeyNotify \/ UnregisterKeyNotify
    \/ Search \/ AlreadyRegistered \/ NotRegistered \/ OutOfResources
    \/ Allocate \/ LinkForward \/ LinkBack
    \/ UnlinkBack \/ UnlinkForward

----------------------------------------------------------------------------
(* GopPrivateInvokeRegisteredFunction.  due is history: the records whose  *)
(* registration was complete when the walk began and matches the key, and  *)
(* whose function was not called yet.                                      *)
Registered == {r \in Record : IsLive(r) /\ r # call.record}

WalkOn(link, key, due) ==
    walk' = [link |-> link, key |-> IF link = NotifyList THEN Null ELSE key, due |-> due]

Invoke(key) ==
    WalkOn(ForwardLink[NotifyList], key,
           {r \in Registered : IsKeyRegistered(notify[r].key, key)})

(* The callbacks run at TPL_NOTIFY, and nothing comes between their own    *)
(* stores to the list: they are one step.                                  *)
MayChange(record) ==
    \/ CallbackChanges = "any"
    \/ CallbackChanges = "quiet" /\ call = NoCall /\ walk.link # record

CallbackRegisters ==
    \E r \in Record, n \in Notification :
      /\ MayChange(r) /\ ~IsLive(r)
      /\ \A other \in Record : IsLive(other) => ~IsSame(other, n)
      /\ notify' = [notify EXCEPT ![r] = n]
      /\ ForwardLink' = [ForwardLink EXCEPT ![r] = NotifyList, ![BackLink[NotifyList]] = r]
      /\ BackLink' = [BackLink EXCEPT ![r] = BackLink[NotifyList], ![NotifyList] = r]

CallbackUnregisters ==
    \E r \in Record :
      /\ MayChange(r) /\ r \in Registered
      /\ notify' = Freed(notify, r)
      /\ ForwardLink' = Freed([ForwardLink EXCEPT ![BackLink[r]] = ForwardLink[r]], r)
      /\ BackLink' = Freed([BackLink EXCEPT ![ForwardLink[r]] = BackLink[r]], r)

(* The next record is that which the callback has left behind this one.  A *)
(* variant with a fault takes it before the call.                          *)
NextLinkEarly == ForwardLink[walk.link]
NextLink == ForwardLink'[walk.link]

KeyNotificationFn ==
    /\ walk.link \in Record /\ IsLive(walk.link)
    /\ IsKeyRegistered(notify[walk.link].key, walk.key)
    /\ CallbackRegisters \/ CallbackUnregisters \/ UNCHANGED listVars
    /\ WalkOn(NextLink, walk.key, {r \in walk.due \ {walk.link} : notify'[r] = notify[r]})
    /\ UNCHANGED <<vars, call>>

PassOver ==
    /\ walk.link \in Record /\ IsLive(walk.link)
    /\ ~IsKeyRegistered(notify[walk.link].key, walk.key)
    /\ WalkOn(ForwardLink[walk.link], walk.key, walk.due)
    /\ UNCHANGED <<vars, listVars, call>>

Walk == KeyNotificationFn \/ PassOver

----------------------------------------------------------------------------
(* The handler calls Invoke for the key that it has taken, and goes on     *)
(* when the walk is over.  A key without codes is a partial one.           *)
NotifyDelete ==
    /\ HandlerDelete
    /\ IF ~Succeeds("Notify") THEN UNCHANGED walk
       ELSE \E key \in KeyData :
              (key.code = 0) = (taken'["Notify"] \in partial) /\ Invoke(key)
    /\ UNCHANGED <<listVars, call>>

NotifyEnter ==
    /\ HandlerEnter /\ walk.link = NotifyList
    /\ UNCHANGED <<listVars, call, walk>>

(* What GopInput does else.  The firmware does one call at a time.         *)
Others ==
    /\ \/ KeyDown \/ Window \/ TimerEvent \/ Firmware
       \/ call = NoCall /\ (CallReset \/ CallSetState \/ \E op \in ReadOps \cup {"WaitForKey"} : CallRead(op))
    /\ UNCHANGED <<listVars, call, walk>>

NotifyNext == Others \/ NotifyEnter \/ NotifyDelete \/ Walk \/ List

(* As in GopInput; a callback returns, and what was called goes on.        *)
NotifyFairness ==
    /\ WF_notifyVars(Window /\ UNCHANGED <<listVars, call, walk>>)
    /\ WF_notifyVars(TimerEvent /\ UNCHANGED <<listVars, call, walk>>)
    /\ WF_notifyVars(NotifyEnter \/ NotifyDelete \/ Walk)
    /\ SF_notifyVars(Firmware /\ UNCHANGED <<listVars, call, walk>>)

NotifySpec == NotifyInit /\ [][NotifyNext]_notifyVars /\ NotifyFairness

----------------------------------------------------------------------------
NotifyTypeOK ==
    /\ notify \in [Record -> Notification \cup {Null}]
    /\ ForwardLink \in [Link -> Link \cup {Null}]
    /\ BackLink \in [Link -> Link \cup {Null}]
    /\ walk.link \in Link \cup {Null} /\ walk.due \subseteq Record

(* InvokeRegisteredFunction follows the list through what its callbacks    *)
(* and the interrupted firmware make of it: it never reads a record that   *)
(* was freed, and calls every function that was registered for the key     *)
(* before and is not unregistered meanwhile.  As long as callbacks neither *)
(* unregister themselves nor come in the middle of a change.               *)
WalkIsComplete ==
    /\ walk.link # NotifyList => walk.link \in Record /\ IsLive(walk.link)
    /\ walk.link = NotifyList => walk.due = {}
=============================================================================
