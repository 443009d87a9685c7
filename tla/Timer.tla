------------------------------- MODULE Timer -------------------------------
(***************************************************************************)
(* The NT32 timer driver, TimerDxe/Timer.c, with the interrupt flag of     *)
(* CpuRuntimeDxe/Cpu.c.                                                    *)
(*                                                                         *)
(* The emulator has no timer interrupt.  A Windows multimedia timer runs   *)
(* MMTimerThread on a second thread; that thread suspends the main thread, *)
(* looks at the emulated interrupt flag and, if interrupts are enabled,    *)
(* calls the handler the firmware registered, as an interrupt would.  Main *)
(* thread and timer thread share the driver's globals and one critical     *)
(* section.  One action is one step between two points where the other     *)
(* thread can be scheduled.                                                *)
(***************************************************************************)
EXTENDS Integers, FiniteSets

CONSTANTS
    TimerIds,             \* the ids timeSetEvent hands out, none of them 0
    Handlers,             \* the handlers the firmware registers
    NULL,                 \* no handler
    TPL_APPLICATION, TPL_HIGH_LEVEL,
    RequestedPeriods,     \* the arguments of SetTimerPeriod, in 100 ns units
    DEFAULT_TIMER_TICK_DURATION,
    TIMER_MAXIMUM_VALUE,
    HundredNsPerMs,       \* 10000 in the code
    Uint32,               \* the modulus of a UINT32 conversion
    TickWrap,             \* the modulus of GetTickCount
    MaxDelta,             \* 1000 in the code: a longer delay is ignored
    MaxClock,             \* bound: the clock stops here
    Uses                  \* what the firmware uses SetTimerPeriod for once
                          \* the driver is up: "stop", "restart", "reprogram"

ASSUME TimerIdsAssumption == TimerIds \subseteq Nat \ {0}
ASSUME HandlersAssumption == NULL \notin Handlers
ASSUME TplAssumption == TPL_APPLICATION # TPL_HIGH_LEVEL
ASSUME PeriodsAssumption ==
    /\ RequestedPeriods \subseteq Nat
    /\ DEFAULT_TIMER_TICK_DURATION \in Nat \ {0}
    /\ TIMER_MAXIMUM_VALUE \in Nat
    /\ HundredNsPerMs \in Nat \ {0}
    /\ Uint32 \in Nat \ {0}
ASSUME TickAssumption == TickWrap \in Nat \ {0} /\ MaxDelta \in Nat /\ MaxClock \in Nat
ASSUME UsesAssumption == Uses \subseteq {"stop", "restart", "reprogram"}

VARIABLES
    \* the CPU driver's flag and the firmware's task priority level
    InterruptState, tpl,
    \* the globals of Timer.c
    mCancelTimerThread, mTimerPeriod, mMMTimerThreadID, mNtLastTick,
    mTimerNotifyFunction,
    \* Windows: owner of mNtCriticalSection, running timers, main thread
    \* suspended, milliseconds since boot
    lock, live, suspended, clock,
    \* the main thread: where it is in which driver call, and its locals
    driver, pc, TimerPeriod, NotifyFunction, tick, timerId,
    \* the callback: where it is, and its locals
    mmpc, wTimerID, Delta, OriginalTPL, CallbackFunction,
    \* history: the milliseconds the handlers have been told of
    credited

cpuVars == <<InterruptState, tpl>>
globals == <<mCancelTimerThread, mTimerPeriod, mMMTimerThreadID, mNtLastTick,
             mTimerNotifyFunction>>
callVars == <<driver, TimerPeriod, NotifyFunction>>
mainVars == <<pc, callVars, tick, timerId>>
locals == <<wTimerID, Delta, OriginalTPL, CallbackFunction>>
vars == <<cpuVars, globals, lock, live, suspended, clock, mainVars, mmpc, locals,
          credited>>

GetTickCount == clock % TickWrap

(***************************************************************************)
(* CreateNtTimer turns the period into whole milliseconds with a UINT32    *)
(* conversion of the sum; timeSetEvent refuses a delay of 0.               *)
(***************************************************************************)
SleepCount(p) == ((p + HundredNsPerMs \div 2) % Uint32) \div HundredNsPerMs

(***************************************************************************)
(* DriverEntry creates the critical section and programs the default       *)
(* period before the protocol is installed.                                *)
(***************************************************************************)
Init ==
    /\ InterruptState = TRUE /\ tpl = TPL_APPLICATION
    /\ mCancelTimerThread = FALSE
    /\ mTimerPeriod = 0
    /\ mMMTimerThreadID = 0
    /\ mNtLastTick = 0
    /\ mTimerNotifyFunction = NULL
    /\ lock = "free" /\ live = {} /\ suspended = FALSE /\ clock = 0
    /\ driver = "loading" /\ pc = "StartEnter"
    /\ TimerPeriod = DEFAULT_TIMER_TICK_DURATION
    /\ NotifyFunction = NULL /\ tick = 0 /\ timerId = 0
    /\ mmpc = "none" /\ wTimerID = 0 /\ Delta = 0
    /\ OriginalTPL = TPL_APPLICATION /\ CallbackFunction = NULL
    /\ credited = 0

-----------------------------------------------------------------------------
(* The main thread: it runs only while it is not suspended. *)

Main(from, to) ==
    /\ ~suspended
    /\ pc = from /\ pc' = to
    /\ UNCHANGED <<suspended, clock, mmpc, locals, credited>>

(* A step on the main thread's own locals. *)
MainLocal(from, to) == Main(from, to) /\ UNCHANGED <<cpuVars, globals, lock>>

(* A store to the globals, and the lock around some of the stores. *)
MainStore(from, to) ==
    Main(from, to) /\ UNCHANGED <<cpuVars, lock, live, callVars, tick, timerId>>

MainEnter(from, to) ==
    /\ Main(from, to)
    /\ lock = "free" /\ lock' = "main"
    /\ UNCHANGED <<cpuVars, globals, live, callVars, tick, timerId>>

MainLeave(from, to) ==
    /\ Main(from, to)
    /\ lock' = "free"
    /\ UNCHANGED <<cpuVars, live, callVars, tick, timerId>>

(***************************************************************************)
(* The firmware masks interrupts by raising the task priority level: the   *)
(* core (external) calls WinNtDisableInterrupt and WinNtEnableInterrupt.   *)
(***************************************************************************)
WinNtDisableInterrupt == InterruptState' = FALSE
WinNtEnableInterrupt == InterruptState' = TRUE

RaiseTPL ==
    /\ Main("idle", "idle")
    /\ tpl = TPL_APPLICATION /\ tpl' = TPL_HIGH_LEVEL
    /\ WinNtDisableInterrupt
    /\ UNCHANGED <<globals, lock, live, callVars, tick, timerId>>

RestoreTPL ==
    /\ Main("idle", "idle")
    /\ tpl = TPL_HIGH_LEVEL /\ tpl' = TPL_APPLICATION
    /\ WinNtEnableInterrupt
    /\ UNCHANGED <<globals, lock, live, callVars, tick, timerId>>

(***************************************************************************)
(* SetTimerPeriod.  A period of 0 stops the timer; one in range sets the   *)
(* period and creates the timer again; any other returns EFI_SUCCESS with  *)
(* nothing done.  The core calls it with interrupts enabled.               *)
(***************************************************************************)
InRange(p) == p > 0 /\ p < TIMER_MAXIMUM_VALUE

UseOf(p) == IF p = 0 THEN "stop"
            ELSE IF mTimerPeriod = 0 THEN "restart" ELSE "reprogram"

SetTimerPeriod(p) ==
    /\ driver = "installed" /\ InterruptState
    /\ UseOf(p) \in Uses
    /\ MainLocal("idle", IF p = 0 THEN "CancelEnter"
                         ELSE IF InRange(p) THEN "StartEnter" ELSE "Return")
    /\ TimerPeriod' = p
    /\ UNCHANGED <<live, driver, NotifyFunction, tick, timerId>>

CancelEnter == MainEnter("CancelEnter", "Cancel")

Cancel ==
    /\ MainLeave("Cancel", "Kill")
    /\ mCancelTimerThread' = TRUE
    /\ UNCHANGED <<mTimerPeriod, mMMTimerThreadID, mNtLastTick, mTimerNotifyFunction>>

StartEnter == MainEnter("StartEnter", "Start")

Start ==
    /\ MainLeave("Start", "ReadTick")
    /\ mTimerPeriod' = TimerPeriod
    /\ mCancelTimerThread' = FALSE
    /\ UNCHANGED <<mMMTimerThreadID, mNtLastTick, mTimerNotifyFunction>>

(* mNtLastTick = GetTickCount (): the call, then the store, outside the lock. *)
ReadTick ==
    /\ MainLocal("ReadTick", "StoreTick")
    /\ tick' = GetTickCount
    /\ UNCHANGED <<live, callVars, timerId>>

(* Variant: a running timer is not killed before the new one is created. *)
StoreTickNoKill ==
    /\ MainStore("StoreTick", "SleepEnter")
    /\ mNtLastTick' = tick
    /\ UNCHANGED <<mCancelTimerThread, mTimerPeriod, mMMTimerThreadID,
                   mTimerNotifyFunction>>

StoreTick ==
    /\ MainStore("StoreTick", "Kill")
    /\ mNtLastTick' = tick
    /\ UNCHANGED <<mCancelTimerThread, mTimerPeriod, mMMTimerThreadID,
                   mTimerNotifyFunction>>

(***************************************************************************)
(* timeKillEvent (external): no callback of the timer starts any more, and *)
(* a timer created with TIME_KILL_SYNCHRONOUS makes the caller wait for    *)
(* the callback in progress.  It fails at once for an id that is not a     *)
(* running timer.                                                          *)
(***************************************************************************)
timeKillEvent(id) == live' = live \ {id}

(* Variant: the timer was created without TIME_KILL_SYNCHRONOUS. *)
KillNoWait ==
    /\ MainLocal("Kill", "ClearID")
    /\ timerId' = mMMTimerThreadID
    /\ timeKillEvent(mMMTimerThreadID)
    /\ UNCHANGED <<callVars, tick>>

Kill ==
    /\ MainLocal("Kill", IF mMMTimerThreadID \in live THEN "KillWait" ELSE "ClearID")
    /\ timerId' = mMMTimerThreadID
    /\ timeKillEvent(mMMTimerThreadID)
    /\ UNCHANGED <<callVars, tick>>

KillWait ==
    /\ MainLocal("KillWait", "ClearID")
    /\ ~ (mmpc # "none" /\ wTimerID = timerId)
    /\ UNCHANGED <<live, callVars, tick, timerId>>

ClearID ==
    /\ MainStore("ClearID", IF TimerPeriod = 0 THEN "PeriodEnter" ELSE "SleepEnter")
    /\ mMMTimerThreadID' = 0
    /\ UNCHANGED <<mCancelTimerThread, mTimerPeriod, mNtLastTick, mTimerNotifyFunction>>

PeriodEnter == MainEnter("PeriodEnter", "Period")

Period ==
    /\ MainLeave("Period", "Return")
    /\ mTimerPeriod' = TimerPeriod
    /\ UNCHANGED <<mCancelTimerThread, mMMTimerThreadID, mNtLastTick,
                   mTimerNotifyFunction>>

(* CreateNtTimer reads the period under the lock ... *)
SleepEnter == MainEnter("SleepEnter", "Sleep")
Sleep == MainLeave("Sleep", "SetEvent") /\ UNCHANGED globals

(* ... timeSetEvent (external) starts a timer, or fails and returns 0 ... *)
SetEvent ==
    /\ MainLocal("SetEvent", "StoreID")
    /\ IF SleepCount(mTimerPeriod) = 0
       THEN timerId' = 0 /\ UNCHANGED live
       ELSE \E id \in TimerIds \ live :
              /\ ~ (mmpc # "none" /\ wTimerID = id)
              /\ timerId' = id
              /\ live' = live \cup {id}
    /\ UNCHANGED <<callVars, tick>>

(* ... and SetTimerPeriod stores its result. *)
StoreID ==
    /\ MainStore("StoreID", "Return")
    /\ mMMTimerThreadID' = timerId
    /\ UNCHANGED <<mCancelTimerThread, mTimerPeriod, mNtLastTick, mTimerNotifyFunction>>

(***************************************************************************)
(* The return of SetTimerPeriod, into the firmware or into DriverEntry,    *)
(* which installs the protocol, or cannot and stops the timer, deletes the *)
(* critical section and is unloaded.                                       *)
(***************************************************************************)
Return ==
    /\ \/ /\ driver = "installed"
          /\ MainLocal("Return", "idle") /\ UNCHANGED <<driver, TimerPeriod>>
       \/ /\ driver = "loading" /\ driver' = "installed"
          /\ MainLocal("Return", "idle") /\ UNCHANGED TimerPeriod
       \/ /\ driver = "loading" /\ driver' = "failing"
          /\ MainLocal("Return", "CancelEnter") /\ TimerPeriod' = 0
       \/ /\ driver = "failing" /\ driver' = "unloaded"
          /\ MainLocal("Return", "idle") /\ UNCHANGED TimerPeriod
    /\ UNCHANGED <<live, NotifyFunction, tick, timerId>>

(* RegisterHandler: one of the two must be NULL and not both. *)
RegisterHandler(f) ==
    /\ driver = "installed"
    /\ (f = NULL) # (mTimerNotifyFunction = NULL)
    /\ MainLocal("idle", "RegisterEnter")
    /\ NotifyFunction' = f
    /\ UNCHANGED <<live, driver, TimerPeriod, tick, timerId>>

RegisterEnter == MainEnter("RegisterEnter", "Register")

Register ==
    /\ MainLeave("Register", "idle")
    /\ mTimerNotifyFunction' = NotifyFunction
    /\ UNCHANGED <<mCancelTimerThread, mTimerPeriod, mMMTimerThreadID, mNtLastTick>>

(* The steps of the driver's own calls: once begun they must return. *)
MainCall ==
    \/ CancelEnter \/ Cancel \/ StartEnter \/ Start \/ ReadTick \/ StoreTick
    \/ Kill \/ KillWait \/ ClearID \/ PeriodEnter \/ Period
    \/ SleepEnter \/ Sleep \/ SetEvent \/ StoreID \/ Return
    \/ RegisterEnter \/ Register

MainThread ==
    \/ RaiseTPL \/ RestoreTPL
    \/ \E p \in RequestedPeriods : SetTimerPeriod(p)
    \/ \E f \in Handlers \cup {NULL} : RegisterHandler(f)
    \/ MainCall

-----------------------------------------------------------------------------
(* MMTimerThread, on the multimedia thread, which runs one callback at a time. *)

MM(from, to) == mmpc = from /\ mmpc' = to /\ UNCHANGED <<clock, mainVars>>

(* A step that only decides where the callback goes on. *)
MMLocal(from, to) ==
    MM(from, to) /\ UNCHANGED <<cpuVars, globals, lock, live, suspended, locals, credited>>

MMEnter(from, to) ==
    /\ MM(from, to)
    /\ lock = "free" /\ lock' = "mm"
    /\ UNCHANGED <<cpuVars, globals, live, suspended, locals, credited>>

MMLeave(from, to) ==
    /\ MM(from, to)
    /\ lock' = "free"
    /\ UNCHANGED <<cpuVars, globals, live, suspended, locals, credited>>

SuspendThread(from, to) ==
    /\ MM(from, to)
    /\ suspended' = TRUE
    /\ UNCHANGED <<cpuVars, globals, lock, live, locals, credited>>

ResumeThread(from, to) ==
    /\ MM(from, to)
    /\ suspended' = FALSE
    /\ UNCHANGED <<cpuVars, globals, lock, live, locals, credited>>

(* Windows starts the callback of a running timer. *)
Fire ==
    /\ MM("none", "Begin")
    /\ wTimerID' \in live
    /\ UNCHANGED <<cpuVars, globals, lock, live, suspended, Delta, OriginalTPL,
                   CallbackFunction, credited>>

(* Variant: the callback suspends the main thread without the lock. *)
BeginWithoutLock ==
    MMLocal("Begin", IF mCancelTimerThread THEN "SelfKill" ELSE "Suspend")

(* The first look at mCancelTimerThread, without the lock. *)
Begin == MMLocal("Begin", IF mCancelTimerThread THEN "SelfKill" ELSE "Enter")

Enter == MMEnter("Enter", "Suspend")
Suspend == SuspendThread("Suspend", "Recheck")

(* The second look, with the main thread suspended. *)
Recheck ==
    MMLocal("Recheck", IF mCancelTimerThread THEN "CancelResume" ELSE "TestInterrupt")

(* Variants: the early return forgets to resume, or to leave. *)
CancelNoResume == MMLocal("CancelResume", "CancelLeave")
CancelNoLeave == MMLocal("CancelLeave", "SelfKill")

CancelResume == ResumeThread("CancelResume", "CancelLeave")
CancelLeave == MMLeave("CancelLeave", "SelfKill")

SelfKill ==
    /\ MM("SelfKill", "SelfClear")
    /\ timeKillEvent(wTimerID)
    /\ UNCHANGED <<cpuVars, globals, lock, suspended, locals, credited>>

SelfClear ==
    /\ MM("SelfClear", "none")
    /\ mMMTimerThreadID' = 0
    /\ UNCHANGED <<mCancelTimerThread, mTimerPeriod, mNtLastTick, mTimerNotifyFunction>>
    /\ UNCHANGED <<cpuVars, lock, live, suspended, locals, credited>>

(* Variant: the interrupt flag is not looked at. *)
TestInterruptIgnored == MMLocal("TestInterrupt", "Account")

(***************************************************************************)
(* GetInterruptState.  While interrupts are disabled the main thread is    *)
(* let go, the callback waits for them to be enabled, takes the lock and   *)
(* suspends the main thread again; mCancelTimerThread is not looked at     *)
(* again.                                                                  *)
(***************************************************************************)
TestInterrupt ==
    MMLocal("TestInterrupt", IF InterruptState THEN "Account" ELSE "MaskedResume")

MaskedResume == ResumeThread("MaskedResume", "MaskedLeave")
MaskedLeave == MMLeave("MaskedLeave", "MaskedWait")

MaskedWait ==
    /\ MMLocal("MaskedWait", "MaskedEnter")
    /\ InterruptState

(* Variant: the flag is not looked at again with the main thread suspended. *)
MaskedSuspendNoRetest == SuspendThread("MaskedSuspend", "Account")

MaskedEnter == MMEnter("MaskedEnter", "MaskedSuspend")
MaskedSuspend == SuspendThread("MaskedSuspend", "TestInterrupt")

(* Variants: the difference is not a UINT32, or the tick is not stored. *)
AccountSigned ==
    /\ Delta' = GetTickCount - mNtLastTick
    /\ MM("Account", IF Delta' < MaxDelta THEN "Deliver" ELSE "Resume")
    /\ mNtLastTick' = GetTickCount
    /\ UNCHANGED <<mCancelTimerThread, mTimerPeriod, mMMTimerThreadID, mTimerNotifyFunction>>
    /\ UNCHANGED <<cpuVars, lock, live, suspended, wTimerID, OriginalTPL, CallbackFunction,
                   credited>>
AccountNoStore ==
    /\ Delta' = (GetTickCount - mNtLastTick) % TickWrap
    /\ MM("Account", IF Delta' < MaxDelta THEN "Deliver" ELSE "Resume")
    /\ UNCHANGED <<cpuVars, globals, lock, live, suspended, wTimerID, OriginalTPL,
                   CallbackFunction, credited>>

(* The time since the last tick; a delay of MaxDelta or more is ignored. *)
Account ==
    /\ Delta' = (GetTickCount - mNtLastTick) % TickWrap
    /\ MM("Account", IF Delta' < MaxDelta THEN "Deliver" ELSE "Resume")
    /\ mNtLastTick' = GetTickCount
    /\ UNCHANGED <<mCancelTimerThread, mTimerPeriod, mMMTimerThreadID, mTimerNotifyFunction>>
    /\ UNCHANGED <<cpuVars, lock, live, suspended, wTimerID, OriginalTPL, CallbackFunction,
                   credited>>

(* RaiseTPL (TPL_HIGH_LEVEL), the load of the handler and the call to it. *)
Deliver ==
    /\ MM("Deliver", IF mTimerNotifyFunction = NULL THEN "Restore" ELSE "Handler")
    /\ OriginalTPL' = tpl /\ tpl' = TPL_HIGH_LEVEL
    /\ WinNtDisableInterrupt
    /\ CallbackFunction' = mTimerNotifyFunction
    /\ credited' = IF mTimerNotifyFunction = NULL THEN credited ELSE credited + Delta
    /\ UNCHANGED <<globals, lock, live, suspended, wTimerID, Delta>>

HandlerReturns == MMLocal("Handler", "Restore")

Restore ==
    /\ MM("Restore", "Resume")
    /\ tpl' = OriginalTPL
    /\ InterruptState' = (OriginalTPL # TPL_HIGH_LEVEL)
    /\ UNCHANGED <<globals, lock, live, suspended, locals, credited>>

Resume == ResumeThread("Resume", "Leave")
Leave == MMLeave("Leave", "none")

(* A callback that has begun runs to its end. *)
MMCallback ==
    \/ Begin \/ Enter \/ Suspend \/ Recheck
    \/ CancelResume \/ CancelLeave \/ SelfKill \/ SelfClear
    \/ TestInterrupt \/ MaskedResume \/ MaskedLeave \/ MaskedWait
    \/ MaskedEnter \/ MaskedSuspend
    \/ Account \/ Deliver \/ HandlerReturns \/ Restore \/ Resume \/ Leave

MMTimerThread == Fire \/ MMCallback

(* A millisecond passes, up to the bound. *)
Tick ==
    /\ clock < MaxClock
    /\ clock' = clock + 1
    /\ UNCHANGED <<cpuVars, globals, lock, live, suspended, mainVars, mmpc, locals,
                   credited>>

Next == MainThread \/ MMTimerThread \/ Tick

(***************************************************************************)
(* A started callback is scheduled until it ends, and so is a driver call  *)
(* of the main thread.  The main thread is suspended and kept off the lock *)
(* only by callbacks, which start a period apart, so it is allowed to run  *)
(* again and again: strong fairness.                                       *)
(***************************************************************************)
Fairness == SF_vars(MainCall) /\ SF_vars(MMCallback)

Spec == Init /\ [][Next]_vars /\ Fairness

-----------------------------------------------------------------------------
MainPcs == {"idle", "CancelEnter", "Cancel", "StartEnter", "Start", "ReadTick",
            "StoreTick", "Kill", "KillWait", "ClearID", "PeriodEnter", "Period",
            "SleepEnter", "Sleep", "SetEvent", "StoreID", "Return",
            "RegisterEnter", "Register"}

MMPcs == {"none", "Begin", "Enter", "Suspend", "Recheck", "CancelResume",
          "CancelLeave", "SelfKill", "SelfClear", "TestInterrupt", "MaskedResume",
          "MaskedLeave", "MaskedWait", "MaskedEnter", "MaskedSuspend", "Account",
          "Deliver", "Handler", "Restore", "Resume", "Leave"}

(* Every variable has its type. *)
TypeOK ==
    /\ InterruptState \in BOOLEAN
    /\ tpl \in {TPL_APPLICATION, TPL_HIGH_LEVEL}
    /\ mCancelTimerThread \in BOOLEAN
    /\ mTimerPeriod \in Nat
    /\ mMMTimerThreadID \in TimerIds \cup {0}
    /\ mNtLastTick \in 0 .. TickWrap - 1
    /\ mTimerNotifyFunction \in Handlers \cup {NULL}
    /\ lock \in {"free", "main", "mm"}
    /\ live \subseteq TimerIds
    /\ suspended \in BOOLEAN
    /\ clock \in Nat
    /\ driver \in {"loading", "installed", "failing", "unloaded"}
    /\ pc \in MainPcs
    /\ TimerPeriod \in Nat
    /\ NotifyFunction \in Handlers \cup {NULL}
    /\ tick \in 0 .. TickWrap - 1
    /\ timerId \in TimerIds \cup {0}
    /\ mmpc \in MMPcs
    /\ wTimerID \in TimerIds \cup {0}
    /\ Delta \in 0 .. TickWrap - 1
    /\ OriginalTPL \in {TPL_APPLICATION, TPL_HIGH_LEVEL}
    /\ CallbackFunction \in Handlers \cup {NULL}
    /\ credited \in Nat

(***************************************************************************)
(* MMTimerThread takes the critical section before it suspends the main    *)
(* thread "to avoid deadlock between main and timer thread": the main      *)
(* thread is never frozen while it owns the critical section the callback  *)
(* is about to enter.                                                      *)
(***************************************************************************)
LockNeverFrozen == ~ (suspended /\ lock = "main")

(***************************************************************************)
(* The callback is an interrupt: while the handler runs the main thread is *)
(* stopped, it was stopped outside every section it had masked interrupts  *)
(* for, and the handler is the one registered now.                         *)
(***************************************************************************)
HandlerIsAnInterrupt ==
    mmpc = "Handler" =>
        /\ suspended
        /\ OriginalTPL # TPL_HIGH_LEVEL
        /\ CallbackFunction = mTimerNotifyFunction
        /\ ~InterruptState

(***************************************************************************)
(* The time the handlers are told of never runs ahead of the clock: no     *)
(* interval is delivered twice.                                            *)
(***************************************************************************)
FirmwareTimeNotAhead == credited <= clock

(* SetTimerPeriod (0) has returned and no other call was made since. *)
TimerStopped == pc \in {"idle", "RegisterEnter", "Register"} /\ TimerPeriod = 0

(***************************************************************************)
(* Once SetTimerPeriod (0) has returned no callback suspends the main      *)
(* thread, calls the handler or is on its way to the critical section      *)
(* (which DriverEntry deletes when it cannot install the protocol).        *)
(***************************************************************************)
StoppedIsSilent == TimerStopped => mmpc \in {"none", "SelfClear"}

(***************************************************************************)
(* "Wait for the timer thread to exit": when SetTimerPeriod (0) returns no *)
(* callback is in progress.                                                *)
(***************************************************************************)
StopWaitsForCallback == TimerStopped => mmpc = "none"

(***************************************************************************)
(* "EFI_SUCCESS - The timer period was changed": when SetTimerPeriod (p),  *)
(* which has no other status, has returned, p is the period and exactly    *)
(* the driver's own timer runs, or none when p is 0.                       *)
(***************************************************************************)
SuccessMeansChanged ==
    pc = "idle" /\ driver \in {"installed", "unloaded"} =>
        /\ mTimerPeriod = TimerPeriod
        /\ live = IF TimerPeriod = 0 THEN {} ELSE {mMMTimerThreadID}

(* Every call into the driver returns, and a suspended main thread is resumed. *)
CallsReturn == pc # "idle" ~> pc = "idle"
SuspensionEnds == suspended ~> ~suspended

(***************************************************************************)
(* The driver implements EmulatedInterrupt.  While the callback itself has *)
(* raised the priority level, the firmware's mask is the one it will       *)
(* restore.                                                                *)
(***************************************************************************)
Raised == mmpc \in {"Handler", "Restore"}

Abstract == INSTANCE EmulatedInterrupt WITH
    masked <- IF Raised THEN OriginalTPL = TPL_HIGH_LEVEL ELSE ~InterruptState,
    registered <- mTimerNotifyFunction,
    running <- IF mmpc = "Handler" THEN CallbackFunction ELSE NULL

BehavesAsInterrupt == Abstract!Spec
=============================================================================
