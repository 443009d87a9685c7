---------------------------- MODULE TimerProofs ----------------------------
(***************************************************************************)
(* Proofs about Timer: its types, that the main thread is never frozen     *)
(* with the lock, that the handler behaves as an interrupt, and that every *)
(* step of the driver is a step of EmulatedInterrupt or leaves it alone.   *)
(***************************************************************************)
EXTENDS Timer, TLAPS

(* Where the callback has the main thread suspended, and where it owns the lock. *)
SuspendedPcs == {"Recheck", "CancelResume", "TestInterrupt", "MaskedResume",
                 "Account", "Deliver", "Handler", "Restore", "Resume"}
OwnerPcs == SuspendedPcs \cup {"Suspend", "CancelLeave", "MaskedLeave",
                               "MaskedSuspend", "Leave"}
MainOwnerPcs == {"Cancel", "Start", "Period", "Sleep", "Register"}

LockInv ==
    /\ suspended <=> mmpc \in SuspendedPcs
    /\ lock = "mm" <=> mmpc \in OwnerPcs
    /\ lock = "main" <=> pc \in MainOwnerPcs

MaskInv ==
    /\ ~Raised => (InterruptState <=> tpl = TPL_APPLICATION)
    /\ Raised => ~InterruptState /\ OriginalTPL = TPL_APPLICATION
    /\ mmpc \in {"Account", "Deliver"} => InterruptState
    /\ mmpc = "Handler" => /\ CallbackFunction = mTimerNotifyFunction
                           /\ CallbackFunction # NULL

SafetyInv == TypeOK /\ LockInv /\ MaskInv

-----------------------------------------------------------------------------
LEMMA ModRange == \A n \in Int : n % TickWrap \in 0 .. TickWrap - 1
BY TickAssumption

(* Every variable keeps its type. *)
LEMMA TypeInit == Init => TypeOK
<1> SUFFICES ASSUME Init PROVE TypeOK
  OBVIOUS
<1>1. /\ InterruptState \in BOOLEAN
      /\ mCancelTimerThread \in BOOLEAN
      /\ suspended \in BOOLEAN
  BY Zenon DEF Init
<1> QED BY <1>1, TimerIdsAssumption, PeriodsAssumption, TickAssumption
        DEF Init, TypeOK, MainPcs, MMPcs

LEMMA TypeNext == TypeOK /\ [Next]_vars => TypeOK'
<1> SUFFICES ASSUME TypeOK, [Next]_vars PROVE TypeOK'
  OBVIOUS
<1> USE DEF TypeOK
<1>1. CASE RaiseTPL
  <2>1. InterruptState' \in BOOLEAN
    BY <1>1, Zenon DEF RaiseTPL, WinNtDisableInterrupt, Main, callVars
  <2> QED BY <1>1, <2>1 DEF RaiseTPL, Main, globals, locals, MainPcs, callVars
<1>2. CASE RestoreTPL
  <2>1. InterruptState' \in BOOLEAN
    BY <1>2, Zenon DEF RestoreTPL, WinNtEnableInterrupt, Main, callVars
  <2> QED BY <1>2, <2>1 DEF RestoreTPL, Main, globals, locals, MainPcs, callVars
<1>3. ASSUME NEW p \in RequestedPeriods, SetTimerPeriod(p) PROVE TypeOK'
  BY <1>3, PeriodsAssumption DEF SetTimerPeriod, cpuVars, globals, locals, MainPcs,
            MainLocal, Main, callVars
<1>4. ASSUME NEW f \in Handlers \cup {NULL}, RegisterHandler(f) PROVE TypeOK'
  BY <1>4 DEF RegisterHandler, cpuVars, globals, locals, MainPcs, MainLocal, Main,
            callVars
<1>5. CASE MainCall
  <2> USE DEF Main, cpuVars, globals, locals, MainPcs
  <2>1. CASE CancelEnter \/ StartEnter \/ PeriodEnter \/ SleepEnter \/ RegisterEnter
    BY <2>1 DEF CancelEnter, StartEnter, PeriodEnter, SleepEnter, RegisterEnter,
            MainEnter, Main, callVars
  <2>2. CASE Cancel \/ Start \/ Period \/ Sleep \/ Register
    <3>1. CASE Cancel \/ Start
      BY <3>1 DEF Cancel, Start, MainLeave, Main, callVars
    <3>2. CASE Period
      BY <3>2 DEF Period, MainLeave, Main, callVars
    <3>3. CASE Sleep \/ Register
      BY <3>3 DEF Sleep, Register, MainLeave, Main, callVars
    <3> QED BY <2>2, <3>1, <3>2, <3>3
  <2>3. CASE ReadTick
    <3>1. tick' \in 0 .. TickWrap - 1
      BY <2>3, ModRange DEF ReadTick, GetTickCount
    <3>2. /\ pc' = "StoreTick"
          /\ UNCHANGED <<cpuVars, globals, lock, live, callVars, timerId, suspended,
                         clock, mmpc, locals, credited>>
      BY <2>3 DEF ReadTick, MainLocal, Main
    <3> QED BY <3>1, <3>2 DEF callVars
  <2>4. CASE StoreTick \/ ClearID \/ StoreID
    BY <2>4 DEF StoreTick, ClearID, StoreID, MainStore, Main, callVars
  <2>5. CASE Kill
    BY <2>5 DEF Kill, timeKillEvent, MainLocal, Main, callVars
  <2>6. CASE KillWait
    BY <2>6 DEF KillWait, MainLocal, Main, callVars
  <2>7. CASE SetEvent
    BY <2>7 DEF SetEvent, MainLocal, Main, callVars
  <2>8. CASE Return
    BY <2>8 DEF Return, MainLocal, Main, callVars
  <2> QED BY <1>5, <2>1, <2>2, <2>3, <2>4, <2>5, <2>6, <2>7, <2>8 DEF MainCall
<1>6. CASE Fire
  BY <1>6 DEF Fire, MM, cpuVars, globals, mainVars, MMPcs, callVars
<1>7. CASE MMCallback
  <2> USE DEF MM, cpuVars, globals, locals, mainVars, MMPcs, callVars
  <2>1. CASE Begin \/ Recheck \/ TestInterrupt \/ MaskedWait \/ HandlerReturns
    BY <2>1 DEF Begin, Recheck, TestInterrupt, MaskedWait, HandlerReturns, MMLocal, MM,
            mainVars, callVars
  <2>2. CASE Enter \/ MaskedEnter \/ CancelLeave \/ MaskedLeave \/ Leave
    BY <2>2 DEF Enter, MaskedEnter, CancelLeave, MaskedLeave, Leave, MMEnter, MMLeave,
            MM, mainVars, callVars
  <2>3. CASE Suspend \/ MaskedSuspend \/ CancelResume \/ MaskedResume \/ Resume
    <3>1. suspended' \in BOOLEAN
      BY <2>3, Zenon DEF Suspend, MaskedSuspend, CancelResume, MaskedResume, Resume,
            SuspendThread, ResumeThread, MM, mainVars, callVars
    <3> QED BY <2>3, <3>1 DEF Suspend, MaskedSuspend, CancelResume, MaskedResume,
            Resume, SuspendThread, ResumeThread, MM, mainVars, callVars
  <2>4. CASE SelfKill
    BY <2>4 DEF SelfKill, timeKillEvent, MM, mainVars, callVars
  <2>5. CASE SelfClear
    BY <2>5 DEF SelfClear, MM, mainVars, callVars
  <2>6. CASE Account
    BY <2>6, ModRange DEF Account, GetTickCount, MM, mainVars, callVars
  <2>7. CASE Deliver
    <3>1. InterruptState' \in BOOLEAN
      BY <2>7, Zenon DEF Deliver, WinNtDisableInterrupt, MM, mainVars, callVars
    <3> QED BY <2>7, <3>1 DEF Deliver, MM, mainVars, callVars
  <2>8. CASE Restore
    BY <2>8 DEF Restore, MM, mainVars, callVars
  <2> QED BY <1>7, <2>1, <2>2, <2>3, <2>4, <2>5, <2>6, <2>7, <2>8 DEF MMCallback
<1>8. CASE Tick
  BY <1>8 DEF Tick, cpuVars, globals, locals, mainVars, callVars
<1>9. CASE UNCHANGED vars
  BY <1>9 DEF vars, cpuVars, globals, locals, mainVars, callVars
<1> QED BY <1>1, <1>2, <1>3, <1>4, <1>5, <1>6, <1>7, <1>8, <1>9
        DEF Next, MainThread, MMTimerThread

(* Every variable of the timer driver always has its type. *)
THEOREM TypeCorrect == Spec => []TypeOK
BY TypeInit, TypeNext, PTL DEF Spec

-----------------------------------------------------------------------------
(* The lock and the suspension follow the program counters. *)
LEMMA LockInit == Init => LockInv
BY Zenon DEF Init, LockInv, SuspendedPcs, OwnerPcs, MainOwnerPcs

LEMMA LockNext == TypeOK /\ LockInv /\ [Next]_vars => LockInv'
<1> SUFFICES ASSUME TypeOK, LockInv, [Next]_vars PROVE LockInv'
  OBVIOUS
<1> USE DEF LockInv, SuspendedPcs, OwnerPcs, MainOwnerPcs
<1>0. suspended \in BOOLEAN
  BY DEF TypeOK
<1>1. CASE RaiseTPL \/ RestoreTPL
  BY <1>1 DEF RaiseTPL, RestoreTPL, Main, callVars
<1>2. ASSUME NEW p \in RequestedPeriods, SetTimerPeriod(p) PROVE LockInv'
  BY <1>2 DEF SetTimerPeriod, MainLocal, Main, callVars
<1>3. ASSUME NEW f \in Handlers \cup {NULL}, RegisterHandler(f) PROVE LockInv'
  BY <1>3 DEF RegisterHandler, MainLocal, Main, callVars
<1>4. CASE MainCall
  <2> USE DEF Main
  <2>1. CASE CancelEnter \/ StartEnter \/ PeriodEnter \/ SleepEnter \/ RegisterEnter
    BY <2>1 DEF CancelEnter, StartEnter, PeriodEnter, SleepEnter, RegisterEnter,
            MainEnter, Main, callVars
  <2>2. CASE Cancel \/ Start \/ Period \/ Sleep \/ Register
    <3>1. CASE Cancel \/ Start
      BY <3>1 DEF Cancel, Start, MainLeave, Main, callVars
    <3>2. CASE Period
      BY <3>2 DEF Period, MainLeave, Main, callVars
    <3>3. CASE Sleep \/ Register
      BY <3>3 DEF Sleep, Register, MainLeave, Main, callVars
    <3> QED BY <2>2, <3>1, <3>2, <3>3
  <2>3. CASE ReadTick \/ StoreTick \/ ClearID \/ StoreID
    BY <2>3 DEF ReadTick, StoreTick, ClearID, StoreID, MainLocal, MainStore, Main,
            callVars
  <2>4. CASE Kill \/ KillWait \/ SetEvent
    BY <2>4 DEF Kill, KillWait, SetEvent, MainLocal, Main, callVars
  <2>5. CASE Return
    BY <2>5 DEF Return, MainLocal, Main, callVars
  <2> QED BY <1>4, <2>1, <2>2, <2>3, <2>4, <2>5 DEF MainCall
<1>5. CASE Fire
  BY <1>5 DEF Fire, MM, mainVars, callVars
<1>6. CASE MMCallback
  <2> USE DEF MM, mainVars, callVars
  <2>1. CASE Begin \/ Recheck \/ TestInterrupt \/ MaskedWait \/ HandlerReturns
    BY <2>1 DEF Begin, Recheck, TestInterrupt, MaskedWait, HandlerReturns, MMLocal, MM,
            mainVars, callVars
  <2>2. CASE Enter \/ MaskedEnter
    BY <2>2 DEF Enter, MaskedEnter, MMEnter, MM, mainVars, callVars
  <2>3. CASE CancelLeave \/ MaskedLeave \/ Leave
    BY <2>3 DEF CancelLeave, MaskedLeave, Leave, MMLeave, MM, mainVars, callVars
  <2>4. CASE Suspend \/ MaskedSuspend
    BY <2>4 DEF Suspend, MaskedSuspend, SuspendThread, MM, mainVars, callVars
  <2>5. CASE CancelResume \/ MaskedResume \/ Resume
    BY <2>5 DEF CancelResume, MaskedResume, Resume, ResumeThread, MM, mainVars, callVars
  <2>6. CASE SelfKill \/ SelfClear
    BY <2>6 DEF SelfKill, SelfClear, MM, mainVars, callVars
  <2>7. CASE Account \/ Deliver \/ Restore
    BY <2>7 DEF Account, Deliver, Restore, MM, mainVars, callVars
  <2> QED BY <1>6, <2>1, <2>2, <2>3, <2>4, <2>5, <2>6, <2>7 DEF MMCallback
<1>7. CASE Tick
  BY <1>7 DEF Tick, mainVars, callVars
<1>8. CASE UNCHANGED vars
  BY <1>8 DEF vars, mainVars, callVars
<1> QED BY <1>1, <1>2, <1>3, <1>4, <1>5, <1>6, <1>7, <1>8
        DEF Next, MainThread, MMTimerThread

-----------------------------------------------------------------------------
(* The interrupt flag follows the priority level, and the callback has seen *)
(* it set with the main thread suspended before it calls the handler.       *)
LEMMA MaskInit == Init => MaskInv
BY TplAssumption DEF Init, MaskInv, Raised

LEMMA MaskNext == SafetyInv /\ [Next]_vars => MaskInv'
<1> SUFFICES ASSUME TypeOK, LockInv, MaskInv, [Next]_vars PROVE MaskInv'
  BY DEF SafetyInv
<1> USE TplAssumption DEF MaskInv, Raised
<1>0. /\ InterruptState \in BOOLEAN
      /\ tpl \in {TPL_APPLICATION, TPL_HIGH_LEVEL}
      /\ mTimerNotifyFunction \in Handlers \cup {NULL}
  BY DEF TypeOK
<1>a. mmpc \in SuspendedPcs => suspended
  BY DEF LockInv
<1>1. CASE RaiseTPL
  BY <1>1, <1>a DEF RaiseTPL, Main, WinNtDisableInterrupt, SuspendedPcs, locals,
            callVars
<1>2. CASE RestoreTPL
  BY <1>2, <1>a DEF RestoreTPL, Main, WinNtEnableInterrupt, SuspendedPcs, locals,
            callVars
<1>3. ASSUME NEW p \in RequestedPeriods, SetTimerPeriod(p) PROVE MaskInv'
  BY <1>3 DEF SetTimerPeriod, cpuVars, globals, locals, MainLocal, Main, callVars
<1>4. ASSUME NEW f \in Handlers \cup {NULL}, RegisterHandler(f) PROVE MaskInv'
  BY <1>4 DEF RegisterHandler, cpuVars, globals, locals, MainLocal, Main, callVars
<1>5. CASE MainCall
  <2> USE DEF Main, cpuVars, globals, locals
  <2>1. CASE CancelEnter \/ StartEnter \/ PeriodEnter \/ SleepEnter \/ RegisterEnter
    BY <2>1 DEF CancelEnter, StartEnter, PeriodEnter, SleepEnter, RegisterEnter,
            MainEnter, Main, callVars
  <2>2. CASE Cancel \/ Start \/ Period \/ Sleep
    BY <2>2 DEF Cancel, Start, Period, Sleep, MainLeave, Main, callVars
  <2>3. CASE Register
    BY <2>3, <1>a DEF Register, MainLeave, SuspendedPcs, Main, callVars
  <2>4. CASE ReadTick \/ StoreTick \/ ClearID \/ StoreID
    BY <2>4 DEF ReadTick, StoreTick, ClearID, StoreID, MainLocal, MainStore, Main,
            callVars
  <2>5. CASE Kill \/ KillWait \/ SetEvent
    BY <2>5 DEF Kill, KillWait, SetEvent, MainLocal, Main, callVars
  <2>6. CASE Return
    BY <2>6 DEF Return, MainLocal, Main, callVars
  <2> QED BY <1>5, <2>1, <2>2, <2>3, <2>4, <2>5, <2>6 DEF MainCall
<1>6. CASE Fire
  BY <1>6 DEF Fire, MM, cpuVars, globals, mainVars, callVars
<1>7. CASE MMCallback
  <2> USE DEF MM, cpuVars, globals, locals
  <2>1. CASE Begin \/ Recheck \/ TestInterrupt \/ MaskedWait \/ HandlerReturns
    BY <2>1 DEF Begin, Recheck, TestInterrupt, MaskedWait, HandlerReturns, MMLocal, MM,
            mainVars, callVars
  <2>2. CASE Enter \/ MaskedEnter \/ CancelLeave \/ MaskedLeave \/ Leave
    BY <2>2 DEF Enter, MaskedEnter, CancelLeave, MaskedLeave, Leave, MMEnter, MMLeave,
            MM, mainVars, callVars
  <2>3. CASE Suspend \/ MaskedSuspend \/ CancelResume \/ MaskedResume \/ Resume
    BY <2>3 DEF Suspend, MaskedSuspend, CancelResume, MaskedResume, Resume,
            SuspendThread, ResumeThread, MM, mainVars, callVars
  <2>4. CASE SelfKill \/ SelfClear
    BY <2>4 DEF SelfKill, SelfClear, MM, mainVars, callVars
  <2>5. CASE Account
    BY <2>5 DEF Account, MM, mainVars, callVars
  <2>6. CASE Deliver
    BY <2>6 DEF Deliver, WinNtDisableInterrupt, MM, mainVars, callVars
  <2>7. CASE Restore
    BY <2>7 DEF Restore, MM, mainVars, callVars
  <2> QED BY <1>7, <2>1, <2>2, <2>3, <2>4, <2>5, <2>6, <2>7 DEF MMCallback
<1>8. CASE Tick
  BY <1>8 DEF Tick, cpuVars, globals, locals
<1>9. CASE UNCHANGED vars
  BY <1>9 DEF vars, cpuVars, globals, locals
<1> QED BY <1>1, <1>2, <1>3, <1>4, <1>5, <1>6, <1>7, <1>8, <1>9
        DEF Next, MainThread, MMTimerThread

-----------------------------------------------------------------------------
LEMMA SafetyAlways == Spec => []SafetyInv
<1>1. Init => SafetyInv
  BY TypeInit, LockInit, MaskInit DEF SafetyInv
<1>2. SafetyInv /\ [Next]_vars => SafetyInv'
  BY TypeNext, LockNext, MaskNext DEF SafetyInv
<1> QED BY <1>1, <1>2, PTL DEF Spec

(* The main thread is never suspended while it owns mNtCriticalSection, for *)
(* any use the firmware makes of SetTimerPeriod and any number of timers.   *)
THEOREM LockIsNeverFrozen == Spec => []LockNeverFrozen
<1>1. SafetyInv => LockNeverFrozen
  BY DEF SafetyInv, LockInv, LockNeverFrozen, SuspendedPcs, OwnerPcs
<1> QED BY <1>1, SafetyAlways, PTL

(* MMTimerThread calls the handler only as an interrupt would: main thread  *)
(* stopped outside its masked sections, and the registered handler.         *)
THEOREM HandlerAlwaysInterrupts == Spec => []HandlerIsAnInterrupt
<1>1. SafetyInv => HandlerIsAnInterrupt
  BY TplAssumption DEF SafetyInv, LockInv, MaskInv, Raised, HandlerIsAnInterrupt,
                       SuspendedPcs
<1> QED BY <1>1, SafetyAlways, PTL

-----------------------------------------------------------------------------
(***************************************************************************)
(* Stopping.  While the firmware never starts the timer again after it has *)
(* stopped it, at most one timer runs, its id is known to the main thread, *)
(* and SetTimerPeriod passes timeKillEvent only when the callback in       *)
(* progress, if any, has killed its own timer.                             *)
(***************************************************************************)
IdlePcs == {"Return", "idle", "RegisterEnter", "Register"}
StopPcs == {"CancelEnter", "Cancel", "PeriodEnter", "Period"}
StartPcs == {"StartEnter", "Start", "ReadTick", "StoreTick", "SleepEnter", "Sleep",
             "SetEvent", "StoreID"}

CallInv ==
    /\ pc \in StopPcs => TimerPeriod = 0
    /\ pc \in StartPcs => TimerPeriod # 0
    /\ mCancelTimerThread => TimerPeriod = 0
    /\ TimerPeriod = 0 => mCancelTimerThread \/ pc \in {"CancelEnter", "Cancel"}
    /\ pc \in IdlePcs /\ TimerPeriod = 0 => mTimerPeriod = 0

KilledHere == \/ pc \in {"ClearID", "PeriodEnter", "Period", "SleepEnter", "Sleep", "SetEvent"}
              \/ pc \in IdlePcs /\ TimerPeriod = 0

OneTimerInv ==
    /\ live \subseteq {IF pc = "StoreID" THEN timerId ELSE mMMTimerThreadID}
    /\ mmpc \in {"CancelResume", "CancelLeave", "SelfKill", "SelfClear"} => mCancelTimerThread
    /\ mmpc \notin {"none", "SelfClear"} =>
           wTimerID \in live \/ (pc = "KillWait" /\ wTimerID = timerId)
    /\ mmpc = "SelfClear" => live = {}
    /\ pc = "KillWait" => live = {}
    /\ KilledHere => live = {} /\ mmpc \in {"none", "SelfClear"}

StopInv == TypeOK /\ CallInv /\ OneTimerInv

LEMMA StopInit == Init => CallInv /\ OneTimerInv
<1> SUFFICES ASSUME Init PROVE CallInv /\ OneTimerInv
  OBVIOUS
<1>1. ~mCancelTimerThread /\ pc = "StartEnter" /\ TimerPeriod # 0 /\ live = {}
      /\ mmpc = "none"
  BY PeriodsAssumption DEF Init
<1> QED BY <1>1 DEF CallInv, OneTimerInv, KilledHere, IdlePcs, StopPcs, StartPcs

LEMMA CallNext ==
  ASSUME "restart" \notin Uses, TypeOK, CallInv, [Next]_vars
  PROVE  CallInv'
<1> USE DEF CallInv, IdlePcs, StopPcs, StartPcs
<1>0. mCancelTimerThread \in BOOLEAN /\ TimerPeriod \in Nat /\ mTimerPeriod \in Nat
  BY DEF TypeOK
<1>1. CASE RaiseTPL \/ RestoreTPL
  BY <1>1 DEF RaiseTPL, RestoreTPL, Main, globals, callVars
<1>2. ASSUME NEW p \in RequestedPeriods, SetTimerPeriod(p) PROVE CallInv'
  <2>1. p # 0 => mTimerPeriod # 0
    BY <1>2 DEF SetTimerPeriod, UseOf, MainLocal, Main, callVars
  <2>2. p # 0 => TimerPeriod # 0
    BY <1>2, <2>1 DEF SetTimerPeriod, MainLocal, Main, callVars
  <2> QED BY <1>0, <1>2, <2>2 DEF SetTimerPeriod, InRange, globals, MainLocal, Main,
            callVars
<1>3. ASSUME NEW f \in Handlers \cup {NULL}, RegisterHandler(f) PROVE CallInv'
  BY <1>3 DEF RegisterHandler, globals, MainLocal, Main, callVars
<1>4. CASE MainCall
  <2> USE DEF Main, globals
  <2>1. CASE CancelEnter \/ StartEnter \/ PeriodEnter \/ SleepEnter \/ RegisterEnter
    BY <2>1 DEF CancelEnter, StartEnter, PeriodEnter, SleepEnter, RegisterEnter,
            MainEnter, Main, callVars
  <2>2. CASE Cancel \/ Start
    BY <2>2 DEF Cancel, Start, MainLeave, Main, callVars
  <2>3. CASE Period \/ Sleep \/ Register
    BY <2>3 DEF Period, Sleep, Register, MainLeave, Main, callVars
  <2>4. CASE ReadTick \/ StoreTick \/ StoreID
    BY <2>4 DEF ReadTick, StoreTick, StoreID, MainLocal, MainStore, Main, callVars
  <2>5. CASE Kill \/ KillWait \/ ClearID
    BY <2>5 DEF Kill, KillWait, ClearID, MainLocal, MainStore, Main, callVars
  <2>6. CASE SetEvent
    BY <2>6 DEF SetEvent, MainLocal, Main, callVars
  <2>7. CASE Return
    BY <2>7 DEF Return, MainLocal, Main, callVars
  <2> QED BY <1>4, <2>1, <2>2, <2>3, <2>4, <2>5, <2>6, <2>7 DEF MainCall
<1>5. CASE Fire
  BY <1>5 DEF Fire, mainVars, globals, MM, callVars
<1>6. CASE MMCallback
  BY <1>6 DEF MMCallback, Begin, Recheck, TestInterrupt, MaskedWait, HandlerReturns,
            Enter, MaskedEnter, CancelLeave, MaskedLeave, Leave, MMEnter, MMLeave,
            Suspend, MaskedSuspend, CancelResume, MaskedResume, Resume, SuspendThread,
            ResumeThread, SelfKill, SelfClear, Account, Deliver, Restore, mainVars,
            globals, MMLocal, MM, callVars
<1>7. CASE Tick
  BY <1>7 DEF Tick, mainVars, globals, callVars
<1>8. CASE UNCHANGED vars
  BY <1>8 DEF vars, mainVars, globals, callVars
<1> QED BY <1>1, <1>2, <1>3, <1>4, <1>5, <1>6, <1>7, <1>8
        DEF Next, MainThread, MMTimerThread

LEMMA OneTimerNext ==
  ASSUME StopInv, [Next]_vars
  PROVE  OneTimerInv'
<1> USE DEF StopInv, OneTimerInv, KilledHere, IdlePcs
<1>0. /\ mCancelTimerThread \in BOOLEAN /\ TimerPeriod \in Nat
      /\ live \subseteq TimerIds /\ 0 \notin TimerIds
      /\ mMMTimerThreadID \in TimerIds \cup {0} /\ timerId \in TimerIds \cup {0}
  BY TimerIdsAssumption DEF TypeOK
<1>1. CASE RaiseTPL \/ RestoreTPL
  BY <1>1 DEF RaiseTPL, RestoreTPL, Main, globals, locals, callVars
<1>2. ASSUME NEW p \in RequestedPeriods, SetTimerPeriod(p) PROVE OneTimerInv'
  BY <1>2, PeriodsAssumption DEF SetTimerPeriod, InRange, globals, locals, MainLocal,
            Main, callVars
<1>3. ASSUME NEW f \in Handlers \cup {NULL}, RegisterHandler(f) PROVE OneTimerInv'
  BY <1>3 DEF RegisterHandler, globals, locals, MainLocal, Main, callVars
<1>4. CASE MainCall
  <2> USE <1>0 DEF Main, globals, locals, CallInv, StopPcs, StartPcs
  <2>1. CASE CancelEnter \/ StartEnter \/ PeriodEnter \/ SleepEnter \/ RegisterEnter
    BY <2>1 DEF CancelEnter, StartEnter, PeriodEnter, SleepEnter, RegisterEnter,
            MainEnter, Main, callVars
  <2>2. CASE Cancel
    BY <2>2 DEF Cancel, MainLeave, Main, callVars
  <2>3. CASE Start
    BY <2>3 DEF Start, MainLeave, Main, callVars
  <2>4. CASE Period \/ Sleep \/ Register
    BY <2>4 DEF Period, Sleep, Register, MainLeave, Main, callVars
  <2>5. CASE ReadTick \/ StoreTick
    BY <2>5 DEF ReadTick, StoreTick, MainLocal, MainStore, Main, callVars
  <2>6. CASE Kill
    BY <2>6 DEF Kill, timeKillEvent, MainLocal, Main, callVars
  <2>7. CASE KillWait
    BY <2>7 DEF KillWait, MainLocal, Main, callVars
  <2>8. CASE ClearID
    BY <2>8 DEF ClearID, MainStore, Main, callVars
  <2>9. CASE SetEvent
    BY <2>9 DEF SetEvent, MainLocal, Main, callVars
  <2>10. CASE StoreID
    BY <2>10 DEF StoreID, MainStore, Main, callVars
  <2>11. CASE Return
    BY <2>11 DEF Return, MainLocal, Main, callVars
  <2> QED BY <1>4, <2>1, <2>2, <2>3, <2>4, <2>5, <2>6, <2>7, <2>8, <2>9, <2>10, <2>11
          DEF MainCall
<1>5. CASE Fire
  BY <1>5 DEF Fire, MM, mainVars, globals, callVars
<1>6. CASE MMCallback
  <2> USE <1>0 DEF MM, mainVars, globals, locals, callVars
  <2>1. CASE Begin \/ Recheck \/ TestInterrupt \/ MaskedWait \/ HandlerReturns
    BY <2>1 DEF Begin, Recheck, TestInterrupt, MaskedWait, HandlerReturns, MMLocal, MM,
            mainVars, callVars
  <2>2. CASE Enter \/ MaskedEnter \/ CancelLeave \/ MaskedLeave \/ Leave
    BY <2>2 DEF Enter, MaskedEnter, CancelLeave, MaskedLeave, Leave, MMEnter, MMLeave,
            MM, mainVars, callVars
  <2>3. CASE Suspend \/ MaskedSuspend \/ CancelResume \/ MaskedResume \/ Resume
    BY <2>3 DEF Suspend, MaskedSuspend, CancelResume, MaskedResume, Resume,
            SuspendThread, ResumeThread, MM, mainVars, callVars
  <2>4. CASE SelfKill
    BY <2>4 DEF SelfKill, timeKillEvent, MM, mainVars, callVars
  <2>5. CASE SelfClear
    BY <2>5 DEF SelfClear, MM, mainVars, callVars
  <2>6. CASE Account \/ Deliver \/ Restore
    BY <2>6 DEF Account, Deliver, Restore, MM, mainVars, callVars
  <2> QED BY <1>6, <2>1, <2>2, <2>3, <2>4, <2>5, <2>6 DEF MMCallback
<1>7. CASE Tick
  BY <1>7 DEF Tick, mainVars, globals, locals, callVars
<1>8. CASE UNCHANGED vars
  BY <1>8 DEF vars, mainVars, globals, locals, callVars
<1> QED BY <1>1, <1>2, <1>3, <1>4, <1>5, <1>6, <1>7, <1>8
        DEF Next, MainThread, MMTimerThread

LEMMA StopAlways == ASSUME "restart" \notin Uses PROVE Spec => []StopInv
<1>1. Init => StopInv
  BY TypeInit, StopInit DEF StopInv
<1>2. StopInv /\ [Next]_vars => StopInv'
  BY TypeNext, CallNext, OneTimerNext DEF StopInv
<1> QED BY <1>1, <1>2, PTL DEF Spec

(* When the firmware does not start the timer again, a SetTimerPeriod (0) that *)
(* has returned is followed by no suspension and no call to the handler.       *)
THEOREM StopIsSilent == ASSUME "restart" \notin Uses PROVE Spec => []StoppedIsSilent
<1>1. StopInv => StoppedIsSilent
  BY DEF StopInv, OneTimerInv, KilledHere, IdlePcs, StoppedIsSilent, TimerStopped
<1> QED BY <1>1, StopAlways, PTL

-----------------------------------------------------------------------------
(* With every requested period in range and long enough for timeSetEvent, the *)
(* period and the timer are the ones the last call asked for.                 *)
PeriodOK(p) == InRange(p) /\ SleepCount(p) # 0

ChangeInv ==
    /\ pc \notin {"StartEnter", "Start"} /\ TimerPeriod # 0 => mTimerPeriod = TimerPeriod
    /\ TimerPeriod # 0 => PeriodOK(TimerPeriod)
    /\ pc = "StoreID" => live = {timerId}
    /\ pc \in IdlePcs /\ TimerPeriod # 0 => live = {mMMTimerThreadID}

PeriodsOK == \A p \in RequestedPeriods \cup {DEFAULT_TIMER_TICK_DURATION} :
                p = 0 \/ PeriodOK(p)

LEMMA ChangeInit == ASSUME PeriodsOK, Init PROVE ChangeInv
<1>1. pc = "StartEnter" /\ TimerPeriod = DEFAULT_TIMER_TICK_DURATION
  BY DEF Init
<1> QED BY <1>1, PeriodsAssumption DEF PeriodsOK, ChangeInv, IdlePcs

LEMMA ChangeNext ==
  ASSUME PeriodsOK, StopInv, ChangeInv, [Next]_vars
  PROVE  ChangeInv'
<1> USE DEF ChangeInv, IdlePcs
<1>0. /\ TypeOK /\ TimerPeriod \in Nat /\ live \subseteq TimerIds /\ 0 \notin TimerIds
      /\ mMMTimerThreadID \in TimerIds \cup {0}
  BY TimerIdsAssumption DEF StopInv, TypeOK
<1>a. pc \in StopPcs => TimerPeriod = 0
  BY DEF StopInv, CallInv
<1>b. pc \in StartPcs => TimerPeriod # 0
  BY DEF StopInv, CallInv
<1>1. CASE RaiseTPL \/ RestoreTPL
  BY <1>1 DEF RaiseTPL, RestoreTPL, Main, globals, callVars
<1>2. ASSUME NEW p \in RequestedPeriods, SetTimerPeriod(p) PROVE ChangeInv'
  BY <1>2 DEF SetTimerPeriod, PeriodsOK, PeriodOK, globals, MainLocal, Main, callVars
<1>3. ASSUME NEW f \in Handlers \cup {NULL}, RegisterHandler(f) PROVE ChangeInv'
  BY <1>3 DEF RegisterHandler, globals, MainLocal, Main, callVars
<1>4. CASE MainCall
  <2> USE <1>0, <1>a, <1>b DEF Main, globals, StopPcs, StartPcs
  <2>1. CASE CancelEnter \/ StartEnter \/ PeriodEnter \/ SleepEnter \/ RegisterEnter
    BY <2>1 DEF CancelEnter, StartEnter, PeriodEnter, SleepEnter, RegisterEnter,
            MainEnter, Main, callVars
  <2>2. CASE Cancel \/ Start \/ Period \/ Sleep \/ Register
    <3>1. CASE Cancel \/ Start
      BY <3>1 DEF Cancel, Start, MainLeave, Main, callVars
    <3>2. CASE Period
      BY <3>2 DEF Period, MainLeave, Main, callVars
    <3>3. CASE Sleep \/ Register
      BY <3>3 DEF Sleep, Register, MainLeave, Main, callVars
    <3> QED BY <2>2, <3>1, <3>2, <3>3
  <2>3. CASE ReadTick \/ StoreTick
    BY <2>3 DEF ReadTick, StoreTick, MainLocal, MainStore, Main, callVars
  <2>4. CASE Kill \/ KillWait \/ ClearID
    BY <2>4 DEF Kill, KillWait, ClearID, MainLocal, MainStore, Main, callVars
  <2>5. CASE SetEvent
    <3>1. SleepCount(mTimerPeriod) # 0
      BY <2>5 DEF SetEvent, PeriodOK, MainLocal, Main, callVars
    <3>2. live = {}
      BY <2>5 DEF SetEvent, StopInv, OneTimerInv, KilledHere, MainLocal, Main, callVars
    <3> QED BY <2>5, <3>1, <3>2 DEF SetEvent, MainLocal, Main, callVars
  <2>6. CASE StoreID
    BY <2>6 DEF StoreID, MainStore, Main, callVars
  <2>7. CASE Return
    BY <2>7 DEF Return, MainLocal, Main, callVars
  <2> QED BY <1>4, <2>1, <2>2, <2>3, <2>4, <2>5, <2>6, <2>7 DEF MainCall
<1>5. CASE Fire
  BY <1>5 DEF Fire, mainVars, globals, MM, callVars
<1>6. CASE MMCallback
  <2> USE <1>0 DEF MM, mainVars, globals, callVars
  <2>1. CASE SelfKill \/ SelfClear
    <3>1. TimerPeriod = 0 /\ pc # "StoreID"
      BY <2>1, <1>b DEF SelfKill, SelfClear, StopInv, CallInv, OneTimerInv, StartPcs,
            MM, mainVars, callVars
    <3> QED BY <2>1, <3>1 DEF SelfKill, SelfClear, MM, mainVars, callVars
  <2>2. CASE ~ (SelfKill \/ SelfClear)
    BY <1>6, <2>2 DEF MMCallback, Begin, Recheck, TestInterrupt, MaskedWait,
            HandlerReturns, Enter, MaskedEnter, CancelLeave, MaskedLeave, Leave,
            MMEnter, MMLeave, Suspend, MaskedSuspend, CancelResume, MaskedResume,
            Resume, SuspendThread, ResumeThread, Account, Deliver, Restore, MMLocal,
            MM, mainVars, callVars
  <2> QED BY <2>1, <2>2
<1>7. CASE Tick
  BY <1>7 DEF Tick, mainVars, globals, callVars
<1>8. CASE UNCHANGED vars
  BY <1>8 DEF vars, mainVars, globals, callVars
<1> QED BY <1>1, <1>2, <1>3, <1>4, <1>5, <1>6, <1>7, <1>8
        DEF Next, MainThread, MMTimerThread

(* When no timer is started again after a stop and every requested period is  *)
(* in range and not rounded to nothing, SetTimerPeriod's EFI_SUCCESS is true. *)
THEOREM SuccessIsTrue ==
  ASSUME "restart" \notin Uses, PeriodsOK
  PROVE  Spec => []SuccessMeansChanged
<1>1. Init => ChangeInv
  BY ChangeInit
<1>2. StopInv /\ ChangeInv /\ [Next]_vars => ChangeInv'
  BY ChangeNext
<1>3. StopInv /\ ChangeInv => SuccessMeansChanged
  BY DEF StopInv, CallInv, OneTimerInv, ChangeInv, KilledHere, IdlePcs, SuccessMeansChanged
<1> QED BY <1>1, <1>2, <1>3, StopAlways, PTL DEF Spec

-----------------------------------------------------------------------------
(* Between the tests of RegisterHandler and its store nothing they looked at *)
(* changes, although it is looked at without the lock.                       *)
RegisterInv == pc \in {"RegisterEnter", "Register"} =>
                   (NotifyFunction = NULL) # (mTimerNotifyFunction = NULL)

LEMMA RegisterNext == ASSUME RegisterInv, [Next]_vars PROVE RegisterInv'
<1> USE DEF RegisterInv
<1>1. CASE RaiseTPL \/ RestoreTPL
  BY <1>1 DEF RaiseTPL, RestoreTPL, Main, globals, callVars
<1>2. ASSUME NEW p \in RequestedPeriods, SetTimerPeriod(p) PROVE RegisterInv'
  BY <1>2 DEF SetTimerPeriod, globals, MainLocal, Main, callVars
<1>3. ASSUME NEW f \in Handlers \cup {NULL}, RegisterHandler(f) PROVE RegisterInv'
  BY <1>3 DEF RegisterHandler, globals, MainLocal, Main, callVars
<1>4. CASE MainCall
  BY <1>4 DEF MainCall, Main, globals, CancelEnter, StartEnter, PeriodEnter,
            SleepEnter, RegisterEnter, MainEnter, Cancel, Start, Period, Sleep,
            Register, MainLeave, ReadTick, StoreTick, StoreID, Kill, KillWait, ClearID,
            SetEvent, Return, MainLocal, MainStore, callVars
<1>5. CASE Fire
  BY <1>5 DEF Fire, mainVars, globals, MM, callVars
<1>6. CASE MMCallback
  BY <1>6 DEF MMCallback, Begin, Recheck, TestInterrupt, MaskedWait, HandlerReturns,
            Enter, MaskedEnter, CancelLeave, MaskedLeave, Leave, MMEnter, MMLeave,
            Suspend, MaskedSuspend, CancelResume, MaskedResume, Resume, SuspendThread,
            ResumeThread, SelfKill, SelfClear, Account, Deliver, Restore, mainVars,
            globals, MMLocal, MM, callVars
<1>7. CASE Tick
  BY <1>7 DEF Tick, mainVars, globals, callVars
<1>8. CASE UNCHANGED vars
  BY <1>8 DEF vars, mainVars, globals, callVars
<1> QED BY <1>1, <1>2, <1>3, <1>4, <1>5, <1>6, <1>7, <1>8
        DEF Next, MainThread, MMTimerThread

LEMMA AbstractInit == Init => Abstract!Init
BY Zenon DEF Init, Abstract!Init, Raised

LEMMA AbstractNext ==
  ASSUME SafetyInv, RegisterInv, [Next]_vars
  PROVE  [Abstract!Next]_(Abstract!vars)
<1> USE TplAssumption DEF Raised, Abstract!vars
<1>0. /\ InterruptState \in BOOLEAN
      /\ tpl \in {TPL_APPLICATION, TPL_HIGH_LEVEL}
      /\ NotifyFunction \in Handlers \cup {NULL}
      /\ MaskInv
  BY DEF SafetyInv, TypeOK
<1>a. ~suspended => mmpc \notin {"Handler", "Restore", "Deliver", "Account"}
  BY DEF SafetyInv, LockInv, SuspendedPcs
<1>1. CASE RaiseTPL
  <2>1. ~suspended /\ InterruptState /\ ~InterruptState'
    BY <1>0, <1>1, <1>a DEF RaiseTPL, Main, MaskInv, WinNtDisableInterrupt, callVars
  <2>2. Abstract!SetMask
    BY <1>1, <1>a, <2>1 DEF RaiseTPL, Abstract!SetMask, globals, locals, Main, callVars
  <2> QED BY <2>2 DEF Abstract!Next
<1>2. CASE RestoreTPL
  <2>1. ~suspended /\ ~InterruptState /\ InterruptState'
    BY <1>0, <1>2, <1>a DEF RestoreTPL, Main, MaskInv, WinNtEnableInterrupt, callVars
  <2>2. Abstract!SetMask
    BY <1>2, <1>a, <2>1 DEF RestoreTPL, Abstract!SetMask, globals, locals, Main,
            callVars
  <2> QED BY <2>2 DEF Abstract!Next
<1>3. ASSUME NEW p \in RequestedPeriods, SetTimerPeriod(p) PROVE UNCHANGED Abstract!vars
  BY <1>3 DEF SetTimerPeriod, cpuVars, globals, locals, MainLocal, Main, callVars
<1>4. ASSUME NEW f \in Handlers \cup {NULL}, RegisterHandler(f) PROVE UNCHANGED Abstract!vars
  BY <1>4 DEF RegisterHandler, cpuVars, globals, locals, MainLocal, Main, callVars
<1>5. CASE Register
  <2>1. Abstract!Register(NotifyFunction)
    BY <1>5, <1>a DEF Register, MainLeave, Main, RegisterInv, cpuVars, locals,
            Abstract!Register, callVars
  <2> QED BY <1>0, <2>1 DEF Abstract!Next
<1>6. CASE MainCall /\ ~Register
  BY <1>6 DEF MainCall, Main, cpuVars, globals, locals, CancelEnter, StartEnter,
            PeriodEnter, SleepEnter, RegisterEnter, MainEnter, Cancel, Start, Period,
            Sleep, MainLeave, ReadTick, StoreTick, StoreID, Kill, KillWait, ClearID,
            SetEvent, Return, MainLocal, MainStore, callVars
<1>7. CASE Deliver
  <2>1. mmpc = "Deliver" /\ InterruptState /\ tpl # TPL_HIGH_LEVEL
    BY <1>0, <1>7 DEF Deliver, MM, MaskInv, mainVars, callVars
  <2>2. CASE mTimerNotifyFunction = NULL
    BY <1>7, <2>1, <2>2 DEF Deliver, MM, globals, mainVars, callVars
  <2>3. CASE mTimerNotifyFunction # NULL
    <3>1. Abstract!Interrupt
      BY <1>7, <2>1, <2>3 DEF Deliver, MM, globals, Abstract!Interrupt, mainVars,
            callVars
    <3> QED BY <3>1 DEF Abstract!Next
  <2> QED BY <2>2, <2>3
<1>8. CASE HandlerReturns
  <2>1. Abstract!Return
    BY <1>0, <1>8 DEF HandlerReturns, MM, MaskInv, cpuVars, globals, locals,
            Abstract!Return, MMLocal, mainVars, callVars
  <2> QED BY <2>1 DEF Abstract!Next
<1>9. CASE Restore
  BY <1>0, <1>9 DEF Restore, MM, MaskInv, globals, locals, mainVars, callVars
<1>10. CASE Fire
  BY <1>10 DEF Fire, MM, cpuVars, globals, mainVars, callVars
<1>11. CASE MMCallback /\ ~Deliver /\ ~HandlerReturns /\ ~Restore
  BY <1>11 DEF MMCallback, MM, Begin, Recheck, TestInterrupt, MaskedWait, Enter,
            MaskedEnter, CancelLeave, MaskedLeave, Leave, MMEnter, MMLeave, Suspend,
            MaskedSuspend, CancelResume, MaskedResume, Resume, SuspendThread,
            ResumeThread, SelfKill, SelfClear, Account, cpuVars, globals, locals,
            MMLocal, mainVars, callVars
<1>12. CASE Tick
  BY <1>12 DEF Tick, cpuVars, globals, locals
<1>13. CASE UNCHANGED vars
  BY <1>13 DEF vars, cpuVars, globals, locals
<1> QED BY <1>1, <1>2, <1>3, <1>4, <1>5, <1>6, <1>7, <1>8, <1>9, <1>10, <1>11, <1>12,
           <1>13 DEF Next, MainThread, MMTimerThread

(* The driver implements EmulatedInterrupt's initial condition and steps. *)
THEOREM ImplementsInterrupt ==
  Spec => Abstract!Init /\ [][Abstract!Next]_(Abstract!vars)
<1>1. Init => RegisterInv
  BY DEF Init, RegisterInv
<1>2. RegisterInv /\ [Next]_vars => RegisterInv'
  BY RegisterNext
<1>3. SafetyInv /\ RegisterInv /\ [Next]_vars => [Abstract!Next]_(Abstract!vars)
  BY AbstractNext
<1> QED BY <1>1, <1>2, <1>3, AbstractInit, SafetyAlways, PTL DEF Spec

-----------------------------------------------------------------------------
(***************************************************************************)
(* Time.  While the firmware only ever stops the timer, mNtLastTick is the *)
(* image of an instant in the past up to which at most that much time has  *)
(* been delivered, whatever the tick counter's width.                      *)
(***************************************************************************)
(* Division with remainder. *)
LEMMA DivMod == ASSUME NEW n \in Int, NEW W \in Nat \ {0}
                PROVE  n = W * (n \div W) + (n % W) /\ n \div W \in Int /\ n % W \in 0 .. W - 1
OBVIOUS
(* A difference of wrapped ticks is no longer than the time between them. *)
LEMMA ModDiff ==
  ASSUME NEW a \in Nat, NEW c \in Nat, a <= c, NEW W \in Nat \ {0}
  PROVE  ((c % W) - (a % W)) % W <= c - a
<1> DEFINE d == (c % W) - (a % W)
           k == (c \div W) - (a \div W)
           q == d \div W
<1>1. c - a = W * k + d /\ d \in Int /\ k \in Int
  BY DivMod
<1>2. d = W * q + (d % W) /\ q \in Int /\ d % W \in 0 .. W - 1
  BY <1>1, DivMod
<1>3. c - a = W * (k + q) + (d % W)
  BY <1>1, <1>2
<1>4. k + q >= 0
  <2>1. SUFFICES ASSUME k + q <= -1 PROVE FALSE
    BY <1>1, <1>2
  <2>2. W * (k + q) <= -W
    BY <1>1, <1>2, <2>1
  <2> QED BY <1>2, <1>3, <2>2
<1>5. W * (k + q) >= 0
  BY <1>1, <1>2, <1>4
<1> QED BY <1>2, <1>3, <1>5

LEMMA AddWithin ==
  ASSUME NEW a \in Nat, NEW c \in Nat, NEW x \in Nat, NEW d \in Nat,
         x <= a, a <= c, d <= c - a
  PROVE  x <= c /\ x + d <= c
OBVIOUS

StartInv ==
    /\ pc \in StartPcs => driver = "loading"
    /\ pc \in {"Kill", "KillWait", "ClearID"} /\ TimerPeriod # 0 => driver = "loading"
    /\ driver = "loading" /\ pc \notin {"StoreID", "Return"} =>
           live = {} /\ mmpc = "none" /\ credited = 0
    /\ pc = "StoreTick" => tick <= clock

TickInv == \E a \in 0 .. clock :
              /\ a % TickWrap = mNtLastTick
              /\ credited <= a
              /\ mmpc = "Deliver" => credited + Delta <= a

TimeInv == StopInv /\ StartInv /\ TickInv

LEMMA TimeInit == Init => StartInv /\ TickInv
<1> SUFFICES ASSUME Init PROVE StartInv /\ TickInv
  OBVIOUS
<1>1. 0 % TickWrap = 0
  BY TickAssumption
<1>2. StartInv
  BY DEF Init, StartInv, StartPcs
<1>3. clock = 0 /\ mNtLastTick = 0 /\ credited = 0 /\ mmpc = "none"
  BY DEF Init
<1>4. TickInv
  BY <1>1, <1>3 DEF TickInv
<1> QED BY <1>2, <1>4

LEMMA StartNext ==
  ASSUME Uses \subseteq {"stop"}, StopInv, StartInv, [Next]_vars
  PROVE  StartInv'
<1> USE DEF StartInv, StartPcs
<1>0. clock \in Nat /\ tick \in Nat /\ credited \in Nat
  BY TickAssumption DEF StopInv, TypeOK
<1>a. pc \in StopPcs => TimerPeriod = 0
  BY DEF StopInv, CallInv
<1>1. CASE RaiseTPL \/ RestoreTPL
  BY <1>1 DEF RaiseTPL, RestoreTPL, Main, callVars
<1>2. ASSUME NEW p \in RequestedPeriods, SetTimerPeriod(p) PROVE StartInv'
  <2>1. p = 0
    BY <1>2 DEF SetTimerPeriod, UseOf, MainLocal, Main, callVars
  <2> QED BY <1>2, <2>1 DEF SetTimerPeriod, MainLocal, Main, callVars
<1>3. ASSUME NEW f \in Handlers \cup {NULL}, RegisterHandler(f) PROVE StartInv'
  BY <1>3 DEF RegisterHandler, MainLocal, Main, callVars
<1>4. CASE MainCall
  <2> USE <1>0, <1>a DEF Main, StopPcs
  <2>1. CASE CancelEnter \/ StartEnter \/ PeriodEnter \/ SleepEnter \/ RegisterEnter
    BY <2>1 DEF CancelEnter, StartEnter, PeriodEnter, SleepEnter, RegisterEnter,
            MainEnter, Main, callVars
  <2>2. CASE Cancel \/ Start \/ Period \/ Sleep \/ Register
    <3>1. CASE Cancel \/ Start
      BY <3>1 DEF Cancel, Start, MainLeave, Main, callVars
    <3>2. CASE Period
      BY <3>2 DEF Period, MainLeave, Main, callVars
    <3>3. CASE Sleep \/ Register
      BY <3>3 DEF Sleep, Register, MainLeave, Main, callVars
    <3> QED BY <2>2, <3>1, <3>2, <3>3
  <2>3. CASE ReadTick
    <3>1. clock % TickWrap <= clock
      BY <1>0, TickAssumption, DivMod
    <3> QED BY <2>3, <3>1 DEF ReadTick, GetTickCount, MainLocal, Main, callVars
  <2>4. CASE StoreTick \/ StoreID \/ ClearID
    BY <2>4 DEF StoreTick, StoreID, ClearID, MainStore, Main, callVars
  <2>5. CASE Kill \/ KillWait \/ SetEvent
    BY <2>5 DEF Kill, KillWait, SetEvent, timeKillEvent, MainLocal, Main, callVars
  <2>6. CASE Return
    BY <2>6 DEF Return, MainLocal, Main, callVars
  <2> QED BY <1>4, <2>1, <2>2, <2>3, <2>4, <2>5, <2>6 DEF MainCall
<1>5. CASE Fire
  BY <1>5 DEF Fire, MM, mainVars, callVars
<1>6. CASE MMCallback
  BY <1>6 DEF MMCallback, MM, Begin, Recheck, TestInterrupt, MaskedWait,
            HandlerReturns, Enter, MaskedEnter, CancelLeave, MaskedLeave, Leave,
            MMEnter, MMLeave, Suspend, MaskedSuspend, CancelResume, MaskedResume,
            Resume, SuspendThread, ResumeThread, SelfKill, SelfClear, Account, Deliver,
            Restore, mainVars, MMLocal, callVars
<1>7. CASE Tick
  BY <1>0, <1>7 DEF Tick, mainVars, callVars
<1>8. CASE UNCHANGED vars
  BY <1>8 DEF vars, mainVars, callVars
<1> QED BY <1>1, <1>2, <1>3, <1>4, <1>5, <1>6, <1>7, <1>8
        DEF Next, MainThread, MMTimerThread

LEMMA TickNext ==
  ASSUME TimeInv, [Next]_vars
  PROVE  TickInv'
<1>0. /\ clock \in Nat /\ credited \in Nat /\ Delta \in Nat /\ tick \in 0 .. TickWrap - 1
      /\ mNtLastTick \in 0 .. TickWrap - 1 /\ TickWrap \in Nat \ {0}
  BY TickAssumption DEF TimeInv, StopInv, TypeOK
<1>a. PICK a \in 0 .. clock : /\ a % TickWrap = mNtLastTick
                              /\ credited <= a
                              /\ mmpc = "Deliver" => credited + Delta <= a
  BY DEF TimeInv, TickInv
<1>b. a \in Nat /\ a <= clock
  BY <1>0
<1>1. CASE StoreTick
  <2>1. tick \in 0 .. clock
    BY <1>0, <1>1 DEF StoreTick, Main, TimeInv, StartInv, MainStore, callVars
  <2>2. mmpc = "none" /\ credited = 0
    BY <1>1 DEF StoreTick, Main, TimeInv, StartInv, StartPcs, MainStore, callVars
  <2>3. tick % TickWrap = tick
    BY <1>0
  <2>4. mNtLastTick' = tick /\ clock' = clock /\ credited' = 0 /\ mmpc' = "none"
    BY <1>1, <2>2 DEF StoreTick, MainStore, Main, callVars
  <2>5. 0 <= tick
    BY <2>1
  <2> QED BY <2>1, <2>3, <2>4, <2>5 DEF TickInv
<1>2. CASE Account
  <2>1. Delta' = ((clock % TickWrap) - (a % TickWrap)) % TickWrap
    BY <1>2, <1>a DEF Account, GetTickCount, MM, mainVars, callVars
  <2>2. Delta' <= clock - a
    BY <1>0, <1>b, <2>1, ModDiff
  <2>3. Delta' \in Nat
    BY <1>0, <2>1, <1>a, DivMod
  <2>4. credited' = credited /\ clock' = clock /\ mNtLastTick' = clock % TickWrap
    BY <1>2 DEF Account, GetTickCount, MM, mainVars, callVars
  <2>5. credited <= clock /\ credited + Delta' <= clock
    <3>1. credited <= a
      BY <1>a
    <3>2. credited \in Nat /\ clock \in Nat
      BY <1>0
    <3> QED BY <3>1, <3>2, <1>b, <2>2, <2>3, AddWithin
  <2>6. clock \in 0 .. clock
    BY <1>0
  <2> QED BY <2>4, <2>5, <2>6 DEF TickInv
<1>3. CASE Deliver
  <2>1. mNtLastTick' = mNtLastTick /\ clock' = clock /\ mmpc' # "Deliver"
    BY <1>3 DEF Deliver, MM, globals, mainVars, callVars
  <2>2. mmpc = "Deliver" /\ (credited' = credited \/ credited' = credited + Delta)
    BY <1>3 DEF Deliver, MM, mainVars, callVars
  <2>3. credited' <= a
    BY <1>a, <2>2
  <2> QED BY <1>a, <2>1, <2>3 DEF TickInv
<1>4. CASE Tick
  <2>1. /\ mNtLastTick' = mNtLastTick /\ credited' = credited /\ mmpc' = mmpc
        /\ Delta' = Delta /\ clock' = clock + 1
    BY <1>4 DEF Tick, globals, locals
  <2>2. a \in 0 .. clock + 1
    BY <1>0, <1>b
  <2> QED BY <1>a, <2>1, <2>2 DEF TickInv
<1>5. CASE ~StoreTick /\ ~Account /\ ~Deliver /\ ~Tick
  <2>1. mNtLastTick' = mNtLastTick /\ clock' = clock /\ credited' = credited
        /\ (mmpc' # "Deliver" \/ (mmpc' = mmpc /\ Delta' = Delta))
    BY <1>5 DEF Next, MainThread, MMTimerThread, MainCall, MMCallback, RaiseTPL,
            RestoreTPL, SetTimerPeriod, RegisterHandler, Fire, CancelEnter, StartEnter,
            PeriodEnter, SleepEnter, RegisterEnter, MainEnter, Cancel, Start, Period,
            Sleep, Register, MainLeave, ReadTick, StoreID, Kill, KillWait, ClearID,
            SetEvent, Return, Begin, Recheck, TestInterrupt, MaskedWait,
            HandlerReturns, Enter, MaskedEnter, CancelLeave, MaskedLeave, Leave,
            MMEnter, MMLeave, Suspend, MaskedSuspend, CancelResume, MaskedResume,
            Resume, SuspendThread, ResumeThread, SelfKill, SelfClear, Restore, vars,
            globals, locals, MM, MainLocal, MainStore, Main, callVars, MMLocal, mainVars
  <2> QED BY <1>a, <2>1 DEF TickInv
<1> QED BY <1>1, <1>2, <1>3, <1>4, <1>5

(* While the firmware uses SetTimerPeriod only to stop the timer, the time the *)
(* handlers have been told of never exceeds the time that has passed.          *)
THEOREM TimeIsNotAhead ==
  ASSUME Uses \subseteq {"stop"}
  PROVE  Spec => []FirmwareTimeNotAhead
<1>1. Init => StartInv /\ TickInv
  BY TimeInit
<1>2. StopInv /\ StartInv /\ TickInv /\ [Next]_vars => StartInv' /\ TickInv'
  BY StartNext, TickNext DEF TimeInv
<1>3. StopInv /\ TickInv => FirmwareTimeNotAhead
  BY DEF StopInv, TypeOK, TickInv, FirmwareTimeNotAhead
<1>4. Spec => []StopInv
  BY StopAlways
<1> QED BY <1>1, <1>2, <1>3, <1>4, PTL DEF Spec
=============================================================================
