----------------------------- MODULE GopScreen -----------------------------
(***************************************************************************)
(* The display half of the NT32 graphics driver (WinNtGopDxe): a child     *)
(* thread for each window, the frame buffer that the firmware writes and   *)
(* the window thread shows, and the life of a controller from the driver's *)
(* Start to its Stop or to ExitBootServices.                               *)
(*                                                                         *)
(* Three kinds of actor share the state: "main", the firmware's thread;    *)
(* "event", an event notification that interrupts it below TPL_NOTIFY and  *)
(* draws (a cursor); and one window thread per controller.  A call that    *)
(* Windows carries out on the window's own thread (UpdateWindow,           *)
(* MoveWindow, SendMessage) stays in the queue sent[g] until that thread   *)
(* has dealt with it.  A frame buffer is one block of the Windows heap,    *)
(* with room for a number of pixels; its header counts as Header pixels.   *)
(*                                                                         *)
(* Each controller is started once: starting it again allocates a new      *)
(* private structure, which is another element of Gop.                     *)
(***************************************************************************)
EXTENDS Integers, Sequences

CONSTANTS
    Gop,         \* the graphics controllers, by their private structures
    Horizontal,  \* mGopModeData: the width of each mode, in pixels
    Vertical,    \* mGopModeData: the height of each mode
    Header,      \* sizeof (BITMAPV4HEADER), in pixels
    Addr,        \* the places of a block in the Windows heap
    Scenarios,   \* what may happen in a life of the firmware: see below
    CountLimit,  \* mTlsIndexUseCount is a DWORD: it wraps here
    Nil

Modes == DOMAIN Horizontal

ASSUME ModesAssumption ==
    /\ Horizontal \in [Modes -> Nat \ {0}]
    /\ Vertical \in [Modes -> Nat \ {0}]

(* A block of the heap.                                                    *)
Block == [mode : Modes, room : Nat]

ASSUME HeapAssumption ==
    /\ Header \in Nat \ {0}
    /\ Nil \notin Addr /\ Nil \notin Modes /\ Nil \notin Block /\ Nil \notin Gop

(* The controllers there are, those that may be disconnected and those     *)
(* that an event notification draws on; whether the fill line may not be   *)
(* allocated, and whether the firmware calls ExitBootServices.             *)
ASSUME ScenarioAssumption ==
    /\ Scenarios \subseteq [starts : SUBSET Gop, stops : SUBSET Gop,
                            cursor : SUBSET Gop, fails : BOOLEAN, exits : BOOLEAN]
    /\ CountLimit \in Nat \ {0, 1}

VARIABLES
    private,    \* the private structure: not allocated yet, live or freed
    needs,      \* HardwareNeedsStarting
    mode,       \* Mode->Mode, with the resolution in Mode->Info; Nil: 0 by 0
    heap,       \* the live blocks: the resolution they are for, their room
    dib,        \* VirtualScreenInfo
    pixels,     \* VirtualScreen, by the block it points into
    fill,       \* the number of pixels of FillLine
    thread,     \* where the window thread is
    paint,      \* what SetDIBitsToDevice is drawing from
    sent,       \* calls waiting for the window thread
    inited,     \* ThreadInited
    visible,    \* the window is shown
    invalid,    \* the window has a region to repaint
    tls,        \* mTlsIndex is allocated
    users,      \* mTlsIndexUseCount
    exitEvent,  \* contexts of the ExitBootServices notifications
    timer,      \* contexts of the keyboard timers
    pc,         \* where main and event are
    cur,        \* the controller they work on
    blt,        \* the Blt they carry out
    scenario    \* which of Scenarios this life is

displayVars == <<thread, paint, inited, visible, invalid>>
screenVars == <<heap, dib, pixels>>
privateVars == <<private, needs, mode, fill>>
globalVars == <<tls, users, exitEvent, timer, scenario>>
screenState ==
    <<displayVars, screenVars, privateVars, globalVars, sent, pc, cur, blt>>

Actor == {"main", "event"}
Size(m) == Horizontal[m] * Vertical[m]
Live(a) == a # Nil /\ heap[a] # Nil
Awaits(g, call) == \E i \in DOMAIN sent[g] : sent[g][i] = call
IsFirst(g, call) == sent[g] # <<>> /\ Head(sent[g]) = call

ScreenInit ==
    /\ private = [g \in Gop |-> "none"]
    /\ needs = [g \in Gop |-> TRUE]
    /\ mode = [g \in Gop |-> Nil]
    /\ heap = [a \in Addr |-> Nil]
    /\ dib = [g \in Gop |-> Nil]
    /\ pixels = [g \in Gop |-> Nil]
    /\ fill = [g \in Gop |-> 0]
    /\ thread = [g \in Gop |-> "none"]
    /\ paint = [g \in Gop |-> Nil]
    /\ sent = [g \in Gop |-> <<>>]
    /\ inited = [g \in Gop |-> FALSE]
    /\ visible = [g \in Gop |-> FALSE]
    /\ invalid = [g \in Gop |-> FALSE]
    /\ tls = FALSE
    /\ users = 0
    /\ exitEvent = {}
    /\ timer = {}
    /\ pc = [t \in Actor |-> "idle"]
    /\ cur = [t \in Actor |-> Nil]
    /\ blt = [t \in Actor |-> Nil]
    /\ scenario \in Scenarios

----------------------------------------------------------------------------
(* An event notification runs to its end before main goes on.              *)
Runs(t) == t = "main" => pc["event"] = "idle"

(* Actor t goes from one label to another, on the controller it works on. *)
At(t, label) == Runs(t) /\ pc[t] = label
Goto(t, label) ==
    /\ pc' = [pc EXCEPT ![t] = label]
    /\ UNCHANGED cur

Request(t, g, label) ==
    /\ At(t, "idle")
    /\ private[g] = "live"
    /\ pc' = [pc EXCEPT ![t] = label]
    /\ cur' = [cur EXCEPT ![t] = g]

(* The driver's Start: a private structure, no window yet.                 *)
Start(g) ==
    /\ At("main", "idle")
    /\ private[g] = "none" /\ g \in scenario.starts
    /\ private' = [private EXCEPT ![g] = "live"]
    /\ needs' = [needs EXCEPT ![g] = TRUE]
    /\ timer' = timer \cup {g}
    /\ UNCHANGED <<mode, fill, displayVars, screenVars, tls, users, exitEvent,
                   scenario, sent, pc, cur, blt>>

(* SetMode publishes the resolution before anything else.                  *)
SetMode(g, m) ==
    /\ Request("main", g, IF needs[g] THEN "start" ELSE "free")
    /\ mode' = [mode EXCEPT ![g] = m]
    /\ UNCHANGED <<private, needs, fill, displayVars, screenVars, globalVars,
                   sent, blt>>

(* A fault: only the first window counts as a user.                        *)
StartWindowCountsOnce ==
    LET g == cur["main"] IN
    /\ At("main", "start")
    /\ tls' = TRUE
    /\ users' = IF tls THEN users ELSE (users + 1) % CountLimit
    /\ exitEvent' = exitEvent \cup {g}
    /\ thread' = [thread EXCEPT ![g] = "init"]
    /\ Goto("main", "inited")
    /\ UNCHANGED <<privateVars, screenVars, paint, inited, visible, invalid,
                   timer, scenario, sent, blt>>

StartWindow ==
    LET g == cur["main"] IN
    /\ At("main", "start")
    /\ tls' = TRUE
    /\ users' = (users + 1) % CountLimit
    /\ exitEvent' = exitEvent \cup {g}
    /\ thread' = [thread EXCEPT ![g] = "init"]
    /\ Goto("main", "inited")
    /\ UNCHANGED <<privateVars, screenVars, paint, inited, visible, invalid,
                   timer, scenario, sent, blt>>

(* A fault: SetMode goes on without waiting for the window.                *)
WindowStartedEarly ==
    LET g == cur["main"] IN
    /\ At("main", "inited")
    /\ needs' = [needs EXCEPT ![g] = FALSE]
    /\ Goto("main", "fill")
    /\ UNCHANGED <<private, mode, fill, screenVars, displayVars, globalVars,
                   sent, blt>>

WindowStarted ==
    LET g == cur["main"] IN
    /\ At("main", "inited")
    /\ inited[g]
    /\ inited' = [inited EXCEPT ![g] = FALSE]
    /\ needs' = [needs EXCEPT ![g] = FALSE]
    /\ Goto("main", "fill")
    /\ UNCHANGED <<private, mode, fill, screenVars, thread, paint, visible,
                   invalid, globalVars, sent, blt>>

(* Changing the mode of a window: free the frame buffer, allocate another, *)
(* point VirtualScreen into it, and resize the window on its own thread.   *)
FreeScreen ==
    LET g == cur["main"] IN
    /\ At("main", "free")
    /\ heap' = [heap EXCEPT ![dib[g]] = Nil]
    /\ Goto("main", "alloc")
    /\ UNCHANGED <<dib, pixels, privateVars, displayVars, globalVars, sent, blt>>

AllocScreen ==
    LET g == cur["main"] IN
    /\ At("main", "alloc")
    /\ \E a \in Addr :
         /\ heap[a] = Nil
         /\ heap' = [heap EXCEPT ![a] =
                       [mode |-> mode[g], room |-> Size(mode[g]) + Header]]
         /\ dib' = [dib EXCEPT ![g] = a]
    /\ Goto("main", "point")
    /\ UNCHANGED <<pixels, privateVars, displayVars, globalVars, sent, blt>>

PointScreen ==
    LET g == cur["main"] IN
    /\ At("main", "point")
    /\ pixels' = [pixels EXCEPT ![g] = dib[g]]
    /\ Goto("main", "move")
    /\ UNCHANGED <<heap, dib, privateVars, displayVars, globalVars, sent, blt>>

MoveWindow ==
    LET g == cur["main"] IN
    /\ At("main", "move")
    /\ sent' = [sent EXCEPT ![g] = Append(@, "move")]
    /\ Goto("main", "moved")
    /\ UNCHANGED <<privateVars, screenVars, displayVars, globalVars, blt>>

(* A fault: the window is resized by a message posted to its thread.       *)
MovePosted ==
    /\ At("main", "moved")
    /\ Goto("main", "fill")
    /\ UNCHANGED <<privateVars, screenVars, displayVars, globalVars, sent, blt>>

MoveReturns ==
    /\ At("main", "moved")
    /\ ~Awaits(cur["main"], "move")
    /\ Goto("main", "fill")
    /\ UNCHANGED <<privateVars, screenVars, displayVars, globalVars, sent, blt>>

(* SetMode ends by clearing the screen with a line of its width; in a      *)
(* variant with a fault it keeps the line it has.                          *)
FillLineOnce ==
    LET g == cur["main"]
        m == mode[g] IN
    /\ At("main", "fill")
    /\ fill' = [fill EXCEPT ![g] = IF @ = 0 THEN Horizontal[m] ELSE @]
    /\ blt' = [blt EXCEPT !["main"] =
                 [op |-> "fill", width |-> Horizontal[m], last |-> Size(m) - 1]]
    /\ Goto("main", "copy")
    /\ UNCHANGED <<private, needs, mode, screenVars, displayVars, globalVars, sent>>

FillLine ==
    LET g == cur["main"]
        m == mode[g] IN
    /\ At("main", "fill")
    /\ fill' = [fill EXCEPT ![g] = Horizontal[m]]
    /\ blt' = [blt EXCEPT !["main"] =
                 [op |-> "fill", width |-> Horizontal[m], last |-> Size(m) - 1]]
    /\ Goto("main", "copy")
    /\ UNCHANGED <<private, needs, mode, screenVars, displayVars, globalVars, sent>>

FillLineFails ==
    /\ scenario.fails
    /\ At("main", "fill")
    /\ Goto("main", "idle")
    /\ UNCHANGED <<privateVars, screenVars, displayVars, globalVars, sent, blt>>

(* Blt: the rectangle is checked against the resolution in Mode->Info,     *)
(* then the pixels are copied at TPL_NOTIFY.  The screen is upside down:   *)
(* the last pixel touched lies in the rectangle's first line.  An event    *)
(* cannot interrupt main there; it draws on a window that was started.     *)
(* Stop runs when nobody draws any more, ExitBootServices without a timer. *)
Fits(m, x, y, w, h) == m # Nil /\ x + w <= Horizontal[m] /\ y + h <= Vertical[m]

LastPixel(m, x, y, w) == (Vertical[m] - y - 1) * Horizontal[m] + x + w - 1

Blt(t, g, op) ==
    /\ t = "event" => /\ g \in scenario.cursor /\ ~needs[g]
                      /\ pc["main"] \notin {"copy", "update", "stop", "kill", "off"}
    /\ Request(t, g, "copy")
    /\ \E w \in 1 .. 2, h \in 1 .. 2, x \in 0 .. 1, y \in 0 .. 1 :
         /\ Fits(mode[g], x, y, w, h)
         /\ blt' = [blt EXCEPT ![t] =
                      [op |-> op, width |-> w, last |-> LastPixel(mode[g], x, y, w)]]
    /\ UNCHANGED <<privateVars, screenVars, displayVars, globalVars, sent>>

Copy(t) ==
    LET g == cur[t] IN
    /\ At(t, "copy")
    /\ IF blt[t].op = "read"
         THEN Goto(t, "idle") /\ UNCHANGED <<sent, invalid>>
         ELSE /\ Goto(t, "update")
              /\ invalid' = [invalid EXCEPT ![g] = visible[g]]
              /\ sent' = [sent EXCEPT ![g] =
                            IF visible[g] THEN Append(@, "paint") ELSE @]
    /\ blt' = [blt EXCEPT ![t] = Nil]
    /\ UNCHANGED <<privateVars, screenVars, thread, paint, inited, visible,
                   globalVars>>

UpdateReturns(t) ==
    /\ At(t, "update")
    /\ ~Awaits(cur[t], "paint")
    /\ Goto(t, "idle")
    /\ UNCHANGED <<privateVars, screenVars, displayVars, globalVars, sent, blt>>

----------------------------------------------------------------------------
(* WinNtGopDestructor, from the driver's Stop or at ExitBootServices.  A   *)
(* message to a window that is gone fails at once.  Only Stop frees the    *)
(* private structure; the ExitBootServices notification is never closed.   *)
SendDestroy(g) ==
    sent' = [sent EXCEPT ![g] = IF thread[g] = "exited" THEN @ ELSE Append(@, "destroy")]

Stop(g) ==
    /\ g \in scenario.stops
    /\ Request("main", g, IF needs[g] THEN "idle" ELSE "stop")
    /\ IF needs[g]
         THEN private' = [private EXCEPT ![g] = "freed"] /\ UNCHANGED sent
         ELSE SendDestroy(g) /\ UNCHANGED private
    /\ UNCHANGED <<needs, mode, fill, displayVars, screenVars, globalVars, blt>>

(* A fault: the index is released with the first window destroyed.         *)
ReleaseTlsAlways ==
    /\ users' = (users + CountLimit - 1) % CountLimit
    /\ tls' = FALSE

ReleaseTls ==
    LET left == (users + CountLimit - 1) % CountLimit IN
    /\ users' = left
    /\ tls' = IF left = 0 THEN FALSE ELSE tls

StopReturns ==
    LET g == cur["main"] IN
    /\ At("main", "stop")
    /\ ~Awaits(g, "destroy")
    /\ ReleaseTls
    /\ timer' = timer \ {g}
    /\ private' = [private EXCEPT ![g] = "freed"]
    /\ Goto("main", "idle")
    /\ UNCHANGED <<needs, mode, fill, displayVars, screenVars, exitEvent, scenario,
                   sent, blt>>

ExitBootServices ==
    /\ scenario.exits
    /\ At("main", "idle")
    /\ Goto("main", "off")
    /\ UNCHANGED <<privateVars, screenVars, displayVars, globalVars, sent, blt>>

(* KillNtGopThread.  A freed structure may still hold what it held, or     *)
(* anything else: then the driver may take it for one without a window.    *)
Kill(g) ==
    /\ At("main", "off")
    /\ g \in exitEvent
    /\ exitEvent' = exitEvent \ {g}
    /\ \/ /\ SendDestroy(g)
          /\ pc' = [pc EXCEPT !["main"] = "kill"]
          /\ cur' = [cur EXCEPT !["main"] = g]
       \/ private[g] = "freed" /\ UNCHANGED <<sent, pc, cur>>
    /\ UNCHANGED <<privateVars, screenVars, displayVars, tls, users, timer, scenario,
                   blt>>

KillReturns ==
    LET g == cur["main"] IN
    /\ At("main", "kill")
    /\ ~Awaits(g, "destroy")
    /\ ReleaseTls
    /\ timer' = timer \ {g}
    /\ Goto("main", "off")
    /\ UNCHANGED <<privateVars, displayVars, screenVars, exitEvent, scenario,
                   sent, blt>>

----------------------------------------------------------------------------
(* The window thread.  CreateWindowEx runs WM_CREATE, which allocates a    *)
(* frame buffer without adding the size of its header.                     *)
Create(g) ==
    /\ thread[g] = "init"
    /\ \E a \in Addr :
         /\ heap[a] = Nil
         /\ heap' = [heap EXCEPT ![a] = [mode |-> mode[g], room |-> Size(mode[g])]]
         /\ dib' = [dib EXCEPT ![g] = a]
         /\ pixels' = [pixels EXCEPT ![g] = a]
    /\ thread' = [thread EXCEPT ![g] = "show"]
    /\ UNCHANGED <<paint, inited, visible, invalid, privateVars, globalVars,
                   sent, pc, cur, blt>>

(* WM_PAINT: the arguments of SetDIBitsToDevice are read, and the bits are *)
(* read until PaintEnd.                                                    *)
BeginPaint(g, forCall) ==
    paint' = [paint EXCEPT ![g] = [mode |-> mode[g], bits |-> pixels[g],
                                   forCall |-> forCall]]

Show(g) ==
    /\ thread[g] = "show"
    /\ visible' = [visible EXCEPT ![g] = TRUE]
    /\ BeginPaint(g, FALSE)
    /\ thread' = [thread EXCEPT ![g] = "firstPaint"]
    /\ UNCHANGED <<inited, invalid, privateVars, screenVars, globalVars, sent,
                   pc, cur, blt>>

(* A fault: the window thread does not release ThreadInited.               *)
ReleaseNothing(g) ==
    /\ thread[g] = "firstPaint"
    /\ paint' = [paint EXCEPT ![g] = Nil]
    /\ thread' = [thread EXCEPT ![g] = "loop"]
    /\ UNCHANGED <<inited, visible, invalid, privateVars, screenVars,
                   globalVars, sent, pc, cur, blt>>

ReleaseInited(g) ==
    /\ thread[g] = "firstPaint"
    /\ paint' = [paint EXCEPT ![g] = Nil]
    /\ inited' = [inited EXCEPT ![g] = TRUE]
    /\ thread' = [thread EXCEPT ![g] = "loop"]
    /\ UNCHANGED <<visible, invalid, privateVars, screenVars, globalVars, sent,
                   pc, cur, blt>>

(* GetMessage hands out calls from other threads before it makes up a      *)
(* WM_PAINT for an invalid region.                                         *)
Paint(g) ==
    /\ thread[g] = "loop"
    /\ IsFirst(g, "paint") \/ (sent[g] = <<>> /\ invalid[g])
    /\ BeginPaint(g, sent[g] # <<>>)
    /\ invalid' = [invalid EXCEPT ![g] = FALSE]
    /\ thread' = [thread EXCEPT ![g] = "paint"]
    /\ UNCHANGED <<inited, visible, privateVars, screenVars, globalVars, sent,
                   pc, cur, blt>>

PaintEnd(g) ==
    /\ thread[g] = "paint"
    /\ sent' = [sent EXCEPT ![g] = IF paint[g].forCall THEN Tail(@) ELSE @]
    /\ paint' = [paint EXCEPT ![g] = Nil]
    /\ thread' = [thread EXCEPT ![g] = "loop"]
    /\ UNCHANGED <<inited, visible, invalid, privateVars, screenVars,
                   globalVars, pc, cur, blt>>

Moved(g) ==
    /\ thread[g] = "loop"
    /\ IsFirst(g, "move")
    /\ sent' = [sent EXCEPT ![g] = Tail(@)]
    /\ invalid' = [invalid EXCEPT ![g] = visible[g]]
    /\ UNCHANGED <<thread, paint, inited, visible, privateVars, screenVars,
                   globalVars, pc, cur, blt>>

(* WM_DESTROY, and the end of the thread.                                  *)
Destroy(g) ==
    /\ thread[g] = "loop"
    /\ IsFirst(g, "destroy")
    /\ heap' = [heap EXCEPT ![dib[g]] = Nil]
    /\ sent' = [sent EXCEPT ![g] = <<>>]
    /\ thread' = [thread EXCEPT ![g] = "exited"]
    /\ visible' = [visible EXCEPT ![g] = FALSE]
    /\ invalid' = [invalid EXCEPT ![g] = FALSE]
    /\ UNCHANGED <<dib, pixels, paint, inited, privateVars, globalVars, pc,
                   cur, blt>>

(* The user closes the window, which only hides it, or uncovers it.        *)
Close(g) ==
    /\ thread[g] = "loop" /\ sent[g] = <<>> /\ visible[g]
    /\ visible' = [visible EXCEPT ![g] = FALSE]
    /\ invalid' = [invalid EXCEPT ![g] = FALSE]
    /\ UNCHANGED <<thread, paint, inited, privateVars, screenVars, globalVars,
                   sent, pc, cur, blt>>

Uncover(g) ==
    /\ thread[g] \in {"loop", "paint"} /\ visible[g]
    /\ invalid' = [invalid EXCEPT ![g] = TRUE]
    /\ UNCHANGED <<thread, paint, inited, visible, privateVars, screenVars,
                   globalVars, sent, pc, cur, blt>>

----------------------------------------------------------------------------
Advance(t) == Copy(t) \/ UpdateReturns(t)

MainGoesOn ==
    \/ StartWindow \/ WindowStarted
    \/ FreeScreen \/ AllocScreen \/ PointScreen \/ MoveWindow \/ MoveReturns
    \/ FillLine \/ FillLineFails
    \/ StopReturns \/ KillReturns
    \/ Advance("main")

WindowGoesOn(g) ==
    Create(g) \/ Show(g) \/ ReleaseInited(g) \/ Paint(g) \/ PaintEnd(g)
        \/ Moved(g) \/ Destroy(g)

ScreenNext ==
    \/ \E g \in Gop :
         \/ Start(g) \/ Stop(g) \/ Kill(g)
         \/ \E m \in Modes : SetMode(g, m)
         \/ \E t \in Actor, op \in {"fill", "write", "read"} : Blt(t, g, op)
         \/ WindowGoesOn(g) \/ Close(g) \/ Uncover(g)
    \/ ExitBootServices
    \/ MainGoesOn
    \/ Advance("event")

(* Windows schedules every thread; notifications are a timer period apart, *)
(* so that main goes on between them.                                      *)
ScreenFairness ==
    /\ SF_screenState(MainGoesOn)
    /\ WF_screenState(Advance("event"))
    /\ \A g \in Gop : WF_screenState(WindowGoesOn(g))

ScreenSpec == ScreenInit /\ [][ScreenNext]_screenState /\ ScreenFairness

----------------------------------------------------------------------------
(* Every variable keeps its type: the addresses are those of the heap.     *)
Drawing == [mode : Modes \cup {Nil}, bits : Addr \cup {Nil}, forCall : BOOLEAN]
Rectangle == [op : {"fill", "write", "read"}, width : Nat, last : Int]

ScreenTypeOK ==
    /\ private \in [Gop -> {"none", "live", "freed"}]
    /\ needs \in [Gop -> BOOLEAN]
    /\ mode \in [Gop -> Modes \cup {Nil}]
    /\ heap \in [Addr -> Block \cup {Nil}]
    /\ dib \in [Gop -> Addr \cup {Nil}]
    /\ pixels \in [Gop -> Addr \cup {Nil}]
    /\ fill \in [Gop -> Nat]
    /\ thread \in [Gop -> {"none", "init", "show", "firstPaint", "loop", "paint",
                          "exited"}]
    /\ paint \in [Gop -> Drawing \cup {Nil}]
    /\ sent \in [Gop -> Seq({"paint", "move", "destroy"})]
    /\ inited \in [Gop -> BOOLEAN]
    /\ visible \in [Gop -> BOOLEAN]
    /\ invalid \in [Gop -> BOOLEAN]
    /\ users \in 0 .. CountLimit - 1
    /\ tls \in BOOLEAN
    /\ exitEvent \subseteq Gop
    /\ timer \subseteq Gop
    /\ pc \in [Actor -> {"idle", "start", "inited", "free", "alloc", "point", "move",
                         "moved", "fill", "copy", "update", "stop", "kill", "off"}]
    /\ cur \in [Actor -> Gop \cup {Nil}]
    /\ blt \in [Actor -> Rectangle \cup {Nil}]
    /\ scenario \in Scenarios

SettingMode(g) ==
    /\ cur["main"] = g
    /\ pc["main"] \in {"start", "inited", "free", "alloc", "point", "move", "moved"}

(* A Blt copies to or from a live frame buffer that was allocated for the  *)
(* resolution it was checked against, and inside it: it relates the check  *)
(* in Blt, the order of the stores in SetMode and the start of the window. *)
BltSeesItsScreen ==
    \A t \in Actor :
      pc[t] = "copy" =>
        LET g == cur[t] IN
        /\ Live(pixels[g])
        /\ heap[pixels[g]].mode = mode[g]
        /\ blt[t].last \in 0 .. Size(mode[g]) - 1

(* A fill is no wider than the line SetMode allocated for it.              *)
FillLineFits ==
    \A t \in Actor :
      pc[t] = "copy" => (blt[t].op = "fill" => blt[t].width <= fill[cur[t]])

BitsAreRight(g) ==
    /\ Live(paint[g].bits)
    /\ heap[paint[g].bits].mode = paint[g].mode

(* A window thread that is drawing reads a live frame buffer of the        *)
(* resolution it draws, at all times.                                      *)
PaintSeesItsScreen == \A g \in Gop : paint[g] # Nil => BitsAreRight(g)

(* The same, but for a SetMode of that window: the call to MoveWindow,     *)
(* which the window thread answers between two messages, keeps a drawing   *)
(* of the old frame buffer from outliving the SetMode that freed it.       *)
PaintEndsWithSetMode ==
    \A g \in Gop : paint[g] # Nil => BitsAreRight(g) \/ SettingMode(g)

(* The thread-local index is kept as long as a window may need it to find  *)
(* its private structure.                                                  *)
HasWindow(g) == thread[g] \notin {"none", "exited"}

TlsServesWindows == (\E g \in Gop : HasWindow(g)) => tls

(* The rest of the block behind the header holds the whole screen.         *)
ScreenFitsBlock ==
    \A g \in Gop :
      Live(dib[g]) /\ ~SettingMode(g) => heap[dib[g]].room >= Header + Size(mode[g])

(* No keyboard timer is left with a private structure that is freed.       *)
TimerHasContext == \A g \in timer : private[g] = "live"

(* SetMode, Blt, Stop and the notifications end: neither thread waits for  *)
(* the other for ever, whatever the user does to the windows.              *)
ScreenCallsReturn ==
    \A t \in Actor : pc[t] \notin {"idle", "off"} ~> pc[t] \in {"idle", "off"}

============================================================================
