-------------------------- MODULE EmulatedInterrupt --------------------------
(***************************************************************************)
(* What the timer driver promises the firmware: the timer handler behaves  *)
(* as the service routine of an interrupt on the one processor the         *)
(* firmware believes it runs on.  It starts only while interrupts are      *)
(* enabled, it is the handler registered at that moment, and until it      *)
(* returns the firmware neither changes the interrupt mask nor the         *)
(* registration.                                                           *)
(***************************************************************************)
CONSTANTS Handlers, NULL

VARIABLES masked,     \* the firmware has disabled interrupts
          registered, \* the handler, or NULL
          running     \* the handler in progress, or NULL

vars == <<masked, registered, running>>

Init == masked = FALSE /\ registered = NULL /\ running = NULL

SetMask ==
    /\ running = NULL
    /\ masked' = ~masked
    /\ UNCHANGED <<registered, running>>

Register(h) ==
    /\ running = NULL
    /\ (h = NULL) # (registered = NULL)
    /\ registered' = h
    /\ UNCHANGED <<masked, running>>

Interrupt ==
    /\ ~masked /\ running = NULL /\ registered # NULL
    /\ running' = registered
    /\ UNCHANGED <<masked, registered>>

Return ==
    /\ running # NULL
    /\ running' = NULL
    /\ UNCHANGED <<masked, registered>>

Next ==
    \/ SetMask \/ Interrupt \/ Return
    \/ \E h \in Handlers \cup {NULL} : Register(h)

Spec == Init /\ [][Next]_vars /\ WF_vars(Return)
=============================================================================
