---------------------------- MODULE MCGopScreen ----------------------------
(***************************************************************************)
(* Two modes for GopScreen, a wide one and a high one, of the same size,   *)
(* and three lives of the firmware: the shell disconnects controllers, or  *)
(* the firmware boots, or it does both, short of memory and with only      *)
(* one controller.                                                         *)
(***************************************************************************)
EXTENDS GopScreen

MCHorizontal == <<2, 1>>
MCVertical == <<1, 2>>
MCScenarios ==
    {[starts |-> Gop, stops |-> {1}, cursor |-> {}, fails |-> FALSE, exits |-> FALSE],
     [starts |-> Gop, stops |-> {}, cursor |-> {}, fails |-> FALSE, exits |-> TRUE],
     [starts |-> {1}, stops |-> {1}, cursor |-> {}, fails |-> TRUE, exits |-> TRUE]}
============================================================================
