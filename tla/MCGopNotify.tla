----------------------------- MODULE MCGopNotify -----------------------------
(***************************************************************************)
(* Instances of GopNotify.  A key of code 0 is partial; every state of a   *)
(* key typed has its valid bit, and 0 is registered for any.               *)
(***************************************************************************)
EXTENDS GopNotify

Key(code, shift) == [code |-> code, shift |-> shift, toggle |-> 1]

MCKeyData == {Key(1, 1), Key(0, 1)}

MCNotification ==
    {[key |-> Key(1, 0), function |-> "f"], [key |-> Key(0, 1), function |-> "f"]}
===============================================================================
