------------------------------- MODULE MCFvb -------------------------------
(***************************************************************************)
(* Two volumes for Fvb, with a byte of the flash before and between them:  *)
(* one with blocks of two sizes that can be write protected and locked,    *)
(* and one of the platform's, which can only be read and written.          *)
(***************************************************************************)
EXTENDS FvbSmm

MCVolume == {0, 1}
MCBase == [v \in MCVolume |-> IF v = 0 THEN 1 ELSE 5]
MCBlockMap == [v \in MCVolume |->
    IF v = 0 THEN <<[NumBlocks |-> 1, Length |-> 1], [NumBlocks |-> 1, Length |-> 2]>>
             ELSE <<[NumBlocks |-> 1, Length |-> 1]>>]
MCCapability == [v \in MCVolume |->
    IF v = 0 THEN {"readEnable", "writeEnable", "writeDisable", "lock"}
             ELSE {"readEnable", "writeEnable"}]
MCInitial == [v \in MCVolume |-> [read |-> TRUE, write |-> TRUE, lock |-> FALSE]]
MCMaxBytes == [main |-> 2, event |-> 1]
MCMaxRanges == [main |-> 2, event |-> 1]
MCFlash == 0 .. 5
============================================================================
