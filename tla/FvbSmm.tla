------------------------------- MODULE FvbSmm -------------------------------
(***************************************************************************)
(* The build with SMM_ENABLE has, in place of the runtime driver, a twin   *)
(* of it for the variable driver in SMM: FWBlockServiceSmm.c repeats the   *)
(* functions of FWBlockService.c with Virtual always FALSE.  What differs  *)
(* is who calls: an SMI handler runs to its end, so no event notification  *)
(* comes between two steps of a call, and nothing else calls.              *)
(***************************************************************************)
EXTENDS Fvb

VARIABLE build   \* which of the two drivers the flash file contains
buildVars == <<memory, attributes, op, result, build>>

Handler == "main"   \* the one caller there is

SmmGetLbaAddress(v, lba) == FvbGetLbaAddress(v, lba)
SmmGetBlockSize(v, lba) ==
    {[size |-> p.length, blocks |-> NumOfBlocks[v] - lba] : p \in SmmGetLbaAddress(v, lba)}

SmmRead(v, lba, offset, n) == Read(Handler, v, lba, offset, n)
SmmWrite(v, lba, offset, n, b) == Write(Handler, v, lba, offset, n, b)

(* The two passes of FvbProtocolEraseBlocks: every range is looked at,     *)
(* then the blocks are erased one after the other.                         *)
SmmEraseBlocks(v, ranges) == EraseBlocks(Handler, v, ranges)
SmmEraseBlock == EraseBlock(Handler)
SmmCopy == PutByte(Handler)
SmmReturn == Finish(Handler)

SmmSetAttributes(v, s) == SetAttributes(Handler, v, s)
SmmStoreStatus == StoreStatus(Handler)

(* The variable driver asks for the geometry before it uses a volume.      *)
SmmQuery(v, lba) ==
    /\ Calls(Handler, "query")
    /\ \/ Return(Handler, [code |-> "SUCCESS", changed |-> {}, answer |-> Base[v]])
       \/ Return(Handler, [code |-> "SUCCESS", changed |-> {}, answer |-> attributes[v]])
       \/ IF SmmGetBlockSize(v, lba) = {}
            THEN Return(Handler, [code |-> "INVALID_PARAMETER", changed |-> {}])
            ELSE \E size \in SmmGetBlockSize(v, lba) :
                   Return(Handler, [code |-> "SUCCESS", changed |-> {}, answer |-> size])
    /\ UNCHANGED <<memory, attributes>>

SmmNext ==
    \/ \E v \in Volume :
         \/ \E lba \in LbaAsked(v) :
              \/ SmmQuery(v, lba)
              \/ \E offset, n \in 0 .. MaxBytes[Handler] :
                   \/ SmmRead(v, lba, offset, n)
                   \/ \E b \in Byte : SmmWrite(v, lba, offset, n, b)
         \/ \E ranges \in Ranges(Handler, v) : SmmEraseBlocks(v, ranges)
         \/ \E s \in Status : SmmSetAttributes(v, s)
    \/ SmmCopy \/ SmmEraseBlock \/ SmmReturn \/ SmmStoreStatus

BuildInit ==
    /\ FlashInit
    /\ build \in {"dxe", "smm"}

BuildNext ==
    /\ build' = build
    /\ \/ build = "dxe" /\ FlashNext
       \/ build = "smm" /\ SmmNext

BuildSpec == BuildInit /\ [][BuildNext]_buildVars
=============================================================================
