----------------------------- MODULE MCBlockIo -----------------------------
(***************************************************************************)
(* BlockIo for TLC: a file and a drive, of which only one is ever used, a  *)
(* disk whose string says nothing and a device that is no disk.            *)
(***************************************************************************)
EXTENDS BlockIo

CONSTANTS SerialPort

MCEnvString ==
    [t \in Type |->
        CASE t = VirtualDisks ->
               <<[media |-> "F", access |-> "W", blocks |-> 2, size |-> 512],
                 [media |-> "F", access |-> "W", blocks |-> 0, size |-> 512]>>
          [] t = PhysicalDisks ->
               <<[drive |-> TRUE, media |-> "R", access |-> "W", blocks |-> 2, size |-> 512]>>
          [] OTHER -> <<SerialPort>>]

Unused(d) ==
    /\ private[d] = Null /\ leaked[d] = 0
    /\ host[d].last = 1 /\ host[d].medium = 1 /\ acked[d] = NoAck(d) /\ ~short[d]
    /\ host[d].blocks = [b \in Lba(d) |-> Zero]

(* The devices have nothing in common but the bus; the ones that are no    *)
(* disks are only there before the first use.                              *)
OneIsUsed ==
    \E d \in Device :
      /\ \A e \in Device \ {d} : Unused(e)
      /\ Unused(d) \/ children \subseteq Mapped
=============================================================================
