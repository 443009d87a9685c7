------------------------------ MODULE MCSerial ------------------------------
(* A small instance of Serial.                                             *)
EXTENDS Serial
CONSTANTS b1, b2
Controls == {{"HFC"}, {"RTS", "DTR", "SLB"}, {"CTS"}}
Leftovers == {{"SLB"}}
Written == {<<b2, b1>>}

(* Bound: no transfer begins inside a Reset or a Start.                    *)
Apart == call = Idle \/ transfer = Null

(* The slots of the FIFO that hold no byte are never read.                 *)
Seen == <<opened, port, call, transfer, heard, leaked,
          IF dev = Null THEN Null
          ELSE <<[dev EXCEPT !.fifo = Null], dev.fifo.First, dev.fifo.Last, dev.fifo.Surplus,
                 Contents(dev.fifo)>>>>
=============================================================================
