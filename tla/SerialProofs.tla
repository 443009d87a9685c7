---------------------------- MODULE SerialProofs ----------------------------
(***************************************************************************)
(* What Serial keeps for every size of the FIFO, every set of settings and *)
(* every outcome of the host's calls.                                      *)
(***************************************************************************)
EXTENDS Serial, WellFoundedInduction, TLAPS

N == SERIAL_MAX_BUFFER_SIZE

(* A remainder, where the dividend is within one lap of the FIFO.          *)
LEMMA ModSmall == \A n \in 0 .. N - 1 : n % N = n
BY SizeAssumption DEF N
LEMMA ModLarge == \A n \in N .. 2 * N - 1 : n % N = n - N
BY SizeAssumption DEF N

----------------------------------------------------------------------------
(* The FIFO.                                                               *)
Sound(f) == f \in Fifos /\ Consistent(f)

(* The slot of the i-th byte.                                              *)
Slot(f, i) == (f.First + i - 1) % N

LEMMA SlotIs ==
    ASSUME NEW f \in Fifos, NEW i \in 1 .. N
    PROVE  Slot(f, i) = IF f.First + i - 1 < N THEN f.First + i - 1 ELSE f.First + i - 1 - N
<1>0. f.First \in 0 .. N - 1 /\ N \in Nat \ {0}
  BY SizeAssumption DEF Fifos, Slots, N
<1>1. CASE f.First + i - 1 < N
  <2>1. f.First + i - 1 \in 0 .. N - 1
    BY <1>0, <1>1
  <2> QED BY <1>1, <2>1, ModSmall DEF Slot
<1>2. CASE ~(f.First + i - 1 < N)
  <2>1. f.First + i - 1 \in N .. 2 * N - 1
    BY <1>0, <1>2
  <2>2. (f.First + i - 1) % N = (f.First + i - 1) - N
    BY <2>1, ModLarge
  <2> QED BY <1>0, <1>2, <2>2 DEF Slot
<1> QED BY <1>1, <1>2

(* The first free slot is Last.                                            *)
LEMMA LastIs ==
    ASSUME NEW f, Sound(f), f.Surplus # 0
    PROVE  f.Last = Slot(f, N - f.Surplus + 1) /\ N - f.Surplus + 1 \in 1 .. N
<1>0. /\ f.First \in 0 .. N - 1 /\ N \in Nat \ {0} /\ f.Surplus \in 0 .. N
      /\ f.Last = (f.First + N - f.Surplus) % N
  BY SizeAssumption DEF Sound, Fifos, Slots, N, Consistent
<1>1. f.First + N - f.Surplus = f.First + (N - f.Surplus + 1) - 1
  BY <1>0
<1> QED BY <1>0, <1>1 DEF Slot

LEMMA SuccIs ==
    ASSUME NEW i \in Slots
    PROVE  Succ(i) = (IF i = N - 1 THEN 0 ELSE i + 1) /\ Succ(i) \in Slots
BY SizeAssumption DEF Succ, Slots, N

LEMMA EmptyIsSound == Sound(EmptyFifo) /\ Contents(EmptyFifo) = <<>>
<1>1. N \in Nat \ {0} /\ 0 \in Slots
  BY SizeAssumption DEF N, Slots
<1>2. EmptyFifo \in Fifos
  BY <1>1 DEF EmptyFifo, Fifos, N
<1>3. (0 + N - N) % N = 0
  BY <1>1, ModSmall
<1>4. Consistent(EmptyFifo)
  BY <1>3 DEF EmptyFifo, Consistent, N
<1>5. 1 .. N - EmptyFifo.Surplus = {}
  BY <1>1 DEF EmptyFifo, N
<1> QED BY <1>2, <1>4, <1>5 DEF Sound, Contents, N

(* The bytes waiting are a sequence.                                       *)
LEMMA ContentsSeq ==
    ASSUME NEW f, Sound(f)
    PROVE  /\ N - f.Surplus \in Nat
           /\ Contents(f) = [i \in 1 .. N - f.Surplus |-> f.Data[Slot(f, i)]]
           /\ Contents(f) \in Seq(Byte \cup {Null})
           /\ Len(Contents(f)) = N - f.Surplus
<1>0. f.First \in 0 .. N - 1 /\ N \in Nat \ {0} /\ f.Surplus \in 0 .. N /\ f \in Fifos
  BY SizeAssumption DEF Sound, Fifos, Slots, N
<1>1. Contents(f) = [i \in 1 .. N - f.Surplus |-> f.Data[Slot(f, i)]]
  BY DEF Contents, Slot, N
<1>2. \A i \in 1 .. N - f.Surplus : Slot(f, i) \in Slots
  <2> TAKE i \in 1 .. N - f.Surplus
  <2>1. i \in 1 .. N
    BY <1>0
  <2>2. Slot(f, i) = IF f.First + i - 1 < N THEN f.First + i - 1 ELSE f.First + i - 1 - N
    BY <1>0, <2>1, SlotIs
  <2> QED BY <1>0, <2>1, <2>2 DEF Slots, N
<1>3. \A i \in 1 .. N - f.Surplus : f.Data[Slot(f, i)] \in Byte \cup {Null}
  BY <1>0, <1>2 DEF Fifos
<1>4. N - f.Surplus \in Nat
  BY <1>0
<1> QED BY <1>1, <1>3, <1>4

(* IsaSerialFifoAdd appends a byte, where there is room.                   *)
LEMMA AddAppends ==
    ASSUME NEW f, Sound(f), NEW b \in Byte, ~IsaSerialFifoFull(f)
    PROVE  /\ Sound(IsaSerialFifoAdd(f, b))
           /\ Contents(IsaSerialFifoAdd(f, b)) = Append(Contents(f), b)
           /\ Len(Contents(f)) < N
<1> DEFINE g == IsaSerialFifoAdd(f, b)
           n == N - f.Surplus
<1>0. /\ f.First \in 0 .. N - 1 /\ N \in Nat \ {0} /\ f.Surplus \in 1 .. N /\ f \in Fifos
      /\ f.Last \in Slots /\ f.Data \in [Slots -> Byte \cup {Null}] /\ n \in Nat /\ n < N
  BY SizeAssumption DEF Sound, Fifos, Slots, N, IsaSerialFifoFull
<1>1. /\ g.First = f.First /\ g.Surplus = f.Surplus - 1 /\ g.Last = Succ(f.Last)
      /\ g.Data = [f.Data EXCEPT ![f.Last] = b]
  BY DEF IsaSerialFifoAdd
<1>2. g \in Fifos
  <2>1. g = [First |-> f.First, Last |-> Succ(f.Last), Surplus |-> f.Surplus - 1,
             Data |-> [f.Data EXCEPT ![f.Last] = b]]
    BY DEF IsaSerialFifoAdd
  <2>2. Succ(f.Last) \in Slots
    BY <1>0, SuccIs
  <2>4. f.First \in Slots /\ f.Surplus - 1 \in 0 .. N
    BY <1>0 DEF Slots, N
  <2>3. [f.Data EXCEPT ![f.Last] = b] \in [Slots -> Byte \cup {Null}]
    BY <1>0
  <2> QED BY <2>1, <2>2, <2>3, <2>4 DEF Fifos, N
<1>3. f.Last = Slot(f, n + 1) /\ n + 1 \in 1 .. N
  BY <1>0, LastIs
<1>4. \A i \in 1 .. N : Slot(g, i) = Slot(f, i)
  BY <1>1 DEF Slot
<1> HIDE DEF g
<1>5. f.Last = IF f.First + n < N THEN f.First + n ELSE f.First + n - N
  BY <1>0, <1>3, SlotIs
<1>6. g.Last = (f.First + n + 1) % N
  <2>1. Succ(f.Last) = IF f.Last = N - 1 THEN 0 ELSE f.Last + 1
    BY <1>0, SuccIs
  <2>2. CASE f.First + n + 1 < N
    <3>1. (f.First + n + 1) % N = f.First + n + 1
      BY <1>0, <2>2, ModSmall
    <3> QED BY <1>0, <1>1, <1>5, <2>1, <2>2, <3>1
  <2>3. CASE ~(f.First + n + 1 < N)
    <3>1. f.First + n + 1 \in N .. 2 * N - 1
      BY <1>0, <2>3
    <3>2. (f.First + n + 1) % N = (f.First + n + 1) - N
      BY <3>1, ModLarge
    <3> QED BY <1>0, <1>1, <1>5, <2>1, <2>3, <3>2
  <2> QED BY <2>2, <2>3
<1>7. f.First + n + 1 = g.First + N - g.Surplus
  BY <1>0, <1>1
<1>8. Sound(g)
  BY <1>2, <1>6, <1>7 DEF Sound, Consistent, N
<1>9. Contents(g) = [i \in 1 .. n + 1 |-> g.Data[Slot(g, i)]]
  <2>1. N - g.Surplus = n + 1
    BY <1>0, <1>1
  <2>2. Contents(g) = [i \in 1 .. N - g.Surplus |-> g.Data[Slot(g, i)]]
    BY <1>8, ContentsSeq
  <2> QED BY <2>1, <2>2
<1>10. \A i \in 1 .. n : g.Data[Slot(g, i)] = f.Data[Slot(f, i)]
  <2> TAKE i \in 1 .. n
  <2>1. i \in 1 .. N
    BY <1>0
  <2>2. Slot(f, i) = IF f.First + i - 1 < N THEN f.First + i - 1 ELSE f.First + i - 1 - N
    BY <1>0, <2>1, SlotIs
  <2>3. Slot(f, i) # f.Last /\ Slot(f, i) \in 0 .. N - 1
    BY <1>0, <1>5, <2>1, <2>2
  <2>4. Slot(f, i) \in Slots
    BY <2>3 DEF Slots, N
  <2> QED BY <1>0, <1>1, <1>4, <2>1, <2>3, <2>4
<1>11. g.Data[Slot(g, n + 1)] = b
  BY <1>0, <1>1, <1>3, <1>4
<1>12. /\ Contents(f) = [i \in 1 .. n |-> f.Data[Slot(f, i)]] /\ Len(Contents(f)) = n
       /\ Contents(f) \in Seq(Byte \cup {Null})
  BY ContentsSeq
<1> HIDE DEF n
<1>13. Contents(g) = Append(Contents(f), b)
  BY <1>0, <1>9, <1>10, <1>11, <1>12
<1> QED BY <1>0, <1>8, <1>12, <1>13 DEF g

(* IsaSerialFifoRemove takes the oldest away, where there is one.          *)
LEMMA RemoveTakes ==
    ASSUME NEW f, Sound(f), ~IsaSerialFifoEmpty(f)
    PROVE  /\ Sound(IsaSerialFifoRemove(f))
           /\ Contents(f) # <<>> /\ f.Data[f.First] = Head(Contents(f))
           /\ Contents(IsaSerialFifoRemove(f)) = Tail(Contents(f))
<1> DEFINE g == IsaSerialFifoRemove(f)
           n == N - f.Surplus
<1>0. /\ f.First \in 0 .. N - 1 /\ N \in Nat \ {0} /\ f.Surplus \in 0 .. N - 1 /\ f \in Fifos
      /\ f.First \in Slots /\ n \in 1 .. N
  BY SizeAssumption DEF Sound, Fifos, Slots, N, IsaSerialFifoEmpty
<1>1. /\ g.First = Succ(f.First) /\ g.Surplus = f.Surplus + 1 /\ g.Last = f.Last
      /\ g.Data = f.Data
  BY DEF IsaSerialFifoRemove
<1>2. g \in Fifos
  <2>1. g = [First |-> Succ(f.First), Last |-> f.Last, Surplus |-> f.Surplus + 1,
             Data |-> f.Data]
    BY DEF IsaSerialFifoRemove
  <2>2. Succ(f.First) \in Slots /\ f.Surplus + 1 \in 0 .. N
    BY <1>0, SuccIs
  <2>3. f.Last \in Slots /\ f.Data \in [Slots -> Byte \cup {Null}]
    BY <1>0 DEF Fifos
  <2> QED BY <2>1, <2>2, <2>3 DEF Fifos, N
<1>3. f.Last = (f.First + N - f.Surplus) % N
  BY DEF Sound, Consistent, N
<1> HIDE DEF g
<1>4. g.First = IF f.First = N - 1 THEN 0 ELSE f.First + 1
  BY <1>0, <1>1, SuccIs
<1>5. (g.First + N - g.Surplus) % N = (f.First + n) % N
  <2>0. g.First \in 0 .. N - 1 /\ g.First + N - g.Surplus = g.First + n - 1
    BY <1>0, <1>1, <1>4
  <2> HIDE DEF n
  <2>1. CASE f.First = N - 1
    <3>1. g.First + n - 1 = n - 1 /\ n - 1 \in 0 .. N - 1
      BY <1>0, <1>4, <2>1
    <3>2. f.First + n \in N .. 2 * N - 1
      BY <1>0, <2>1
    <3>3. (n - 1) % N = n - 1
      BY <3>1, ModSmall
    <3>4. (f.First + n) % N = (f.First + n) - N
      BY <3>2, ModLarge
    <3>5. (f.First + n) % N = n - 1
      BY <1>0, <2>1, <3>4
    <3> QED BY <2>0, <3>1, <3>3, <3>5
  <2>2. CASE f.First # N - 1
    <3>1. g.First + n - 1 = f.First + n
      BY <1>0, <1>4, <2>2
    <3> QED BY <2>0, <3>1
  <2> QED BY <2>1, <2>2
<1>6. Sound(g)
  <2>1. f.First + N - f.Surplus = f.First + n
    BY <1>0
  <2> QED BY <1>1, <1>2, <1>3, <1>5, <2>1 DEF Sound, Consistent, N
<1>7. \A i \in 1 .. n - 1 : Slot(g, i) = Slot(f, i + 1)
  <2> TAKE i \in 1 .. n - 1
  <2>1. i \in 1 .. N /\ i + 1 \in 1 .. N
    BY <1>0
  <2>2. Slot(g, i) = IF g.First + i - 1 < N THEN g.First + i - 1 ELSE g.First + i - 1 - N
    BY <1>2, <2>1, SlotIs DEF g
  <2>3. Slot(f, i + 1) = IF f.First + (i + 1) - 1 < N THEN f.First + (i + 1) - 1
                         ELSE f.First + (i + 1) - 1 - N
    BY <1>0, <2>1, SlotIs
  <2> QED BY <1>0, <1>4, <2>1, <2>2, <2>3
<1>8. Slot(f, 1) = f.First
  <2>1. f.First + 1 - 1 = f.First /\ 1 \in 1 .. N
    BY <1>0
  <2> QED BY <1>0, <2>1, SlotIs
<1>9. /\ Contents(f) = [i \in 1 .. n |-> f.Data[Slot(f, i)]] /\ Len(Contents(f)) = n
      /\ Contents(f) \in Seq(Byte \cup {Null})
  BY ContentsSeq
<1>10. Contents(g) = [i \in 1 .. n - 1 |-> f.Data[Slot(f, i + 1)]]
  <2>1. N - g.Surplus = n - 1
    BY <1>0, <1>1
  <2> QED BY <1>1, <1>6, <1>7, <2>1, ContentsSeq
<1> HIDE DEF n
<1>11. Contents(f) # <<>> /\ Head(Contents(f)) = f.Data[f.First]
  BY <1>0, <1>8, <1>9
<1>12. Contents(g) = Tail(Contents(f))
  BY <1>0, <1>9, <1>10
<1> QED BY <1>6, <1>11, <1>12 DEF g


----------------------------------------------------------------------------
(* The settings.  A nonempty set of rates has a highest one.               *)
LEMMA MaxIsMember ==
    ASSUME NEW M \in Nat, NEW S \in SUBSET (0 .. M), S # {}
    PROVE  Max(S) \in S /\ \A x \in S : x <= Max(S)
<1> DEFINE T == {M - x : x \in S}
<1>0. \A x \in S : x \in 0 .. M /\ M - x \in Nat
  OBVIOUS
<1>1. T \in SUBSET Nat /\ T # {}
  BY <1>0
<1>2. \E m \in T : \A n \in T : <<n, m>> \notin OpToRel(<, Nat)
  BY <1>1, NatLessThanWellFounded, WFMin
<1>3. PICK m \in T : \A n \in T : <<n, m>> \notin OpToRel(<, Nat)
  BY <1>2
<1>4. \A n \in T : m <= n
  <2> TAKE n \in T
  <2>0. n \in Nat /\ m \in Nat
    BY <1>1
  <2>1. ~(n < m)
    BY <1>3, <2>0 DEF OpToRel
  <2> QED BY <2>0, <2>1
<1>5. PICK x \in S : m = M - x
  OBVIOUS
<1>6. \A y \in S : x >= y
  <2> TAKE y \in S
  <2>1. M - x <= M - y
    BY <1>4, <1>5
  <2>2. x \in 0 .. M /\ y \in 0 .. M
    OBVIOUS
  <2> QED BY <2>1, <2>2
<1>7. \E z \in S : \A y \in S : z >= y
  BY <1>6
<1>8. Max(S) \in S /\ \A y \in S : Max(S) >= y
  BY <1>7 DEF Max
<1>9. Max(S) \in 0 .. M
  BY <1>8
<1>10. \A y \in S : y \in 0 .. M /\ y <= Max(S)
  BY <1>8, <1>9
<1> QED BY <1>8, <1>10

(* What Filled makes of a valid request.                                   *)
LEMMA FilledIs ==
    ASSUME NEW a \in Modes, Valid(a)
    PROVE  /\ Filled(a) \in Modes
           /\ Filled(a).baud \in mBaudRateCurrentSupport
           /\ Filled(a).frame # Null \/ DefaultFrame = Null
<1> DEFINE S == Supported(Asked(a.baud))
<1>0. mBaudRateCurrentSupport \subseteq Nat /\ DefaultBaud \in Nat
  BY BaudAssumption
<1>1. Asked(a.baud) \in Nat
  BY <1>0 DEF Asked, Modes
<1>2. S \in SUBSET (0 .. Asked(a.baud)) /\ S # {}
  <2>1. \A b \in S : b \in Nat /\ b <= Asked(a.baud)
    BY <1>0 DEF Supported
  <2>2. \A b \in S : b \in 0 .. Asked(a.baud)
    BY <1>1, <2>1
  <2> QED BY <2>2 DEF Valid
<1>3. Max(S) \in S
  <2> HIDE DEF S
  <2> QED BY <1>1, <1>2, MaxIsMember
<1>4. Max(S) \in mBaudRateCurrentSupport /\ Max(S) \in Nat
  BY <1>0, <1>3 DEF Supported
<1>5. a.frame \in Frames /\ a.wait \in Waits
  BY DEF Modes
<1>6. Filled(a).baud = Max(S)
  BY DEF Filled
<1> HIDE DEF S
<1>7. Filled(a) \in Modes
  BY <1>4, <1>5 DEF Filled, Modes, Frames, Waits, S
<1>8. Filled(a).frame # Null \/ DefaultFrame = Null
  BY DEF Filled
<1> QED BY <1>4, <1>6, <1>7, <1>8

(* The settings that a UART node asks for.                                 *)
Named(u) == Uart(Filled([baud |-> u.baud, frame |-> u.frame, wait |-> Null]))

(* A node that was filled in asks for what it says.                        *)
LEMMA NamedFilled ==
    ASSUME NEW a \in Modes, Valid(a)
    PROVE  Named(Uart(Filled(a))) = Uart(Filled(a))
<1> DEFINE f == Filled(a)
<1>1. /\ f \in Modes /\ f.baud \in mBaudRateCurrentSupport
      /\ f.frame # Null \/ DefaultFrame = Null
  BY FilledIs
<1> HIDE DEF f
<1>2. mBaudRateCurrentSupport \subseteq Nat /\ 0 < f.baud
  BY <1>1, BaudAssumption
<1>3. f.baud \in Nat /\ Asked(f.baud) = f.baud
  BY <1>1, <1>2 DEF Asked, Modes
<1>4. f.baud \in Supported(f.baud) /\ Supported(f.baud) \in SUBSET (0 .. f.baud)
  <2>1. \A b \in Supported(f.baud) : b \in Nat /\ b <= f.baud
    BY <1>2 DEF Supported
  <2>2. \A b \in Supported(f.baud) : b \in 0 .. f.baud
    BY <1>3, <2>1
  <2>3. f.baud \in Supported(f.baud)
    BY <1>1, <1>3 DEF Supported
  <2> QED BY <2>2, <2>3
<1>5. Max(Supported(f.baud)) = f.baud
  <2>1. /\ Max(Supported(f.baud)) \in Supported(f.baud)
        /\ f.baud <= Max(Supported(f.baud))
    BY <1>3, <1>4, MaxIsMember
  <2>2. Max(Supported(f.baud)) \in 0 .. f.baud
    BY <1>4, <2>1
  <2> QED BY <1>3, <2>1, <2>2
<1>6. Named(Uart(f)) = Uart(f)
  BY <1>1, <1>3, <1>5 DEF Named, Filled, Uart
<1> QED BY <1>6 DEF f

(* Filled looks at each setting by itself.                                 *)
LEMMA NamedIs ==
    ASSUME NEW a \in Modes, NEW u \in Settings, Uart(a) = u
    PROVE  Named(u) = Uart(Filled(a))
<1>1. a.baud = u.baud /\ a.frame = u.frame
  BY DEF Uart
<1> QED BY <1>1 DEF Named, Filled, Uart

----------------------------------------------------------------------------
(* What the host takes, and what the driver then remembers.                *)
LEMMA FramedIs ==
    ASSUME NEW p \in Ports, NEW a \in Modes
    PROVE  /\ Framed(p, a) \in Ports /\ Timed(p, a) \in Ports
           /\ Framed(p, a).open = p.open /\ Timed(p, a).open = p.open
           /\ Uart(Timed(p, a)) = Uart(a) /\ Timed(p, a).wait = a.wait
<1>1. {"RTS", "DTR"} \in SUBSET Settable
  BY DEF Settable
<1>2. p \in [open : BOOLEAN, baud : Nat, frame : Frames, wait : Waits, lines : SUBSET Settable]
  BY DEF Ports
<1>3. a.baud \in Nat /\ a.frame \in Frames /\ a.wait \in Waits
  BY DEF Modes
<1>4. Framed(p, a) \in [open : BOOLEAN, baud : Nat, frame : Frames, wait : Waits,
                         lines : SUBSET Settable]
  BY <1>1, <1>2, <1>3 DEF Framed
<1>5. /\ Framed(p, a).open = p.open /\ Framed(p, a).baud = a.baud
      /\ Framed(p, a).frame = a.frame
  BY <1>2 DEF Framed
<1> QED BY <1>3, <1>4, <1>5 DEF Timed, Ports, Uart

LEMMA ProgrammedIs ==
    ASSUME NEW d \in Devices, NEW a \in Modes
    PROVE  /\ Programmed(d, a) \in Devices
           /\ Programmed(d, a).mode = a /\ Programmed(d, a).uart = Uart(a)
           /\ ~Programmed(d, a).fresh /\ ~Programmed(d, a).torn
           /\ Programmed(d, a).path = IF d.installed /\ d.uart # Uart(a) THEN Uart(a) ELSE d.path
           /\ Programmed(d, a).installed = d.installed /\ Programmed(d, a).fifo = d.fifo
           /\ Programmed(d, a).flow = d.flow /\ Programmed(d, a).half = d.half
           /\ Programmed(d, a).flags = d.flags
<1>1. Uart(a) \in Settings
  BY DEF Uart, Modes, Settings
<1>2. (IF d.installed /\ d.uart # Uart(a) THEN Uart(a) ELSE d.path) \in Settings
  BY <1>1 DEF Devices
<1>3. FALSE \in BOOLEAN
  OBVIOUS
<1> QED BY <1>1, <1>2, <1>3 DEF Programmed, Devices

----------------------------------------------------------------------------
(* A child and its port as every completed call leaves them: the copies of *)
(* the settings agree, and so do the two records of flow control.          *)
Agree(d, p) ==
    /\ Uart(d.mode) = d.uart /\ Named(d.path) = d.uart
    /\ ~d.fresh /\ ~d.torn => Uart(p) = d.uart /\ p.wait = d.mode.wait
Flow(d) == d.flow # Null /\ ~d.half => (d.flow = "hardware" <=> "HFC" \in d.flags)
Good(d, p) == d \in Devices /\ p \in Ports /\ Agree(d, p) /\ Flow(d)

(* What no protocol function but Write and Read touches.                   *)
Same(d, p, e, q) == e.installed = d.installed /\ e.fifo = d.fifo /\ q.open = p.open

(* SetAttributes of an installed child, whatever the host does and         *)
(* wherever it fails.                                                      *)
LEMMA AttributesKeep ==
    ASSUME NEW d, NEW p, Good(d, p), d.installed, NEW asked \in Modes,
           NEW o \in SetAttributes(d, p, asked)
    PROVE  Good(o.dev, o.port) /\ Same(d, p, o.dev, o.port)
<1> DEFINE a == Filled(asked)
           e == Programmed(d, a)
           q == Timed(p, a)
           r == [d EXCEPT !.torn = TRUE]
           s == Framed(p, a)
<1>0. d \in Devices /\ p \in Ports /\ Agree(d, p) /\ Flow(d)
  BY DEF Good
<1>1. CASE o.dev = d /\ o.port = p
  BY <1>1, <1>0 DEF Same, Good
<1>2. CASE Valid(asked) /\ o.dev = r /\ o.port = s
  <2>1. a \in Modes
    BY <1>2, FilledIs
  <2> HIDE DEF a
  <2>2. s \in Ports /\ s.open = p.open
    BY <1>0, <2>1, FramedIs
  <2>3. r \in Devices
    BY <1>0 DEF Devices
  <2>4. Agree(r, s) /\ Flow(r) /\ r.installed = d.installed /\ r.fifo = d.fifo
    BY <1>0 DEF Agree, Flow, Devices
  <2> QED BY <1>2, <2>2, <2>3, <2>4 DEF Good, Same
<1>3. CASE Valid(asked) /\ o.dev = e /\ o.port = q
  <2>1. a \in Modes /\ Named(Uart(a)) = Uart(a)
    BY <1>3, FilledIs, NamedFilled
  <2> HIDE DEF a
  <2>2. q \in Ports /\ q.open = p.open /\ Uart(q) = Uart(a) /\ q.wait = a.wait
    BY <1>0, <2>1, FramedIs
  <2>3. /\ e \in Devices /\ e.mode = a /\ e.uart = Uart(a) /\ ~e.fresh /\ ~e.torn
        /\ e.path = IF d.installed /\ d.uart # Uart(a) THEN Uart(a) ELSE d.path
        /\ e.installed = d.installed /\ e.fifo = d.fifo
        /\ e.flow = d.flow /\ e.half = d.half /\ e.flags = d.flags
    BY <1>0, <2>1, ProgrammedIs
  <2>4. Named(e.path) = Uart(a)
    BY <1>0, <2>1, <2>3 DEF Agree
  <2>5. Agree(e, q) /\ Flow(e)
    BY <1>0, <2>2, <2>3, <2>4 DEF Agree, Flow
  <2> QED BY <1>3, <2>2, <2>3, <2>5 DEF Good, Same
<1>4. \/ o.dev = d /\ o.port = p
      \/ Valid(asked) /\ o.dev = r /\ o.port = s
      \/ Valid(asked) /\ o.dev = e /\ o.port = q
  <2>1. SetAttributes(d, p, asked) =
          IF ~Valid(asked) THEN {Outcome(d, p, FALSE)}
          ELSE IF d.uart = Uart(a) /\ d.mode.wait = a.wait THEN {Outcome(d, p, TRUE)}
          ELSE {Outcome(d, p, FALSE), Outcome(r, s, FALSE), Outcome(e, q, TRUE)}
               \cup {Outcome(e, q, FALSE) : x \in {y \in {d.installed} : y /\ d.uart # Uart(a)}}
    BY DEF SetAttributes
  <2> HIDE DEF a, e, q, r, s
  <2>2. \/ o = Outcome(d, p, TRUE) \/ o = Outcome(d, p, FALSE)
        \/ Valid(asked) /\ o = Outcome(r, s, FALSE)
        \/ Valid(asked) /\ (o = Outcome(e, q, TRUE) \/ o = Outcome(e, q, FALSE))
    BY <2>1
  <2> QED BY <2>2 DEF Outcome
<1> QED BY <1>1, <1>2, <1>3, <1>4

(* The settings of a new child, of a path or of none.                      *)
Requests == Paths \cup {NoPath}
LEMMA RequestIs ==
    ASSUME NEW path \in Requests
    PROVE  /\ NewDev(path).mode \in Modes /\ NewDev(path) \in Devices
           /\ Uart(NewDev(path).mode) = NewDev(path).uart
           /\ NewDev(path).path = NewDev(path).uart
           /\ Flow(NewDev(path)) /\ ~NewDev(path).installed /\ NewDev(path).fifo = EmptyFifo
<1>1. path.baud \in Nat /\ path.frame \in Frames /\ path.flow \in {Null, "none", "hardware"}
  <2>1. BaudAsked \subseteq Nat /\ FlowAsked \subseteq {Null, "none", "hardware"}
    BY BaudAssumption, NullAssumption
  <2>2. CASE path \in Paths
    BY <2>1, <2>2 DEF Paths, Frames
  <2>3. CASE path = NoPath
    BY <2>3 DEF NoPath, Frames
  <2> QED BY <2>2, <2>3 DEF Requests
<1>2. EmptyFifo \in Fifos
  BY EmptyIsSound DEF Sound
<1>3. Uart(path) \in Settings
  BY <1>1 DEF Uart, Settings
<1>4. NewDev(path).mode = [baud |-> path.baud, frame |-> path.frame, wait |-> DefaultWait]
  BY DEF NewDev
<1>5. NewDev(path).mode \in Modes
  BY <1>1, <1>4 DEF Modes, Waits
<1>6. (IF path.flow = "hardware" THEN {"HFC"} ELSE {}) \in SUBSET Flags
  BY DEF Flags
<1>7. NewDev(path) \in Devices
  BY <1>1, <1>2, <1>3, <1>4, <1>5, <1>6 DEF NewDev, Devices
<1>8. Flow(NewDev(path))
  BY <1>1, NullAssumption DEF Flow, NewDev
<1>9. Uart(NewDev(path).mode) = NewDev(path).uart
  BY <1>4 DEF NewDev, Uart
<1> QED BY <1>5, <1>7, <1>8, <1>9 DEF NewDev

(* SetAttributes of a child that is being made: once it has succeeded, the *)
(* copies agree.                                                           *)
LEMMA AttributesOfNew ==
    ASSUME NEW path \in Requests, NEW p \in Ports,
           NEW o \in SetAttributes(NewDev(path), p, NewDev(path).mode)
    PROVE  /\ o.port \in Ports /\ o.port.open = p.open
           /\ o.ok => /\ o.dev \in Devices /\ Agree(o.dev, o.port) /\ Flow(o.dev)
                      /\ o.dev.fifo = EmptyFifo
<1> DEFINE d == NewDev(path)
           asked == NewDev(path).mode
           a == Filled(asked)
           e == Programmed(d, a)
           q == Timed(p, a)
<1>0. /\ asked \in Modes /\ d \in Devices /\ Uart(asked) = d.uart
      /\ d.path = d.uart /\ d.uart \in Settings /\ d.mode = asked
      /\ Flow(d) /\ ~d.installed /\ d.fifo = EmptyFifo /\ d.fresh
  <2>1. d.fresh /\ d.uart = Uart(path)
    BY DEF NewDev
  <2>2. d \in Devices
    BY RequestIs
  <2>3. d.uart \in Settings
    BY <2>2 DEF Devices
  <2> QED BY <2>1, <2>3, RequestIs
<1>1. Named(d.path) = Uart(a)
  BY <1>0, NamedIs
<1> HIDE DEF d, asked
<1>2. CASE o.dev = d /\ o.port = p /\ (o.ok => Valid(asked) /\ d.uart = Uart(a))
  BY <1>0, <1>1, <1>2 DEF Agree
<1>3. CASE Valid(asked) /\ o.port = Framed(p, a) /\ ~o.ok
  <2>1. a \in Modes
    BY <1>0, <1>3, FilledIs
  <2> HIDE DEF a
  <2> QED BY <1>3, <2>1, FramedIs
<1>4. CASE Valid(asked) /\ o.dev = e /\ o.port = q
  <2>1. a \in Modes
    BY <1>0, <1>4, FilledIs
  <2> HIDE DEF a
  <2>2. q \in Ports /\ q.open = p.open /\ Uart(q) = Uart(a) /\ q.wait = a.wait
    BY <2>1, FramedIs
  <2>3. /\ e \in Devices /\ e.mode = a /\ e.uart = Uart(a) /\ ~e.fresh /\ ~e.torn
        /\ e.path = IF d.installed /\ d.uart # Uart(a) THEN Uart(a) ELSE d.path
        /\ e.fifo = d.fifo /\ e.flow = d.flow /\ e.half = d.half /\ e.flags = d.flags
    BY <1>0, <2>1, ProgrammedIs
  <2>4. Agree(e, q) /\ Flow(e)
    BY <1>0, <1>1, <2>2, <2>3 DEF Agree, Flow
  <2> QED BY <1>0, <1>4, <2>2, <2>3, <2>4
<1>5. \/ o.dev = d /\ o.port = p /\ (o.ok => Valid(asked) /\ d.uart = Uart(a))
      \/ Valid(asked) /\ o.port = Framed(p, a) /\ ~o.ok
      \/ Valid(asked) /\ o.dev = e /\ o.port = q
  <2> DEFINE r == [d EXCEPT !.torn = TRUE]
             s == Framed(p, a)
  <2>1. SetAttributes(d, p, asked) =
          IF ~Valid(asked) THEN {Outcome(d, p, FALSE)}
          ELSE IF d.uart = Uart(a) /\ d.mode.wait = a.wait THEN {Outcome(d, p, TRUE)}
          ELSE {Outcome(d, p, FALSE), Outcome(r, s, FALSE), Outcome(e, q, TRUE)}
               \cup {Outcome(e, q, FALSE) : x \in {y \in {d.installed} : y /\ d.uart # Uart(a)}}
    BY DEF SetAttributes
  <2>0. o \in SetAttributes(d, p, asked)
    BY DEF d, asked
  <2> HIDE DEF a, e, q, r, s
  <2>2. \/ o = Outcome(d, p, TRUE) /\ Valid(asked) /\ d.uart = Uart(a)
        \/ o = Outcome(d, p, FALSE)
        \/ Valid(asked) /\ o = Outcome(r, s, FALSE)
        \/ Valid(asked) /\ (o = Outcome(e, q, TRUE) \/ o = Outcome(e, q, FALSE))
    BY <2>0, <2>1
  <2> QED BY <2>2 DEF Outcome, s
<1> QED BY <1>2, <1>3, <1>4, <1>5

(* SetControl, whatever the host does; and Write and Read switching a line *)
(* on and off.                                                             *)
LEMMA ControlKeeps ==
    ASSUME NEW d, NEW p, Good(d, p), d.installed, NEW c,
           NEW o \in SetControl(d, p, c)
    PROVE  Good(o.dev, o.port) /\ Same(d, p, o.dev, o.port)
<1> DEFINE h == Flagged(d, c, TRUE)
           g == Flagged(d, c, FALSE)
           e == Published(g, c)
           q == [p EXCEPT !.lines = c \ Flags]
<1>0. d \in Devices /\ p \in Ports /\ Agree(d, p) /\ Flow(d)
  BY DEF Good
<1>1. CASE o.dev = d /\ o.port = p
  BY <1>1, <1>0 DEF Same, Good
<1>2. CASE o.dev = h /\ o.port = p
  <2>1. h \in Devices
    BY <1>0 DEF Flagged, Devices
  <2>2. /\ h.half = TRUE /\ h.mode = d.mode /\ h.uart = d.uart /\ h.path = d.path
        /\ h.fresh = d.fresh /\ h.torn = d.torn /\ h.installed = d.installed /\ h.fifo = d.fifo
    BY <1>0 DEF Flagged, Devices
  <2> QED BY <1>0, <1>2, <2>1, <2>2 DEF Good, Same, Agree, Flow
<1>3. CASE c \subseteq Settable /\ o.dev = e /\ o.port = q
  <2>1. g \in Devices
    BY <1>0 DEF Flagged, Devices
  <2>2. /\ g.half = FALSE /\ g.mode = d.mode /\ g.uart = d.uart /\ g.path = d.path
        /\ g.fresh = d.fresh /\ g.torn = d.torn /\ g.installed = d.installed /\ g.fifo = d.fifo
        /\ g.flags = c \cap Flags /\ g.flow = d.flow
    BY <1>0 DEF Flagged, Devices
  <2> HIDE DEF g
  <2>3. (IF g.installed /\ g.flow # Null THEN NodeOf(c) ELSE g.flow) \in {Null, "none", "hardware"}
    BY <2>1 DEF Devices, NodeOf
  <2>4. /\ e \in Devices
        /\ e.half = g.half /\ e.mode = g.mode /\ e.uart = g.uart /\ e.path = g.path
        /\ e.fresh = g.fresh /\ e.torn = g.torn /\ e.installed = g.installed /\ e.fifo = g.fifo
        /\ e.flags = g.flags
        /\ e.flow = IF g.installed /\ g.flow # Null THEN NodeOf(c) ELSE g.flow
    BY <2>1, <2>3 DEF Published, Devices
  <2> HIDE DEF e
  <2>5. q \in Ports /\ q.open = p.open /\ q.wait = p.wait /\ Uart(q) = Uart(p)
    <3>1. c \ Flags \in SUBSET Settable
      BY <1>3
    <3> QED BY <1>0, <3>1 DEF Ports, Uart
  <2>6. Agree(e, q)
    BY <1>0, <2>2, <2>4, <2>5 DEF Agree
  <2>7. Flow(e)
    <3>1. d.installed /\ e.half = FALSE /\ e.flags = c \cap Flags /\ "HFC" \in Flags
      BY <2>2, <2>4 DEF Flags
    <3>2. e.flow # Null => e.flow = NodeOf(c)
      BY <2>2, <2>4
    <3> QED BY <3>1, <3>2 DEF Flow, NodeOf
  <2> QED BY <1>0, <1>3, <2>2, <2>4, <2>5, <2>6, <2>7 DEF Good, Same
<1>4. \/ o.dev = d /\ o.port = p
      \/ o.dev = h /\ o.port = p
      \/ c \subseteq Settable /\ o.dev = e /\ o.port = q
  <2>1. SetControl(d, p, c) =
          IF ~(c \subseteq Settable) THEN {Outcome(d, p, FALSE)}
          ELSE {Outcome(d, p, FALSE), Outcome(h, p, FALSE)}
               \cup {Outcome(e, q, ok) : ok \in {TRUE, Published(d, c) = d}}
    BY Zenon DEF SetControl
  <2> HIDE DEF h, g, e, q
  <2>2. \/ o = Outcome(d, p, FALSE) \/ o = Outcome(h, p, FALSE)
        \/ c \subseteq Settable /\ \E ok \in {TRUE, Published(d, c) = d} : o = Outcome(e, q, ok)
    BY <2>1
  <2> QED BY <2>2 DEF Outcome
<1> QED BY <1>1, <1>2, <1>3, <1>4

LEMMA SwitchedKeeps ==
    ASSUME NEW d, NEW p, Good(d, p), d.installed, NEW w, NEW bit, NEW on,
           NEW t \in Switched([dev |-> d, port |-> p, word |-> w], bit, on)
    PROVE  Good(t.dev, t.port) /\ Same(d, p, t.dev, t.port)
<1> DEFINE s == [dev |-> d, port |-> p, word |-> w]
<1>1. CASE t = s
  BY <1>1 DEF Same
<1>2. CASE \E v : \E o \in SetControl(d, p, v) : t.dev = o.dev /\ t.port = o.port
  BY <1>2, ControlKeeps
<1>3. t = s \/ \E v : \E o \in SetControl(d, p, v) : t.dev = o.dev /\ t.port = o.port
  <2> DEFINE read == (GetControl(d, p) \ {Null}) \cup {w}
             words == {IF on THEN v \cup {bit} ELSE v \ {bit} : v \in read}
  <2>1. Switched(s, bit, on) =
          IF "HFC" \in d.flags
          THEN UNION {{[dev |-> o.dev, port |-> o.port, word |-> v] :
                          o \in SetControl(d, p, v)} : v \in words}
          ELSE {s}
    BY DEF Switched
  <2> HIDE DEF words, s
  <2>2. t = s \/ \E v \in words : \E o \in SetControl(d, p, v) :
                     t = [dev |-> o.dev, port |-> o.port, word |-> v]
    BY <2>1 DEF s
  <2> QED BY <2>2
<1> QED BY <1>1, <1>2, <1>3

LEMMA OnAndOffKeeps ==
    ASSUME Good(dev, port), dev.installed, NEW bit, NEW t \in OnAndOff(bit)
    PROVE  Good(t.dev, t.port) /\ Same(dev, port, t.dev, t.port)
<1>1. PICK w \in Leftover :
        \E s \in Switched([dev |-> dev, port |-> port, word |-> w], bit, TRUE) :
            t \in Switched(s, bit, FALSE)
  BY DEF OnAndOff
<1>2. PICK s \in Switched([dev |-> dev, port |-> port, word |-> w], bit, TRUE) :
        t \in Switched(s, bit, FALSE)
  BY <1>1
<1>3. Good(s.dev, s.port) /\ Same(dev, port, s.dev, s.port)
  BY <1>2, SwitchedKeeps
<1>4. s.dev.installed
  BY <1>3 DEF Same
<1>5. s = [dev |-> s.dev, port |-> s.port, word |-> s.word]
  BY <1>2 DEF Switched
<1>6. t \in Switched([dev |-> s.dev, port |-> s.port, word |-> s.word], bit, FALSE)
  BY <1>2, <1>5
<1>7. Good(t.dev, t.port) /\ Same(s.dev, s.port, t.dev, t.port)
  BY <1>3, <1>4, <1>6, SwitchedKeeps
<1> QED BY <1>3, <1>7 DEF Same

----------------------------------------------------------------------------
(* The invariant: a child is as every call leaves it and its FIFO holds    *)
(* bytes; a call or a transfer under way has a child, and carries what the *)
(* code it is inside had read.                                             *)
ChildOK ==
    dev # Null => /\ Good(dev, port) /\ Consistent(dev.fifo)
                  /\ Contents(dev.fifo) \in Seq(Byte)
Core == /\ opened \in BOOLEAN /\ leaked \in BOOLEAN /\ heard \in Byte /\ port \in Ports
        /\ ChildOK /\ PortIsOwned
CallOK ==
    call # Idle => /\ dev # Null
                   /\ call.at = "baud" => call.baud \in Nat
                   /\ call.at = "reset" => call.asked \in Modes
Transferring == [op : {"loopWrite"}, rest : Seq(Byte)] \cup [op : {"write", "loopRead"}, left : Nat]
TransferOK == transfer # Null => dev # Null /\ transfer \in Transferring
SerialInv == Core /\ CallOK /\ TransferOK

Line == IF dev = Null THEN <<>> ELSE Contents(dev.fifo)

(* A step that leaves the loopback alone.                                  *)
Quiet == dev # Null /\ Good(dev', port') /\ Same(dev, port, dev', port')
         /\ UNCHANGED <<opened, heard, leaked>>

LEMMA ChildIs ==
    ASSUME SerialInv, dev # Null
    PROVE  /\ Good(dev, port) /\ dev.installed /\ opened /\ port.open
           /\ dev \in Devices /\ port \in Ports /\ Sound(dev.fifo)
           /\ dev.mode \in Modes
<1>1. Good(dev, port) /\ Consistent(dev.fifo) /\ PortIsOwned
  BY DEF SerialInv, Core, ChildOK
<1>2. dev \in Devices /\ port \in Ports
  BY <1>1 DEF Good
<1>3. dev.fifo \in Fifos /\ dev.mode \in Modes
  BY <1>2 DEF Devices
<1> QED BY <1>1, <1>2, <1>3 DEF PortIsOwned, Sound

LEMMA QuietKeeps ==
    ASSUME SerialInv, Quiet
    PROVE  Core' /\ dev' # Null /\ Line' = Line
<1>1. dev # Null /\ Good(dev, port) /\ dev.installed /\ opened /\ port.open
  BY ChildIs DEF Quiet
<1>2. Good(dev', port') /\ Same(dev, port, dev', port')
  BY DEF Quiet
<1>3. dev' \in Devices /\ port' \in Ports /\ dev' # Null
  BY <1>2, NullAssumption DEF Good
<1>4. /\ opened' \in BOOLEAN /\ leaked' \in BOOLEAN /\ heard' \in Byte /\ opened'
      /\ Consistent(dev.fifo) /\ Contents(dev.fifo) \in Seq(Byte)
  BY <1>1 DEF Quiet, SerialInv, Core, ChildOK
<1>5. dev'.installed /\ dev'.fifo = dev.fifo /\ port'.open
  BY <1>1, <1>2 DEF Same
<1>6. ChildOK'
  BY <1>2, <1>4, <1>5 DEF ChildOK
<1>7. PortIsOwned'
  BY <1>3, <1>4, <1>5 DEF PortIsOwned
<1> QED BY <1>1, <1>3, <1>4, <1>5, <1>6, <1>7 DEF Core, Line

LEMMA StillKeeps ==
    ASSUME SerialInv, UNCHANGED <<opened, dev, port, heard, leaked>>
    PROVE  Core' /\ dev' = dev /\ Line' = Line
BY DEF SerialInv, Core, ChildOK, PortIsOwned, Line

(* What a step may do to the loopback.                                     *)
FifoStep ==
    \/ Line' = Line /\ heard' = heard
    \/ Line' = <<>> /\ heard' = heard
    \/ Line # <<>> /\ heard' = Head(Line) /\ Line' = Tail(Line)
    \/ \E b \in Byte : Len(Line) < N /\ Line' = Append(Line, b) /\ heard' = heard

----------------------------------------------------------------------------
(* The binding.                                                            *)
LEMMA StartKeeps ==
    ASSUME SerialInv, Start
    PROVE  SerialInv' /\ FifoStep
<1>0. /\ ~opened /\ heard' = heard /\ UNCHANGED <<call, transfer>>
      /\ heard \in Byte /\ port \in Ports /\ leaked \in BOOLEAN /\ opened \in BOOLEAN
      /\ dev = Null /\ (port.open => leaked)
  <2>1. ~opened
    BY DEF Start, StartEnd, StartNoMemory, StartChild
  <2> QED BY <2>1 DEF Start, SerialInv, Core, PortIsOwned
<1>1. CASE /\ dev' = Null /\ opened' \in BOOLEAN /\ leaked' \in BOOLEAN /\ port' \in Ports
           /\ port'.open => leaked'
  <2>1. Line' = Line
    BY <1>0, <1>1 DEF Line
  <2>2. call = Idle /\ transfer = Null
    BY <1>0 DEF SerialInv, CallOK, TransferOK
  <2> QED BY <1>0, <1>1, <2>1, <2>2
          DEF SerialInv, Core, ChildOK, PortIsOwned, CallOK, TransferOK, FifoStep
<1>2. CASE /\ opened' = TRUE /\ leaked' = leaked /\ Good(dev', port') /\ dev'.installed
           /\ dev'.fifo = EmptyFifo /\ port'.open
  <2>1. dev' # Null /\ port' \in Ports
    BY <1>2, NullAssumption DEF Good
  <2>2. Consistent(EmptyFifo) /\ Contents(EmptyFifo) = <<>> /\ Contents(EmptyFifo) \in Seq(Byte)
    BY EmptyIsSound DEF Sound
  <2>3. Line' = Line
    BY <1>0, <1>2, <2>1, <2>2 DEF Line
  <2>4. ChildOK' /\ PortIsOwned'
    BY <1>2, <2>1, <2>2 DEF ChildOK, PortIsOwned
  <2> QED BY <1>0, <1>2, <2>1, <2>3, <2>4
          DEF SerialInv, Core, CallOK, TransferOK, FifoStep
<1>3. CASE StartEnd
  BY <1>0, <1>1, <1>3 DEF StartEnd
<1>4. CASE StartNoMemory
  <2>1. port' \in Ports
    BY <1>0, <1>4 DEF StartNoMemory, Ports
  <2> QED BY <1>0, <1>1, <1>4, <2>1 DEF StartNoMemory
<1>5. ASSUME NEW path \in Requests, StartChild(path)
      PROVE  SerialInv' /\ FifoStep
  <2> DEFINE p == [port EXCEPT !.open = TRUE]
  <2>1. p \in Ports /\ p.open
    BY <1>0 DEF Ports
  <2>2. ASSUME NEW r \in Ports, Abandoned(r)
        PROVE  SerialInv' /\ FifoStep
    <3>1. Closed(r) \in Ports /\ ~Closed(r).open
      BY DEF Closed, Ports
    <3> QED BY <1>0, <1>1, <2>2, <3>1 DEF Abandoned
  <2> HIDE DEF p
  <2>3. ASSUME NEW o \in SetAttributes(NewDev(path), p, NewDev(path).mode), o.ok,
               opened' = TRUE, port' = o.port, dev' = [o.dev EXCEPT !.installed = TRUE],
               leaked' = leaked
        PROVE  SerialInv' /\ FifoStep
    <3>1. /\ o.port \in Ports /\ o.port.open /\ o.dev \in Devices /\ Agree(o.dev, o.port)
          /\ Flow(o.dev) /\ o.dev.fifo = EmptyFifo
      BY <2>1, <2>3, AttributesOfNew
    <3>2. dev' \in Devices /\ dev'.installed /\ dev'.fifo = EmptyFifo
      BY <2>3, <3>1 DEF Devices
    <3>3. Agree(dev', port') /\ Flow(dev')
      BY <2>3, <3>1 DEF Agree, Flow, Devices
    <3> QED BY <1>2, <2>3, <3>1, <3>2, <3>3 DEF Good
  <2>4. \/ Abandoned(p)
        \/ \E o \in SetAttributes(NewDev(path), p, NewDev(path).mode) :
             \/ Abandoned(o.port)
             \/ /\ o.ok /\ opened' = TRUE /\ port' = o.port
                /\ dev' = [o.dev EXCEPT !.installed = TRUE] /\ leaked' = leaked
    BY <1>5 DEF StartChild, p
  <2>5. \A o \in SetAttributes(NewDev(path), p, NewDev(path).mode) : o.port \in Ports
    BY <2>1, AttributesOfNew
  <2> QED BY <2>1, <2>2, <2>3, <2>4, <2>5
<1>6. StartEnd \/ StartNoMemory \/ \E path \in Requests : StartChild(path)
  BY DEF Start, Requests
<1> QED BY <1>3, <1>4, <1>5, <1>6

LEMMA StopKeeps ==
    ASSUME SerialInv, Stop
    PROVE  SerialInv' /\ FifoStep
<1>0. /\ call = Idle /\ transfer = Null /\ UNCHANGED <<call, transfer, heard, leaked>>
      /\ Core
  BY DEF Stop, Uninterrupted, SerialInv
<1>1. CASE dev # Null
  <2>1. dev' = Null /\ port' = Closed(port) /\ opened' = opened
    BY <1>1 DEF Stop
  <2>2. Closed(port) \in Ports /\ ~Closed(port).open
    BY <1>0 DEF Core, Closed, Ports
  <2> QED BY <1>0, <2>1, <2>2
          DEF SerialInv, Core, ChildOK, PortIsOwned, CallOK, TransferOK, FifoStep, Line
<1>2. CASE dev = Null
  <2>1. opened' = FALSE /\ UNCHANGED <<dev, port>>
    BY <1>2 DEF Stop
  <2> QED BY <1>0, <1>2, <2>1
          DEF SerialInv, Core, ChildOK, PortIsOwned, CallOK, TransferOK, FifoStep, Line
<1> QED BY <1>1, <1>2

(* A quiet step keeps the invariant where the call it is part of, and the  *)
(* transfer, do.                                                           *)
LEMMA QuietInv ==
    ASSUME SerialInv, Quiet, transfer' = transfer,
           \/ call' = call \/ call' = Idle
           \/ call'.at \notin {"baud", "reset"}
    PROVE  SerialInv' /\ FifoStep
<1>1. Core' /\ dev' # Null /\ Line' = Line
  BY QuietKeeps
<1>2. CallOK'
  BY <1>1 DEF SerialInv, CallOK, Idle
<1>3. TransferOK'
  BY <1>1 DEF SerialInv, TransferOK
<1> QED BY <1>1, <1>2, <1>3 DEF SerialInv, FifoStep, Quiet

LEMMA RestartKeeps ==
    ASSUME SerialInv, NEW path \in Paths, Restart(path)
    PROVE  SerialInv' /\ FifoStep
<1>1. dev # Null /\ UNCHANGED <<opened, transfer, heard, leaked>>
  BY DEF Restart
<1>2. Good(dev, port) /\ dev.installed /\ dev.mode \in Modes
  BY <1>1, ChildIs
<1> DEFINE asked == [baud |-> path.baud, frame |-> path.frame, wait |-> dev.mode.wait]
<1>3. asked \in Modes
  BY <1>2, BaudAssumption DEF Paths, Modes, Frames
<1>4. PICK o \in SetAttributes(dev, port, asked) :
        /\ dev' = o.dev /\ port' = o.port
        /\ call' = IF o.ok /\ path.flow # Null
                   THEN [at |-> "getControl", flow |-> path.flow] ELSE Idle
  BY DEF Restart
<1> HIDE DEF asked
<1>5. Quiet
  BY <1>1, <1>2, <1>3, <1>4, AttributesKeep DEF Quiet
<1>6. call' = Idle \/ call'.at \notin {"baud", "reset"}
  BY <1>4
<1> QED BY <1>1, <1>5, <1>6, QuietInv

LEMMA RestartGetKeeps ==
    ASSUME SerialInv, RestartGet
    PROVE  SerialInv' /\ FifoStep
<1>1. call # Idle /\ dev # Null /\ UNCHANGED <<opened, dev, port, transfer, heard, leaked>>
  BY DEF RestartGet, Idle, SerialInv, CallOK
<1>2. Good(dev, port)
  BY <1>1, ChildIs
<1>3. Quiet
  BY <1>1, <1>2 DEF Quiet, Same
<1>4. call' = Idle \/ call'.at \notin {"baud", "reset"}
  BY DEF RestartGet
<1> QED BY <1>1, <1>3, <1>4, QuietInv

LEMMA RestartSetKeeps ==
    ASSUME SerialInv, RestartSet
    PROVE  SerialInv' /\ FifoStep
<1>1. call # Idle /\ dev # Null /\ UNCHANGED <<opened, transfer, heard, leaked>> /\ call' = Idle
  BY DEF RestartSet, Idle, SerialInv, CallOK
<1>2. Good(dev, port) /\ dev.installed
  BY <1>1, ChildIs
<1>3. PICK o \in SetControl(dev, port, call.word) : dev' = o.dev /\ port' = o.port
  BY DEF RestartSet
<1>4. Quiet
  BY <1>1, <1>2, <1>3, ControlKeeps DEF Quiet
<1> QED BY <1>1, <1>4, QuietInv

----------------------------------------------------------------------------
(* The protocol.                                                           *)
LEMMA SetAttributesKeeps ==
    ASSUME SerialInv, NEW a \in [baud : BaudAsked, frame : FrameAsked, wait : WaitAsked],
           CallSetAttributes(a)
    PROVE  SerialInv' /\ FifoStep
<1>1. dev # Null /\ UNCHANGED <<opened, call, transfer, heard, leaked>>
  BY DEF CallSetAttributes, Serves
<1>2. Good(dev, port) /\ dev.installed
  BY <1>1, ChildIs
<1>3. a \in Modes
  BY BaudAssumption DEF Modes, Frames, Waits
<1>4. PICK o \in SetAttributes(dev, port, a) : dev' = o.dev /\ port' = o.port
  BY DEF CallSetAttributes
<1>5. Quiet
  BY <1>1, <1>2, <1>3, <1>4, AttributesKeep DEF Quiet
<1> QED BY <1>1, <1>5, QuietInv

LEMMA SetControlKeeps ==
    ASSUME SerialInv, NEW c, CallSetControl(c)
    PROVE  SerialInv' /\ FifoStep
<1>1. dev # Null /\ UNCHANGED <<opened, call, transfer, heard, leaked>>
  BY DEF CallSetControl, Serves
<1>2. Good(dev, port) /\ dev.installed
  BY <1>1, ChildIs
<1>3. PICK o \in SetControl(dev, port, c) : dev' = o.dev /\ port' = o.port
  BY DEF CallSetControl
<1>4. Quiet
  BY <1>1, <1>2, <1>3, ControlKeeps DEF Quiet
<1> QED BY <1>1, <1>4, QuietInv

LEMMA ResetKeeps ==
    ASSUME SerialInv, Reset \/ ResetReadBaud \/ ResetReadRest \/ ResetSet
    PROVE  SerialInv' /\ FifoStep
<1>1. CASE Reset \/ ResetReadBaud \/ ResetReadRest
  <2>1. dev # Null /\ UNCHANGED <<opened, dev, port, transfer, heard, leaked>>
    BY <1>1 DEF Reset, ResetReadBaud, ResetReadRest, Serves, Idle, SerialInv, CallOK
  <2>2. dev.mode \in Modes
    BY <2>1, ChildIs
  <2>3. /\ call'.at = "baud" => call'.baud \in Nat
        /\ call'.at = "reset" => call'.asked \in Modes
    <3>1. CASE Reset
      BY <3>1 DEF Reset
    <3>2. CASE ResetReadBaud
      BY <2>2, <3>2 DEF ResetReadBaud, Modes
    <3>3. CASE ResetReadRest
      <4>1. call.baud \in Nat
        BY <3>3 DEF ResetReadRest, SerialInv, CallOK, Idle
      <4>2. call' = [at |-> "reset", asked |-> [dev.mode EXCEPT !.baud = call.baud]]
        BY <3>3 DEF ResetReadRest
      <4>3. [dev.mode EXCEPT !.baud = call.baud] \in Modes
        BY <2>2, <4>1 DEF Modes
      <4> QED BY <4>2, <4>3
    <3> QED BY <1>1, <3>1, <3>2, <3>3
  <2>4. Core' /\ dev' = dev /\ Line' = Line
    BY <2>1, StillKeeps
  <2>5. CallOK' /\ TransferOK'
    BY <2>1, <2>3, <2>4 DEF SerialInv, CallOK, TransferOK
  <2> QED BY <2>1, <2>4, <2>5 DEF SerialInv, FifoStep
<1>2. CASE ResetSet
  <2>1. /\ call # Idle /\ call.at = "reset" /\ call' = Idle
        /\ UNCHANGED <<opened, transfer, heard, leaked>>
    BY <1>2 DEF ResetSet, Idle
  <2>2. dev # Null /\ call.asked \in Modes
    BY <2>1 DEF SerialInv, CallOK
  <2>3. Good(dev, port) /\ dev.installed
    BY <2>2, ChildIs
  <2>4. PICK o \in SetAttributes(dev, port, call.asked) : dev' = o.dev /\ port' = o.port
    BY <1>2 DEF ResetSet
  <2>5. Quiet
    BY <2>1, <2>2, <2>3, <2>4, AttributesKeep DEF Quiet
  <2> QED BY <2>1, <2>5, QuietInv
<1> QED BY <1>1, <1>2

(* A step that only goes on with the transfer, or starts one.              *)
LEMMA TransferKeeps ==
    ASSUME SerialInv, Core', dev' # Null, call' = call, TransferOK'
    PROVE  SerialInv'
BY DEF SerialInv, CallOK

LEMMA WriteKeeps ==
    ASSUME SerialInv, NEW buffer \in Buffers, Write(buffer)
    PROVE  SerialInv' /\ FifoStep
<1>1. /\ dev # Null /\ UNCHANGED <<opened, dev, port, call, heard, leaked>>
      /\ transfer' = IF Loops THEN [op |-> "loopWrite", rest |-> buffer]
                     ELSE [op |-> "write", left |-> Len(buffer)]
  BY DEF Write, Serves
<1>2. buffer \in Seq(Byte)
  BY BufferAssumption
<1>3. Core' /\ dev' = dev /\ Line' = Line
  BY <1>1, StillKeeps
<1>4. TransferOK'
  BY <1>1, <1>2, <1>3 DEF TransferOK, Transferring
<1> QED BY <1>1, <1>3, <1>4, TransferKeeps DEF FifoStep

LEMMA LoopWriteKeeps ==
    ASSUME SerialInv, LoopWrite
    PROVE  SerialInv' /\ FifoStep
<1>1. /\ transfer # Null /\ transfer.op = "loopWrite"
      /\ UNCHANGED <<opened, port, call, heard, leaked>>
  BY DEF LoopWrite
<1>2. dev # Null /\ transfer \in [op : {"loopWrite"}, rest : Seq(Byte)]
  BY <1>1 DEF SerialInv, TransferOK, Transferring
<1>3. CASE transfer' = Null /\ dev' = dev
  <2>1. Core' /\ Line' = Line
    BY <1>1, <1>3, StillKeeps
  <2>2. TransferOK'
    BY <1>3 DEF TransferOK
  <2> QED BY <1>1, <1>2, <1>3, <2>1, <2>2, TransferKeeps DEF FifoStep
<1>4. CASE /\ transfer.rest # <<>> /\ ~IsaSerialFifoFull(dev.fifo)
           /\ dev' = [dev EXCEPT !.fifo = IsaSerialFifoAdd(@, Head(transfer.rest))]
           /\ transfer' = [transfer EXCEPT !.rest = Tail(@)]
  <2> DEFINE b == Head(transfer.rest)
             f == IsaSerialFifoAdd(dev.fifo, b)
  <2>1. b \in Byte /\ Tail(transfer.rest) \in Seq(Byte)
    BY <1>2, <1>4
  <2>2. /\ Good(dev, port) /\ dev.installed /\ opened /\ port.open /\ dev \in Devices
        /\ Sound(dev.fifo)
    BY <1>2, ChildIs
  <2>3. /\ Sound(f) /\ Contents(f) = Append(Contents(dev.fifo), b)
        /\ Len(Contents(dev.fifo)) < N
    BY <1>4, <2>1, <2>2, AddAppends
  <2>4. Contents(dev.fifo) \in Seq(Byte) /\ Core
    BY <1>2 DEF SerialInv, Core, ChildOK
  <2> HIDE DEF f, b
  <2>5. dev' = [dev EXCEPT !.fifo = f]
    BY <1>4 DEF f, b
  <2>6. dev' \in Devices /\ dev'.fifo = f
    BY <2>2, <2>3, <2>5 DEF Devices, Sound
  <2>7. Good(dev', port') /\ dev'.installed
    <3>1. port' = port /\ port \in Ports /\ Agree(dev, port) /\ Flow(dev)
      BY <1>1, <2>2 DEF Good
    <3>2. Agree(dev', port') /\ Flow(dev') /\ dev'.installed
      BY <2>2, <2>5, <3>1 DEF Agree, Flow, Devices
    <3> QED BY <2>6, <3>1, <3>2 DEF Good
  <2>8. dev' # Null
    BY <2>6, NullAssumption
  <2>9. Append(Contents(dev.fifo), b) \in Seq(Byte)
    BY <2>1, <2>4
  <2>10. ChildOK' /\ PortIsOwned'
    BY <1>1, <2>2, <2>3, <2>6, <2>7, <2>8, <2>9 DEF ChildOK, PortIsOwned, Sound
  <2>11. Core'
    BY <1>1, <2>4, <2>10 DEF Core
  <2>12. transfer' \in Transferring
    BY <1>2, <1>4, <2>1 DEF Transferring
  <2>13. Line' = Append(Line, b) /\ Len(Line) < N
    BY <1>2, <2>3, <2>6, <2>8 DEF Line
  <2>14. TransferOK'
    BY <2>8, <2>12 DEF TransferOK
  <2>15. FifoStep
    BY <1>1, <2>1, <2>13 DEF FifoStep
  <2> QED BY <1>1, <2>8, <2>11, <2>14, <2>15, TransferKeeps
<1>5. \/ transfer' = Null /\ dev' = dev
      \/ /\ transfer.rest # <<>> /\ ~IsaSerialFifoFull(dev.fifo)
         /\ dev' = [dev EXCEPT !.fifo = IsaSerialFifoAdd(@, Head(transfer.rest))]
         /\ transfer' = [transfer EXCEPT !.rest = Tail(@)]
  BY DEF LoopWrite
<1> QED BY <1>3, <1>4, <1>5

LEMMA WriteSomeKeeps ==
    ASSUME SerialInv, WriteSome
    PROVE  SerialInv' /\ FifoStep
<1>1. /\ transfer # Null /\ transfer.op = "write"
      /\ UNCHANGED <<opened, call, heard, leaked>>
  BY DEF WriteSome
<1>2. dev # Null /\ transfer \in [op : {"write"}, left : Nat]
  BY <1>1 DEF SerialInv, TransferOK, Transferring
<1>3. PICK s \in OnAndOff("RTS") : dev' = s.dev /\ port' = s.port
  BY DEF WriteSome
<1>4. Good(dev, port) /\ dev.installed
  BY <1>2, ChildIs
<1>5. Good(s.dev, s.port) /\ Same(dev, port, s.dev, s.port)
  BY <1>3, <1>4, OnAndOffKeeps
<1>6. Quiet
  BY <1>1, <1>2, <1>3, <1>5 DEF Quiet
<1>7. Core' /\ dev' # Null /\ Line' = Line
  BY <1>6, QuietKeeps
<1>8. transfer' = Null \/ transfer' \in Transferring
  <2>1. \/ transfer' = Null
        \/ \E n \in 0 .. transfer.left : transfer' = [transfer EXCEPT !.left = @ - n]
    BY DEF WriteSome
  <2>2. ASSUME NEW n \in 0 .. transfer.left, transfer' = [transfer EXCEPT !.left = @ - n]
        PROVE  transfer' \in Transferring
    <3>1. transfer.left - n \in Nat
      BY <1>2
    <3> QED BY <1>2, <2>2, <3>1 DEF Transferring
  <2> QED BY <2>1, <2>2
<1>9. TransferOK'
  BY <1>7, <1>8 DEF TransferOK
<1> QED BY <1>1, <1>7, <1>9, TransferKeeps DEF FifoStep

LEMMA ReadKeeps ==
    ASSUME SerialInv, NEW size \in Nat, Read(size)
    PROVE  SerialInv' /\ FifoStep
<1>1. dev # Null /\ UNCHANGED <<opened, call, heard, leaked>>
  BY DEF Read, Serves
<1>2. CASE transfer' = [op |-> "loopRead", left |-> size] /\ UNCHANGED <<dev, port>>
  <2>1. Core' /\ Line' = Line
    BY <1>1, <1>2, StillKeeps
  <2>2. TransferOK'
    BY <1>1, <1>2 DEF TransferOK, Transferring
  <2> QED BY <1>1, <1>2, <2>1, <2>2, TransferKeeps DEF FifoStep
<1>3. CASE \E s \in OnAndOff("DTR") : dev' = s.dev /\ port' = s.port /\ UNCHANGED transfer
  <2>1. PICK s \in OnAndOff("DTR") : dev' = s.dev /\ port' = s.port /\ UNCHANGED transfer
    BY <1>3
  <2>2. Good(dev, port) /\ dev.installed
    BY <1>1, ChildIs
  <2>3. Good(s.dev, s.port) /\ Same(dev, port, s.dev, s.port)
    BY <2>1, <2>2, OnAndOffKeeps
  <2>4. Quiet
    BY <1>1, <2>1, <2>3 DEF Quiet
  <2> QED BY <1>1, <2>1, <2>4, QuietInv
<1> QED BY <1>2, <1>3 DEF Read

LEMMA LoopReadKeeps ==
    ASSUME SerialInv, LoopRead
    PROVE  SerialInv' /\ FifoStep
<1>1. transfer # Null /\ transfer.op = "loopRead" /\ UNCHANGED <<opened, port, call, leaked>>
  BY DEF LoopRead
<1>2. dev # Null /\ transfer \in [op : {"loopRead"}, left : Nat]
  BY <1>1 DEF SerialInv, TransferOK, Transferring
<1>3. CASE transfer' = Null /\ dev' = dev /\ heard' = heard
  <2>1. Core' /\ Line' = Line
    BY <1>1, <1>3, StillKeeps
  <2>2. TransferOK'
    BY <1>3 DEF TransferOK
  <2> QED BY <1>1, <1>2, <1>3, <2>1, <2>2, TransferKeeps DEF FifoStep
<1>4. CASE /\ transfer.left # 0 /\ ~IsaSerialFifoEmpty(dev.fifo)
           /\ heard' = dev.fifo.Data[dev.fifo.First]
           /\ dev' = [dev EXCEPT !.fifo = IsaSerialFifoRemove(@)]
           /\ transfer' = [transfer EXCEPT !.left = @ - 1]
  <2> DEFINE f == IsaSerialFifoRemove(dev.fifo)
  <2>1. /\ Good(dev, port) /\ dev.installed /\ opened /\ port.open /\ dev \in Devices
        /\ Sound(dev.fifo)
    BY <1>2, ChildIs
  <2>2. /\ Sound(f) /\ Contents(dev.fifo) # <<>> /\ heard' = Head(Contents(dev.fifo))
        /\ Contents(f) = Tail(Contents(dev.fifo))
    BY <1>4, <2>1, RemoveTakes
  <2>3. Contents(dev.fifo) \in Seq(Byte) /\ Core
    BY <1>2 DEF SerialInv, Core, ChildOK
  <2> HIDE DEF f
  <2>4. heard' \in Byte /\ Contents(f) \in Seq(Byte)
    BY <2>2, <2>3
  <2>5. dev' = [dev EXCEPT !.fifo = f]
    BY <1>4 DEF f
  <2>6. dev' \in Devices /\ dev'.fifo = f
    BY <2>1, <2>2, <2>5 DEF Devices, Sound
  <2>7. Good(dev', port') /\ dev'.installed
    <3>1. port' = port /\ port \in Ports /\ Agree(dev, port) /\ Flow(dev)
      BY <1>1, <2>1 DEF Good
    <3>2. Agree(dev', port') /\ Flow(dev') /\ dev'.installed
      BY <2>1, <2>5, <3>1 DEF Agree, Flow, Devices
    <3> QED BY <2>6, <3>1, <3>2 DEF Good
  <2>8. dev' # Null
    BY <2>6, NullAssumption
  <2>9. ChildOK' /\ PortIsOwned'
    BY <1>1, <2>1, <2>2, <2>4, <2>6, <2>7, <2>8 DEF ChildOK, PortIsOwned, Sound
  <2>10. Core'
    BY <1>1, <2>3, <2>4, <2>9 DEF Core
  <2>11. transfer' \in Transferring
    <3>1. transfer.left - 1 \in Nat
      BY <1>2, <1>4
    <3> QED BY <1>2, <1>4, <3>1 DEF Transferring
  <2>12. Line # <<>> /\ heard' = Head(Line) /\ Line' = Tail(Line)
    BY <1>2, <2>2, <2>6, <2>8 DEF Line
  <2>13. TransferOK'
    BY <2>8, <2>11 DEF TransferOK
  <2> QED BY <1>1, <2>8, <2>10, <2>12, <2>13, TransferKeeps DEF FifoStep
<1>5. \/ transfer' = Null /\ dev' = dev /\ heard' = heard
      \/ /\ transfer.left # 0 /\ ~IsaSerialFifoEmpty(dev.fifo)
         /\ heard' = dev.fifo.Data[dev.fifo.First]
         /\ dev' = [dev EXCEPT !.fifo = IsaSerialFifoRemove(@)]
         /\ transfer' = [transfer EXCEPT !.left = @ - 1]
  BY DEF LoopRead
<1> QED BY <1>3, <1>4, <1>5

----------------------------------------------------------------------------
LEMMA InvInit == Init => SerialInv /\ Line = <<>>
<1> SUFFICES ASSUME Init PROVE SerialInv /\ Line = <<>>
  OBVIOUS
<1>1. DefaultBaud \in Nat
  BY BaudAssumption
<1>2. port \in Ports /\ ~port.open
  BY <1>1 DEF Init, Ports, Frames, Waits
<1> QED BY <1>2 DEF Init, SerialInv, Core, ChildOK, PortIsOwned, CallOK, TransferOK, Line

LEMMA InvNext == SerialInv /\ [Next]_vars => SerialInv' /\ FifoStep
<1> SUFFICES ASSUME SerialInv, [Next]_vars PROVE SerialInv' /\ FifoStep
  OBVIOUS
<1>1. CASE Binding
  BY <1>1, StartKeeps, StopKeeps, RestartGetKeeps, RestartSetKeeps, RestartKeeps DEF Binding
<1>2. CASE Calls
  BY <1>2, SetAttributesKeeps, SetControlKeeps, ResetKeeps DEF Calls
<1>3. CASE Transfers
  <2>1. \A b \in Buffers : Len(b) \in Nat
    BY BufferAssumption
  <2> QED BY <1>3, <2>1, WriteKeeps, ReadKeeps, LoopWriteKeeps, LoopReadKeeps, WriteSomeKeeps
          DEF Transfers
<1>4. CASE UNCHANGED vars
  <2>1. Core' /\ dev' = dev /\ Line' = Line
    BY <1>4, StillKeeps DEF vars
  <2> QED BY <1>4, <2>1 DEF vars, SerialInv, CallOK, TransferOK, FifoStep
<1> QED BY <1>1, <1>2, <1>3, <1>4 DEF Next

LEMMA Invariance == Spec => []SerialInv
BY InvInit, InvNext, PTL DEF Spec

(* The types, and the three indices of the FIFO, which always tell the     *)
(* same story (SERIAL_DEV_FIFO).                                           *)
THEOREM TypeCorrect == Spec => []TypeOK
<1>1. SerialInv => TypeOK
  BY ChildIs DEF SerialInv, Core, Sound, TypeOK
<1> QED BY <1>1, Invariance, PTL

(* Whichever step of Start or Stop fails, the port is open exactly while   *)
(* there is a child, but for the handle that Start leaks.                  *)
THEOREM PortOwned == Spec => []PortIsOwned
<1>1. SerialInv => PortIsOwned
  BY DEF SerialInv, Core
<1> QED BY <1>1, Invariance, PTL

(* The mode, the UART node, the installed path and the port agree, and the *)
(* path's flow control node with the control flag, whatever the host       *)
(* refuses in SetAttributes and SetControl, and whichever notification     *)
(* calls them while a Reset or a second Start has the TPL lowered.         *)
THEOREM SettingsStayEqual == Spec => [](SettingsAgree /\ FlowIsPublished)
<1>1. SerialInv => SettingsAgree /\ FlowIsPublished
  <2> SUFFICES ASSUME SerialInv, dev # Null
               PROVE  /\ Agree(dev, port) /\ Flow(dev)
                      /\ Agree(dev, port) => SettingsAgree
                      /\ Flow(dev) => FlowIsPublished
    BY DEF SettingsAgree, FlowIsPublished
  <2>1. Good(dev, port)
    BY ChildIs
  <2>2. Agree(dev, port) => SettingsAgree
    BY DEF Agree, Named, SettingsAgree
  <2>3. Flow(dev) => FlowIsPublished
    BY DEF Flow, FlowIsPublished
  <2> QED BY <2>1, <2>2, <2>3 DEF Good
<1> QED BY <1>1, Invariance, PTL

(* The loopback of Write and Read is a FIFO of bytes: every step of the    *)
(* driver is one of the FIFO's, or none.                                   *)
THEOREM LoopbackFifo == Spec => LoopbackIsFifo
<1>1. Init => Loopback!Init
  BY InvInit DEF Init, Loopback!Init, Line
<1>2. SerialInv /\ [Next]_vars => [Loopback!Next]_Loopback!vars
  <2> SUFFICES ASSUME SerialInv, [Next]_vars PROVE [Loopback!Next]_Loopback!vars
    OBVIOUS
  <2>1. FifoStep
    BY InvNext
  <2> QED BY <2>1 DEF FifoStep, Line, N, Loopback!Next, Loopback!Put, Loopback!Get,
                      Loopback!Restart, Loopback!vars
<1> QED BY <1>1, <1>2, InvInit, InvNext, PTL DEF Spec, LoopbackIsFifo, Loopback!Spec
=============================================================================
