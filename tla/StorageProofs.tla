---------------------------- MODULE StorageProofs ----------------------------
(***************************************************************************)
(* What BlockIo keeps for any devices, sizes and media, Microcode for any  *)
(* flash, images and updates, and Fvb for any volumes and block maps.      *)
(***************************************************************************)
EXTENDS BlockIo, Microcode, FvbSmm, NaturalsInduction, WellFoundedInduction, SequenceTheorems, TLAPS

(* A disk as every call leaves it: what was written with success is there; *)
(* a file whose end could be set has the disk's size once something was    *)
(* written; nothing was written to a medium that came after the handle;    *)
(* and a client that did not see a Reset and has the present MediaId has   *)
(* it from the medium of the handle.                                       *)
Agrees(d, h, a) == \A b \in Lba(d) : a[b] # Null => h.blocks[b] = a[b]
Sane(d, p, h, a, s, k, r) ==
    /\ h \in Hosts(d) /\ a \in [Lba(d) -> Data \cup {Null}] /\ s \in BOOLEAN
    /\ k \in Clients /\ r \in BOOLEAN
    /\ ~s => Agrees(d, h, a)
    /\ ~s /\ d \in Virtual /\ a # NoAck(d) => h.size = NumberOfBlocks(d)
    /\ Held(p) = 1 /\ p.handle # h.medium => a = NoAck(d)
    /\ k.medium # Null /\ ~r => /\ p # Null /\ k.id <= p.mediaId
                                /\ k.id = p.mediaId => p.handle = k.medium

LEMMA SizeIs == ASSUME NEW d \in Device PROVE NumberOfBlocks(d) \in Nat
BY DiskAssumption DEF NumberOfBlocks, Mapped

LEMMA HeldIs ==
    ASSUME NEW p
    PROVE  Held(p) \in {0, 1} /\ (p # Null => Held(p) = IF p.handle = Null THEN 0 ELSE 1)
BY DEF Held

----------------------------------------------------------------------------
(* What an access does before it reads or writes.                          *)
LEMMA SizedIs ==
    ASSUME NEW d \in Device, NEW h \in Hosts(d), NEW g \in Sized(d, h)
    PROVE  /\ g \in Hosts(d) /\ g.medium = h.medium
           /\ g # h => d \in Virtual /\ h.size # NumberOfBlocks(d)
<1> DEFINE n == NumberOfBlocks(d)
           zero == [b \in DOMAIN h.blocks |-> Zero]
<1>1. n \in Nat
  BY SizeIs
<1>2. zero \in [Lba(d) -> Block] /\ 0 \in 0 .. n /\ n \in 0 .. n
  BY <1>1 DEF Hosts, Block
<1>3. g \in Resized(h, n) \cup {h} /\ (g # h => d \in Virtual /\ h.size # n)
  BY DEF Sized
<1> HIDE DEF n, zero
<1>4. \A size \in 0 .. n : Emptied(h, size) = [h EXCEPT !.size = size, !.blocks = zero]
  BY DEF Emptied, zero
<1>5. \A size \in 0 .. n : Emptied(h, size) \in Hosts(d) /\ Emptied(h, size).medium = h.medium
  BY <1>2, <1>4 DEF Hosts, n
<1>6. [h EXCEPT !.size = n] \in Hosts(d) /\ [h EXCEPT !.size = n].medium = h.medium
  BY <1>2 DEF Hosts, n
<1> QED BY <1>2, <1>3, <1>5, <1>6 DEF Resized, n

(* OpenDevice of a device without a handle, whatever the host does.        *)
LEMMA OpenKeeps ==
    ASSUME NEW d \in Device, NEW p \in Privates, NEW h, NEW a, NEW s, NEW k, NEW r,
           Sane(d, p, h, a, s, k, r), p.handle = Null,
           NEW o \in OpenDevice(d, p, h)
    PROVE  /\ Sane(d, o.private, o.host, a, s, k, r) /\ o.host.medium = h.medium
           /\ o.private \in Privates /\ o.private.mediaId = p.mediaId
           /\ o.ok => o.private.handle # Null
<1>0. h \in Hosts(d) /\ h.medium \in Nat /\ k \in Clients /\ Null \notin Nat
  BY NullAssumption DEF Sane, Hosts
<1>1. CASE \E g \in Sized(d, h) :
             h.medium # 0 /\ o = [private |-> [p EXCEPT !.handle = h.medium, !.present = TRUE],
                                  host |-> g, ok |-> TRUE]
  <2>1. PICK g \in Sized(d, h) :
             o = [private |-> [p EXCEPT !.handle = h.medium, !.present = TRUE],
                  host |-> g, ok |-> TRUE]
    BY <1>1
  <2> DEFINE q == [p EXCEPT !.handle = h.medium, !.present = TRUE]
  <2>2. q \in Privates /\ q.mediaId = p.mediaId /\ q.handle = h.medium
    BY <1>0 DEF Privates
  <2>3. /\ g \in Hosts(d) /\ g.medium = h.medium
        /\ g # h => d \in Virtual /\ h.size # NumberOfBlocks(d)
    BY <1>0, SizedIs
  <2> HIDE DEF q
  <2>4. Held(q) = 1 /\ q # Null
    BY <1>0, <2>2, NullAssumption DEF Held
  <2>5. g # h /\ ~s => a = NoAck(d)
    BY <2>3 DEF Sane
  <2>6. ~s => Agrees(d, g, a)
    BY <2>5 DEF Agrees, NoAck, Sane
  <2>7. ~s /\ d \in Virtual /\ a # NoAck(d) => g.size = NumberOfBlocks(d)
    BY <2>5 DEF Sane
  <2>8. k.medium # Null /\ ~r => k.id <= q.mediaId /\ k.id # q.mediaId
    BY <1>0, <2>2 DEF Sane
  <2>9. Sane(d, q, g, a, s, k, r)
    BY <2>2, <2>3, <2>4, <2>6, <2>7, <2>8 DEF Sane
  <2> QED BY <1>0, <2>1, <2>2, <2>3, <2>9 DEF q
<1>2. CASE \E b \in BOOLEAN : o = [private |-> [p EXCEPT !.present = b], host |-> h, ok |-> FALSE]
  <2>1. PICK b \in BOOLEAN : o = [private |-> [p EXCEPT !.present = b], host |-> h, ok |-> FALSE]
    BY <1>2
  <2> DEFINE q == [p EXCEPT !.present = b]
  <2>2. q \in Privates /\ q.mediaId = p.mediaId /\ q.handle = Null
    BY DEF Privates
  <2> HIDE DEF q
  <2>3. Held(q) = 0 /\ q # Null /\ p # Null
    BY <2>2, NullAssumption DEF Held
  <2>4. Sane(d, q, h, a, s, k, r)
    BY <2>2, <2>3 DEF Sane
  <2> QED BY <2>1, <2>2, <2>4 DEF q
<1>3. \/ \E g \in Sized(d, h) :
             h.medium # 0 /\ o = [private |-> [p EXCEPT !.handle = h.medium, !.present = TRUE],
                                  host |-> g, ok |-> TRUE]
      \/ \E b \in BOOLEAN : o = [private |-> [p EXCEPT !.present = b], host |-> h, ok |-> FALSE]
  <2>1. CASE o \in Opened(d, p, h)
    BY <2>1 DEF Opened
  <2>2. CASE o = NotOpened(p, h)
    BY <2>2 DEF NotOpened
  <2>3. CASE o = [private |-> [p EXCEPT !.present = TRUE], host |-> h, ok |-> FALSE]
    BY <2>3
  <2>4. \/ o \in Opened(d, p, h) \/ o = NotOpened(p, h)
        \/ o = [private |-> [p EXCEPT !.present = TRUE], host |-> h, ok |-> FALSE]
    BY DEF OpenDevice
  <2> QED BY <2>1, <2>2, <2>3, <2>4
<1> QED BY <1>1, <1>2, <1>3

(* WinNtBlockIoError.                                                      *)
LEMMA FailKeeps ==
    ASSUME NEW d \in Device, NEW p \in Privates, NEW h, NEW a, NEW s, NEW k, NEW r,
           Sane(d, p, h, a, s, k, r), NEW why
    PROVE  Sane(d, Failed(p, why), h, a, s, k, r) /\ Failed(p, why) \in Privates
<1> DEFINE q == Failed(p, why)
<1>0. p # Null /\ p.mediaId \in Nat /\ k \in Clients /\ h \in Hosts(d)
  BY NullAssumption DEF Sane, Privates
<1>1. CASE why = "wrong disk"
  <2>1. q \in Privates /\ q.handle = Null /\ q.mediaId = p.mediaId + 1
    <3> DEFINE c == Closed(p)
    <3>1. c \in Privates /\ c.handle = Null /\ c.mediaId = p.mediaId
      BY DEF Closed, Privates
    <3>2. q = [c EXCEPT !.readOnly = FALSE, !.present = TRUE, !.mediaId = c.mediaId + 1]
      BY <1>1 DEF Failed
    <3> HIDE DEF c, q
    <3>3. c.mediaId + 1 \in Nat
      BY <1>0, <3>1
    <3> QED BY <3>1, <3>2, <3>3 DEF Privates
  <2>2. Held(q) = 0 /\ q # Null
    BY <2>1, NullAssumption DEF Held
  <2> HIDE DEF q
  <2>3. k.medium # Null /\ ~r => k.id <= q.mediaId /\ k.id # q.mediaId
    BY <1>0, <2>1 DEF Sane, Clients
  <2>4. Sane(d, q, h, a, s, k, r)
    BY <2>1, <2>2, <2>3 DEF Sane
  <2> QED BY <2>1, <2>4 DEF q
<1>2. CASE why # "wrong disk"
  <2>1. q \in Privates /\ q.handle = p.handle /\ q.mediaId = p.mediaId
    BY <1>2 DEF Failed, Privates
  <2>2. Held(q) = Held(p) /\ q # Null
    BY <1>0, <2>1, NullAssumption DEF Held
  <2> HIDE DEF q
  <2>4. Sane(d, q, h, a, s, k, r)
    BY <1>0, <2>1, <2>2 DEF Sane
  <2> QED BY <2>1, <2>4 DEF q
<1> QED BY <1>1, <1>2

(* What ReadWriteCommon leaves, and with success only if the caller's      *)
(* MediaId is the device's, and the range is one of the disk.              *)
InDisk(d, from, n) == from + n <= NumberOfBlocks(d)

LEMMA CommonKeeps ==
    ASSUME NEW d \in Device, private[d] \in Privates, NEW a, NEW s, NEW k, NEW r,
           Sane(d, private[d], host[d], a, s, k, r), NEW id, NEW from \in Lba(d), NEW n \in Nat,
           NEW o \in Common(d, id, from, n)
    PROVE  /\ Sane(d, o.private, o.host, a, s, k, r) /\ o.private \in Privates
           /\ o = [private |-> o.private, host |-> o.host, ok |-> o.ok]
           /\ o.host.medium = host[d].medium
           /\ o.ok => /\ o.private.mediaId = id /\ private[d].mediaId = id
                      /\ o.private.handle # Null /\ InDisk(d, from, n)
<1>1. PICK u \in Ready(d) :
        o \in IF Refused(u, id) \/ ~InRange(d, from, n) THEN {[u EXCEPT !.ok = FALSE]}
              ELSE {u} \cup (IF n = 0 THEN {} ELSE Fails(u))
  BY DEF Common
<1>2. /\ Sane(d, u.private, u.host, a, s, k, r) /\ u.private \in Privates
      /\ u.host.medium = host[d].medium
      /\ u.private.mediaId = private[d].mediaId /\ (u.ok => u.private.handle # Null)
      /\ u = [private |-> u.private, host |-> u.host, ok |-> u.ok]
  <2>0. private[d] # Null
    BY NullAssumption
  <2>1. CASE Held(private[d]) = 1
    <3>1. u = [private |-> private[d], host |-> host[d], ok |-> TRUE]
      BY <2>1 DEF Ready
    <3>2. private[d].handle # Null
      BY <2>0, <2>1, HeldIs
    <3> QED BY <3>1, <3>2
  <2>2. CASE Held(private[d]) # 1
    <3>1. u \in OpenDevice(d, private[d], host[d])
      BY <2>2 DEF Ready
    <3>2. private[d].handle = Null
      BY <2>0, <2>2, HeldIs
    <3>3. u = [private |-> u.private, host |-> u.host, ok |-> u.ok]
      BY <3>1 DEF OpenDevice, Opened, NotOpened
    <3> QED BY <3>1, <3>2, <3>3, OpenKeeps
  <2> QED BY <2>1, <2>2
<1>3. CASE o = [u EXCEPT !.ok = FALSE]
  BY <1>2, <1>3
<1>4. CASE o = u /\ ~Refused(u, id) /\ InRange(d, from, n)
  <2>1. u.ok /\ u.private.mediaId = id
    BY <1>4 DEF Refused
  <2>2. InDisk(d, from, n)
    <3>1. NumberOfBlocks(d) \in Nat /\ from \in 0 .. NumberOfBlocks(d) - 1
      BY SizeIs DEF Lba
    <3> QED BY <1>4, <3>1 DEF InRange, InDisk
  <2> QED BY <1>2, <1>4, <2>1, <2>2
<1>5. CASE o \in Fails(u)
  <2>1. PICK why \in Reasons(u.private, u.host) :
          o = [u EXCEPT !.private = Failed(u.private, why), !.ok = FALSE]
    BY <1>5 DEF Fails
  <2>2. o = [private |-> Failed(u.private, why), host |-> u.host, ok |-> FALSE]
    BY <1>2, <2>1
  <2> QED BY <1>2, <2>2, FailKeeps
<1>6. \/ o = [u EXCEPT !.ok = FALSE]
      \/ o = u /\ ~Refused(u, id) /\ InRange(d, from, n)
      \/ o \in Fails(u)
  BY <1>1, <1>2
<1> QED BY <1>3, <1>4, <1>5, <1>6

(* A write of x, of which the host may take only a part.                   *)
LEMMA WriteKeeps ==
    ASSUME NEW d \in Device, NEW p \in Privates, NEW h, NEW a, NEW s, NEW k, NEW r,
           Sane(d, p, h, a, s, k, r), NEW from \in Lba(d), NEW n \in Nat, InDisk(d, from, n),
           NEW x \in Data, NEW y \in {x, Null}, NEW part \in 0 .. n,
           part # 0 \/ y = x => Works(p, h),
           y = x => part = n,
           NEW t \in BOOLEAN, s => t,
           ~t /\ d \in Virtual /\ y = x => Written(h, from, n, x).size = NumberOfBlocks(d)
    PROVE  Sane(d, p, Written(h, from, part, x),
                [b \in Lba(d) |-> IF b \in from .. from + n - 1 THEN y ELSE a[b]], t, k, r)
<1> DEFINE g == Written(h, from, part, x)
           e == [b \in Lba(d) |-> IF b \in from .. from + n - 1 THEN y ELSE a[b]]
           N == NumberOfBlocks(d)
           blocks == [b \in DOMAIN h.blocks |-> IF b \in from .. from + part - 1 THEN x
                                                ELSE h.blocks[b]]
           size == IF h.size < from + part THEN from + part ELSE h.size
<1>0. /\ h \in Hosts(d) /\ N \in Nat /\ from \in 0 .. N - 1 /\ from + n <= N
      /\ a \in [Lba(d) -> Data \cup {Null}] /\ part \in Nat
  BY SizeIs DEF Sane, Lba, InDisk
<1>1. blocks \in [Lba(d) -> Block] /\ \A b \in Lba(d) : blocks[b] = IF b \in from .. from + part - 1
                                                                    THEN x ELSE h.blocks[b]
  BY <1>0 DEF Hosts, Block
<1>2. size \in 0 .. N /\ (h.size = N => size = N)
  BY <1>0 DEF Hosts
<1>3. g = [h EXCEPT !.blocks = blocks, !.size = size]
  BY DEF Written
<1> HIDE DEF blocks, size
<1>4. g \in Hosts(d) /\ g.medium = h.medium /\ g.blocks = blocks /\ g.size = size
  BY <1>0, <1>1, <1>2, <1>3 DEF Hosts
<1>5. e \in [Lba(d) -> Data \cup {Null}]
  BY <1>0
<1> HIDE DEF g
<1>6. ~t => Agrees(d, g, e)
  <2> SUFFICES ASSUME ~t, NEW b \in Lba(d), e[b] # Null
               PROVE  g.blocks[b] = e[b]
    BY DEF Agrees
  <2>1. Agrees(d, h, a) /\ b \in 0 .. N - 1
    BY DEF Sane, Lba
  <2>2. CASE b \in from .. from + n - 1
    <3>1. y = x /\ part = n /\ e[b] = x
      BY <2>2
    <3> QED BY <1>1, <1>4, <2>2, <3>1
  <2>3. CASE b \notin from .. from + n - 1
    <3>1. b \notin from .. from + part - 1 /\ e[b] = a[b]
      BY <1>0, <2>1, <2>3
    <3> QED BY <1>1, <1>4, <2>1, <3>1 DEF Agrees
  <2> QED BY <2>2, <2>3
<1>7. y = Null /\ a = NoAck(d) => e = NoAck(d)
  BY DEF NoAck
<1>8. ~t /\ d \in Virtual /\ e # NoAck(d) => g.size = N
  <2>1. CASE y = x
    BY <2>1 DEF g
  <2>2. CASE y = Null
    BY <1>2, <1>4, <1>7, <2>2 DEF Sane
  <2> QED BY <2>1, <2>2
<1>9. Held(p) = 1 /\ p.handle # g.medium => e = NoAck(d)
  <2> HAVE Held(p) = 1 /\ p.handle # g.medium
  <2>1. a = NoAck(d) /\ y = Null
    BY <1>4 DEF Sane, Works
  <2> QED BY <1>7, <2>1
<1> HIDE DEF e
<1>10. Sane(d, p, g, e, t, k, r)
  BY <1>4, <1>5, <1>6, <1>8, <1>9 DEF Sane
<1> QED BY <1>10 DEF e, g

----------------------------------------------------------------------------
(* The invariant, and what a step leaves of it: it changes one disk, which *)
(* it leaves as it should be.                                              *)
OK(d, p, h, n, l, a, s, k, r) ==
    /\ p \in Privates \cup {Null} /\ n \in Nat /\ l \in Nat /\ n = Held(p) + l
    /\ Sane(d, p, h, a, s, k, r)
Domains ==
    /\ DOMAIN private = Device /\ DOMAIN host = Device /\ DOMAIN handles = Device
    /\ DOMAIN leaked = Device /\ DOMAIN acked = Device /\ DOMAIN short = Device
    /\ DOMAIN known = Device /\ DOMAIN reset = Device
Disks == \A d \in Device : OK(d, private[d], host[d], handles[d], leaked[d], acked[d],
                              short[d], known[d], reset[d])
DiskInv == Domains /\ Disks /\ children \subseteq Device

Only(e) ==
    /\ Domains' /\ children' \subseteq Device
    /\ \A d \in Device \ {e} :
         /\ private'[d] = private[d] /\ host'[d] = host[d] /\ handles'[d] = handles[d]
         /\ leaked'[d] = leaked[d] /\ acked'[d] = acked[d] /\ short'[d] = short[d]
         /\ known'[d] = known[d] /\ reset'[d] = reset[d]
Here(e) == OK(e, private'[e], host'[e], handles'[e], leaked'[e], acked'[e],
              short'[e], known'[e], reset'[e])
Guarded(d) ==
    acked'[d] # acked[d] /\ acked'[d] # NoAck(d) /\ known[d].medium # Null
        => known[d].medium = host[d].medium \/ reset[d]
Guards == \A d \in Device : Guarded(d)

LEMMA OneDisk ==
    ASSUME DiskInv, NEW e \in Device, Only(e), Here(e), Guarded(e)
    PROVE  DiskInv' /\ Guards
<1>1. Disks'
  BY DEF DiskInv, Disks, Only, Here
<1>2. Guards
  BY DEF Guards, Guarded, Only
<1> QED BY <1>1, <1>2 DEF DiskInv, Only

LEMMA DiskIs ==
    ASSUME DiskInv, NEW d \in Device
    PROVE  /\ Domains /\ children \subseteq Device /\ private[d] \in Privates \cup {Null}
           /\ handles[d] \in Nat /\ leaked[d] \in Nat /\ handles[d] = Held(private[d]) + leaked[d]
           /\ Sane(d, private[d], host[d], acked[d], short[d], known[d], reset[d])
           /\ host[d] \in Hosts(d) /\ short[d] \in BOOLEAN /\ known[d] \in Clients
BY DEF DiskInv, Disks, OK, Sane

(* A later state of short only asks less.                                  *)
LEMMA Shorter ==
    ASSUME NEW d, NEW p, NEW h, NEW a, NEW s, NEW k, NEW r, Sane(d, p, h, a, s, k, r),
           NEW t \in BOOLEAN, s => t
    PROVE  Sane(d, p, h, a, t, k, r)
BY DEF Sane

(* What Put stores.                                                        *)
LongAs(d, p, h) == d \in Virtual /\ Held(p) = 1 /\ h.size # NumberOfBlocks(d)

LEMMA PutIs ==
    ASSUME DiskInv, NEW d \in Device, NEW p \in Privates, NEW h, Put(d, p, h),
           UNCHANGED <<busVars, leaked, known>>,
           DOMAIN acked' = Device, \A c \in Device \ {d} : acked'[c] = acked[c],
           DOMAIN reset' = Device, \A c \in Device \ {d} : reset'[c] = reset[c]
    PROVE  /\ Only(d) /\ private'[d] = p /\ host'[d] = h
           /\ short'[d] \in BOOLEAN /\ (short[d] => short'[d])
           /\ ~short'[d] => ~LongAs(d, p, h)
           /\ Sane(d, p, h, acked'[d], short'[d], known[d], reset'[d]) => Here(d)
<1>1. /\ private' = [private EXCEPT ![d] = p] /\ host' = [host EXCEPT ![d] = h]
      /\ handles' = [handles EXCEPT ![d] = handles[d] - Held(private[d]) + Held(p)]
      /\ short' = [short EXCEPT ![d] = short[d] \/ LongAs(d, p, h)]
  BY DEF Put, LongAs
<1>2. /\ Domains /\ children \subseteq Device /\ handles[d] \in Nat /\ leaked[d] \in Nat
      /\ handles[d] = Held(private[d]) + leaked[d] /\ short[d] \in BOOLEAN
  BY DiskIs
<1>3. /\ leaked' = leaked /\ known' = known /\ children' = children
  BY DEF busVars
<1>4. Only(d) /\ private'[d] = p /\ host'[d] = h
  <2>1. Domains'
    BY <1>1, <1>2, <1>3 DEF Domains
  <2>2. \A c \in Device \ {d} : /\ private'[c] = private[c] /\ host'[c] = host[c]
                                /\ handles'[c] = handles[c] /\ short'[c] = short[c]
    BY <1>1, <1>2 DEF Domains
  <2>3. private'[d] = p /\ host'[d] = h
    BY <1>1, <1>2 DEF Domains
  <2> QED BY <1>2, <1>3, <2>1, <2>2, <2>3 DEF Only
<1>5. short'[d] \in BOOLEAN /\ (short[d] => short'[d]) /\ (~short'[d] => ~LongAs(d, p, h))
  <2>1. short'[d] = (short[d] \/ LongAs(d, p, h))
    BY <1>1, <1>2 DEF Domains
  <2>2. LongAs(d, p, h) \in BOOLEAN
    BY DEF LongAs
  <2> QED BY <1>2, <2>1, <2>2
<1>6. handles'[d] \in Nat /\ handles'[d] = Held(p) + leaked'[d] /\ leaked'[d] \in Nat
  <2>1. Held(p) \in {0, 1} /\ Held(private[d]) \in {0, 1}
    BY HeldIs
  <2>2. handles'[d] = handles[d] - Held(private[d]) + Held(p)
    BY <1>1, <1>2 DEF Domains
  <2> QED BY <1>2, <1>3, <2>1, <2>2
<1> QED BY <1>3, <1>4, <1>5, <1>6 DEF Here, OK

----------------------------------------------------------------------------
(* The calls.                                                              *)
LEMMA ReadKeeps ==
    ASSUME DiskInv, NEW d \in Device, NEW from \in Lba(d), NEW n \in Nat,
           ReadBlocks(d, known[d].id, from, n)
    PROVE  DiskInv' /\ Guards
<1> DEFINE id == known[d].id
<1>1. private[d] \in Privates /\ UNCHANGED <<busVars, leaked, acked, known, reset>>
  BY DiskIs DEF ReadBlocks
<1>2. /\ Sane(d, private[d], host[d], acked[d], short[d], known[d], reset[d])
      /\ DOMAIN acked' = Device /\ DOMAIN reset' = Device
  BY <1>1, DiskIs DEF Domains
<1>3. PICK o \in Common(d, id, from, n) :
        \/ Put(d, o.private, o.host)
        \/ \E f \in Fails(o) : Put(d, f.private, f.host)
  BY DEF ReadBlocks
<1> HIDE DEF id
<1>4. /\ Sane(d, o.private, o.host, acked[d], short[d], known[d], reset[d])
      /\ o.private \in Privates /\ o = [private |-> o.private, host |-> o.host, ok |-> o.ok]
  <2>1. o \in Common(d, id, from, n)
    BY <1>3
  <2> QED BY <1>1, <1>2, <2>1, CommonKeeps, SMTT(30)
<1>5. PICK p \in Privates : /\ Sane(d, p, o.host, acked[d], short[d], known[d], reset[d])
                            /\ Put(d, p, o.host)
  <2>1. CASE Put(d, o.private, o.host)
    BY <1>4, <2>1
  <2>2. CASE \E f \in Fails(o) : Put(d, f.private, f.host)
    <3>1. PICK f \in Fails(o) : Put(d, f.private, f.host)
      BY <2>2
    <3>2. PICK why \in Reasons(o.private, o.host) :
            f = [o EXCEPT !.private = Failed(o.private, why), !.ok = FALSE]
      BY <3>1 DEF Fails
    <3>3. f.private = Failed(o.private, why) /\ f.host = o.host
      BY <1>4, <3>2
    <3> QED BY <1>4, <3>1, <3>3, FailKeeps
  <2> QED BY <1>3, <2>1, <2>2
<1>6. /\ Only(d) /\ short'[d] \in BOOLEAN /\ (short[d] => short'[d])
      /\ Sane(d, p, o.host, acked'[d], short'[d], known[d], reset'[d]) => Here(d)
  BY <1>1, <1>2, <1>5, PutIs
<1>7. Sane(d, p, o.host, acked'[d], short'[d], known[d], reset'[d])
  BY <1>1, <1>5, <1>6, Shorter
<1>8. Guarded(d)
  BY <1>1 DEF Guarded
<1> QED BY <1>6, <1>7, <1>8, OneDisk

LEMMA WriteBlocksKeeps ==
    ASSUME DiskInv, NEW d \in Device, NEW from \in Lba(d), NEW n \in Nat, NEW x \in Data,
           WriteBlocks(d, known[d].id, from, n, x)
    PROVE  DiskInv' /\ Guards
<1> DEFINE id == known[d].id
           e(y) == [b \in Lba(d) |-> IF b \in from .. from + n - 1 THEN y ELSE acked[d][b]]
<1>1. private[d] \in Privates /\ UNCHANGED <<busVars, leaked, known, reset>>
  BY DiskIs DEF WriteBlocks
<1>2. /\ Sane(d, private[d], host[d], acked[d], short[d], known[d], reset[d])
      /\ Domains /\ DOMAIN reset' = Device /\ DOMAIN acked = Device /\ known[d] \in Clients
  BY <1>1, DiskIs DEF Domains
<1>3. PICK o \in Common(d, id, from, n) :
        \/ ~o.ok /\ Put(d, o.private, o.host) /\ UNCHANGED acked
        \/ /\ o.ok /\ Works(o.private, o.host) /\ d \notin Protected
           /\ Put(d, [o.private EXCEPT !.readOnly = FALSE], Written(o.host, from, n, x))
           /\ Acked(d, from, n, x)
        \/ /\ o.ok
           /\ \E f \in Fails(o), part \in 0 .. n :
                /\ part > 0 => Works(o.private, o.host) /\ d \notin Protected
                /\ Put(d, f.private, Written(f.host, from, part, x))
           /\ Acked(d, from, n, Null)
  BY DEF WriteBlocks
<1>4. /\ Sane(d, o.private, o.host, acked[d], short[d], known[d], reset[d]) /\ o.private \in Privates
      /\ o = [private |-> o.private, host |-> o.host, ok |-> o.ok]
      /\ o.host.medium = host[d].medium
      /\ o.ok => /\ o.private.mediaId = id /\ private[d].mediaId = id
                 /\ o.private.handle # Null /\ InDisk(d, from, n)
  <2> HIDE DEF id
  <2> QED BY <1>1, <1>2, <1>3, CommonKeeps
<1>5. \A y : Acked(d, from, n, y) =>
         /\ DOMAIN acked' = Device /\ \A c \in Device \ {d} : acked'[c] = acked[c]
         /\ acked'[d] = e(y)
  BY <1>2 DEF Acked
<1>6. CASE ~o.ok /\ Put(d, o.private, o.host) /\ UNCHANGED acked
  <2>1. /\ Only(d) /\ short'[d] \in BOOLEAN /\ (short[d] => short'[d])
        /\ Sane(d, o.private, o.host, acked'[d], short'[d], known[d], reset'[d]) => Here(d)
    BY <1>1, <1>2, <1>4, <1>6, PutIs
  <2>2. Sane(d, o.private, o.host, acked'[d], short'[d], known[d], reset'[d])
    BY <1>1, <1>4, <1>6, <2>1, Shorter
  <2>3. Guarded(d)
    BY <1>6 DEF Guarded
  <2> QED BY <2>1, <2>2, <2>3, OneDisk
<1>7. o.ok /\ ~reset[d] /\ known[d].medium # Null => o.private.handle = known[d].medium
  BY <1>4 DEF Sane
<1>8. CASE /\ o.ok /\ Works(o.private, o.host) /\ d \notin Protected
           /\ Put(d, [o.private EXCEPT !.readOnly = FALSE], Written(o.host, from, n, x))
           /\ Acked(d, from, n, x)
  <2> DEFINE p == [o.private EXCEPT !.readOnly = FALSE]
  <2>1. p \in Privates /\ p.handle = o.private.handle /\ p.mediaId = o.private.mediaId
    BY <1>4 DEF Privates
  <2> HIDE DEF p
  <2>2. p # Null /\ Held(p) = 1 /\ Held(o.private) = 1 /\ o.private # Null
    BY <1>4, <1>8, <2>1, NullAssumption DEF Held
  <2>3. Sane(d, p, o.host, acked[d], short[d], known[d], reset[d]) /\ Works(p, o.host)
    BY <1>4, <1>8, <2>1, <2>2 DEF Sane, Works
  <2>4. /\ Only(d) /\ short'[d] \in BOOLEAN /\ (short[d] => short'[d])
        /\ ~short'[d] => ~LongAs(d, p, Written(o.host, from, n, x))
        /\ Sane(d, p, Written(o.host, from, n, x), acked'[d], short'[d], known[d], reset'[d])
              => Here(d)
    BY <1>1, <1>2, <1>5, <1>8, <2>1, PutIs DEF p
  <2>5. ~short'[d] /\ d \in Virtual => Written(o.host, from, n, x).size = NumberOfBlocks(d)
    BY <2>2, <2>4 DEF LongAs
  <2>6. n \in 0 .. n /\ x \in {x, Null} /\ InDisk(d, from, n)
    BY <1>4, <1>8
  <2>7. Sane(d, p, Written(o.host, from, n, x), e(x), short'[d], known[d], reset[d])
    BY <2>1, <2>3, <2>4, <2>5, <2>6, WriteKeeps
  <2>8. Here(d)
    BY <1>1, <1>5, <1>8, <2>4, <2>7
  <2>9. Guarded(d)
    BY <1>4, <1>7, <1>8 DEF Guarded, Works
  <2> QED BY <2>4, <2>8, <2>9, OneDisk
<1>9. CASE /\ o.ok
           /\ \E f \in Fails(o), part \in 0 .. n :
                /\ part > 0 => Works(o.private, o.host) /\ d \notin Protected
                /\ Put(d, f.private, Written(f.host, from, part, x))
           /\ Acked(d, from, n, Null)
  <2>1. PICK f \in Fails(o), part \in 0 .. n :
          /\ part > 0 => Works(o.private, o.host)
          /\ Put(d, f.private, Written(f.host, from, part, x))
    BY <1>9
  <2>2. PICK why \in Reasons(o.private, o.host) :
          f = [o EXCEPT !.private = Failed(o.private, why), !.ok = FALSE]
    BY <2>1 DEF Fails
  <2> DEFINE p == Failed(o.private, why)
             h == Written(o.host, from, part, x)
  <2>3. f.private = p /\ f.host = o.host
    BY <1>4, <2>2
  <2>4. p \in Privates
    BY <1>4, FailKeeps
  <2> HIDE DEF p
  <2>5. Put(d, p, h)
    BY <2>1, <2>3
  <2>6. /\ Only(d) /\ short'[d] \in BOOLEAN /\ (short[d] => short'[d])
        /\ Sane(d, p, h, acked'[d], short'[d], known[d], reset'[d]) => Here(d)
    BY <1>1, <1>2, <1>5, <1>9, <2>4, <2>5, PutIs
  <2>7. /\ Null \in {x, Null} /\ InDisk(d, from, n) /\ Null # x
        /\ part # 0 => Works(o.private, o.host)
    BY <1>4, <1>9, <2>1, NullAssumption
  <2>8. Sane(d, o.private, h, e(Null), short'[d], known[d], reset[d])
    BY <1>4, <2>6, <2>7, WriteKeeps
  <2>9. Sane(d, p, h, e(Null), short'[d], known[d], reset[d])
    <3> HIDE DEF h, e
    <3> QED BY <1>4, <2>8, FailKeeps DEF p
  <2>10. Here(d)
    BY <1>1, <1>5, <1>9, <2>6, <2>9
  <2>11. Guarded(d)
    <3>1. CASE Works(o.private, o.host)
      BY <1>4, <1>7, <1>9, <3>1 DEF Guarded, Works
    <3>2. CASE ~Works(o.private, o.host)
      <4>1. Held(o.private) = 1
        BY <1>4, <1>9, NullAssumption DEF Held
      <4>2. acked[d] = NoAck(d)
        BY <1>4, <3>2, <4>1 DEF Sane, Works
      <4>3. acked'[d] = NoAck(d)
        BY <1>5, <1>9, <4>2 DEF NoAck
      <4> QED BY <4>3 DEF Guarded
    <3> QED BY <3>1, <3>2
  <2> QED BY <2>6, <2>10, <2>11, OneDisk
<1> QED BY <1>3, <1>6, <1>8, <1>9

LEMMA ResetKeeps ==
    ASSUME DiskInv, NEW d \in Device, Reset(d)
    PROVE  DiskInv' /\ Guards
<1> DEFINE p == Closed(private[d])
<1>1. /\ private[d] \in Privates /\ Put(d, p, host[d])
      /\ reset' = [reset EXCEPT ![d] = TRUE] /\ UNCHANGED <<busVars, leaked, acked, known>>
  BY DiskIs DEF Reset
<1>2. /\ Sane(d, private[d], host[d], acked[d], short[d], known[d], reset[d])
      /\ DOMAIN acked' = Device /\ DOMAIN reset' = Device /\ reset'[d] = TRUE
      /\ \A c \in Device \ {d} : reset'[c] = reset[c]
  BY <1>1, DiskIs DEF Domains
<1>3. p \in Privates /\ p.handle = Null
  BY <1>1 DEF Closed, Privates
<1> HIDE DEF p
<1>4. Held(p) = 0
  BY <1>3 DEF Held
<1>5. Sane(d, p, host[d], acked[d], short[d], known[d], reset'[d])
  BY <1>2, <1>4 DEF Sane
<1>6. /\ Only(d) /\ short'[d] \in BOOLEAN /\ (short[d] => short'[d])
      /\ Sane(d, p, host[d], acked'[d], short'[d], known[d], reset'[d]) => Here(d)
  BY <1>1, <1>2, <1>3, PutIs
<1>7. acked'[d] = acked[d] /\ Sane(d, p, host[d], acked[d], short'[d], known[d], reset'[d])
  BY <1>1, <1>5, <1>6 DEF Sane
<1>8. Guarded(d)
  BY <1>1 DEF Guarded
<1> QED BY <1>6, <1>7, <1>8, OneDisk

LEMMA StartKeeps ==
    ASSUME DiskInv, NEW d \in Device, Start(d)
    PROVE  DiskInv' /\ Guards
<1>1. /\ private[d] = Null /\ UNCHANGED <<busVars, acked, known, reset>>
      /\ Sane(d, Null, host[d], acked[d], short[d], known[d], reset[d])
      /\ Domains /\ DOMAIN acked' = Device /\ DOMAIN reset' = Device
      /\ handles[d] \in Nat /\ leaked[d] \in Nat /\ handles[d] = leaked[d]
      /\ children \subseteq Device /\ short[d] \in BOOLEAN
  <2>1. private[d] = Null /\ UNCHANGED <<busVars, acked, known, reset>>
    BY DEF Start, Supported
  <2>2. Held(Null) = 0
    BY DEF Held
  <2> QED BY <2>1, <2>2, DiskIs DEF Domains
<1>2. New(d) \in Privates /\ New(d).handle = Null
  BY DEF New, Privates
<1>3. Held(New(d)) = 0
  BY <1>2 DEF Held
<1>4. Sane(d, New(d), host[d], acked[d], short[d], known[d], reset[d])
  BY <1>1, <1>3 DEF Sane
<1>5. PICK o \in OpenDevice(d, New(d), host[d]) :
        \/ o.ok /\ Put(d, o.private, o.host) /\ UNCHANGED leaked
        \/ /\ o.ok /\ leaked[d] < MaxLeak
           /\ leaked' = [leaked EXCEPT ![d] = @ + 1]
           /\ handles' = [handles EXCEPT ![d] = @ + 1]
           /\ host' = [host EXCEPT ![d] = o.host]
           /\ short' = [short EXCEPT ![d] = @ \/ (d \in Virtual /\ o.host.size # NumberOfBlocks(d))]
           /\ UNCHANGED private
  BY DEF Start
<1>6. /\ Sane(d, o.private, o.host, acked[d], short[d], known[d], reset[d])
      /\ o.private \in Privates
  BY <1>2, <1>4, OpenKeeps
<1>7. Guarded(d)
  BY <1>1 DEF Guarded
<1>8. CASE o.ok /\ Put(d, o.private, o.host) /\ UNCHANGED leaked
  <2>1. /\ Only(d) /\ short'[d] \in BOOLEAN /\ (short[d] => short'[d])
        /\ Sane(d, o.private, o.host, acked'[d], short'[d], known[d], reset'[d]) => Here(d)
    BY <1>1, <1>6, <1>8, PutIs
  <2>2. Sane(d, o.private, o.host, acked'[d], short'[d], known[d], reset'[d])
    BY <1>1, <1>6, <2>1, Shorter
  <2> QED BY <1>7, <2>1, <2>2, OneDisk
<1>9. CASE /\ leaked' = [leaked EXCEPT ![d] = @ + 1]
           /\ handles' = [handles EXCEPT ![d] = @ + 1]
           /\ host' = [host EXCEPT ![d] = o.host]
           /\ short' = [short EXCEPT ![d] = @ \/ (d \in Virtual /\ o.host.size # NumberOfBlocks(d))]
           /\ UNCHANGED private
  <2>1. /\ Domains' /\ children' \subseteq Device
        /\ \A c \in Device \ {d} :
             /\ private'[c] = private[c] /\ host'[c] = host[c] /\ handles'[c] = handles[c]
             /\ leaked'[c] = leaked[c] /\ acked'[c] = acked[c] /\ short'[c] = short[c]
             /\ known'[c] = known[c] /\ reset'[c] = reset[c]
    BY <1>1, <1>9 DEF Domains, busVars
  <2>2. /\ private'[d] = Null /\ host'[d] = o.host /\ acked'[d] = acked[d]
        /\ known'[d] = known[d] /\ reset'[d] = reset[d]
        /\ leaked'[d] = leaked[d] + 1 /\ handles'[d] = handles[d] + 1
    BY <1>1, <1>9 DEF Domains
  <2>3. short'[d] \in BOOLEAN /\ (short[d] => short'[d])
    <3>1. short'[d] = (short[d] \/ (d \in Virtual /\ o.host.size # NumberOfBlocks(d)))
      BY <1>1, <1>9 DEF Domains
    <3> QED BY <1>1, <3>1
  <2>4. Held(Null) = 0
    BY DEF Held
  <2>5. Sane(d, o.private, o.host, acked[d], short'[d], known[d], reset[d])
    BY <1>6, <2>3, Shorter
  <2>6. ~(known[d].medium # Null /\ ~reset[d])
    BY <1>1 DEF Sane
  <2>7. Sane(d, Null, o.host, acked[d], short'[d], known[d], reset[d])
    BY <2>4, <2>5, <2>6 DEF Sane
  <2>8. Here(d)
    BY <1>1, <2>2, <2>4, <2>7 DEF Here, OK
  <2> QED BY <1>7, <2>1, <2>8, OneDisk DEF Only
<1> QED BY <1>5, <1>8, <1>9

LEMMA StopKeeps ==
    ASSUME DiskInv, NEW d \in Device, Stop(d)
    PROVE  DiskInv' /\ Guards
<1>1. /\ private' = [private EXCEPT ![d] = Null]
      /\ handles' = [handles EXCEPT ![d] = handles[d] - Held(private[d])]
      /\ known' = [known EXCEPT ![d] = Unknown] /\ reset' = [reset EXCEPT ![d] = FALSE]
      /\ UNCHANGED <<busVars, host, leaked, acked, short>>
  BY DEF Stop, StopDevice
<1>2. /\ Domains /\ children \subseteq Device /\ handles[d] \in Nat /\ leaked[d] \in Nat
      /\ handles[d] = Held(private[d]) + leaked[d] /\ Held(private[d]) \in {0, 1}
      /\ Sane(d, private[d], host[d], acked[d], short[d], known[d], reset[d])
  BY DiskIs, HeldIs
<1>3. Only(d)
  BY <1>1, <1>2 DEF Domains, Only, busVars
<1>4. /\ private'[d] = Null /\ host'[d] = host[d] /\ acked'[d] = acked[d] /\ short'[d] = short[d]
      /\ known'[d] = Unknown /\ reset'[d] = FALSE /\ leaked'[d] = leaked[d]
      /\ handles'[d] = handles[d] - Held(private[d])
  BY <1>1, <1>2 DEF Domains
<1>5. Held(Null) = 0 /\ Unknown \in Clients /\ Unknown.medium = Null
  BY DEF Held, Unknown, Clients
<1>6. Sane(d, Null, host[d], acked[d], short[d], Unknown, reset'[d])
  <2>1. reset'[d] \in BOOLEAN
    BY <1>4, Zenon
  <2>2. Held(Null) # 1 /\ ~(Unknown.medium # Null)
    BY <1>5
  <2> QED BY <1>2, <1>5, <2>1, <2>2 DEF Sane
<1>7. Here(d)
  BY <1>2, <1>4, <1>5, <1>6 DEF Here, OK
<1>8. Guarded(d)
  BY <1>4 DEF Guarded
<1> QED BY <1>3, <1>7, <1>8, OneDisk

LEMMA ChangeKeeps ==
    ASSUME DiskInv, NEW d \in Device, Change(d)
    PROVE  DiskInv' /\ Guards
<1> DEFINE zero == [b \in Lba(d) |-> Zero]
<1>1. PICK m \in {0, host[d].last + 1} :
        host' = [host EXCEPT ![d].medium = m, ![d].last = IF m = 0 THEN @ ELSE m,
                             ![d].blocks = [b \in Lba(d) |-> Zero]]
  BY DEF Change
<1>2. /\ acked' = [acked EXCEPT ![d] = NoAck(d)]
      /\ UNCHANGED <<busVars, private, handles, leaked, short, known, reset>>
  BY DEF Change
<1>3. /\ Domains /\ children \subseteq Device /\ handles[d] \in Nat /\ leaked[d] \in Nat
      /\ private[d] \in Privates \cup {Null}
      /\ handles[d] = Held(private[d]) + leaked[d] /\ host[d] \in Hosts(d)
      /\ Sane(d, private[d], host[d], acked[d], short[d], known[d], reset[d])
  BY DiskIs
<1>4. Only(d)
  BY <1>1, <1>2, <1>3 DEF Domains, Only, busVars
<1>5. zero \in [Lba(d) -> Block] /\ NoAck(d) \in [Lba(d) -> Data \cup {Null}]
  BY DEF Block, NoAck
<1>6. host[d].last \in Nat /\ m \in Nat
  BY <1>3 DEF Hosts
<1> HIDE DEF zero
<1>7. host'[d] \in Hosts(d) /\ acked'[d] = NoAck(d)
  <2>1. host'[d] = [host[d] EXCEPT !.medium = m, !.last = IF m = 0 THEN host[d].last ELSE m,
                                   !.blocks = zero]
    BY <1>1, <1>3 DEF Domains, zero
  <2>2. (IF m = 0 THEN host[d].last ELSE m) \in Nat
    BY <1>6
  <2>3. host'[d] \in Hosts(d)
    BY <1>3, <1>5, <1>6, <2>1, <2>2 DEF Hosts
  <2> QED BY <1>2, <1>3, <2>3 DEF Domains
<1>8. Agrees(d, host'[d], NoAck(d))
  BY DEF Agrees, NoAck
<1>9. Sane(d, private[d], host'[d], NoAck(d), short[d], known[d], reset[d])
  BY <1>3, <1>5, <1>7, <1>8 DEF Sane
<1>10. Here(d)
  BY <1>2, <1>3, <1>7, <1>9 DEF Here, OK
<1>11. Guarded(d)
  BY <1>7 DEF Guarded
<1> QED BY <1>4, <1>10, <1>11, OneDisk

LEMMA LookKeeps ==
    ASSUME DiskInv, NEW d \in Device, Look(d)
    PROVE  DiskInv' /\ Guards
<1> DEFINE k == [id |-> private[d].mediaId, medium |-> private[d].handle]
<1>1. /\ private[d] # Null /\ known' = [known EXCEPT ![d] = k] /\ reset' = [reset EXCEPT ![d] = FALSE]
      /\ UNCHANGED <<busVars, private, host, handles, leaked, acked, short>>
  BY DEF Look
<1>2. /\ Domains /\ children \subseteq Device /\ handles[d] \in Nat /\ leaked[d] \in Nat
      /\ private[d] \in Privates
      /\ handles[d] = Held(private[d]) + leaked[d]
      /\ Sane(d, private[d], host[d], acked[d], short[d], known[d], reset[d])
  BY <1>1, DiskIs
<1>3. /\ private[d].mediaId \in Nat /\ k \in Clients
      /\ k.id = private[d].mediaId /\ k.medium = private[d].handle
  BY <1>2 DEF Privates, Clients
<1> HIDE DEF k
<1>4. Only(d)
  BY <1>1, <1>2 DEF Domains, Only, busVars
<1>5. known'[d] = k /\ reset'[d] = FALSE
  BY <1>1, <1>2 DEF Domains
<1>6. Sane(d, private[d], host[d], acked[d], short[d], k, reset'[d])
  <2>1. reset'[d] \in BOOLEAN
    BY <1>5, Zenon
  <2>2. /\ private[d] # Null /\ k.id <= private[d].mediaId
        /\ private[d].handle = k.medium
    BY <1>1, <1>3
  <2> QED BY <1>2, <1>3, <2>1, <2>2 DEF Sane
<1>7. Here(d)
  BY <1>1, <1>2, <1>5, <1>6 DEF Here, OK
<1>8. Guarded(d)
  BY <1>1 DEF Guarded
<1> QED BY <1>4, <1>7, <1>8, OneDisk

(* A step of the bus, of a client that flushes, or none.                   *)
LEMMA OthersKeep ==
    ASSUME DiskInv, OnlyBus, children' \subseteq Device
    PROVE  DiskInv' /\ Guards
BY DEF DiskInv, Domains, Disks, OnlyBus, Guards, Guarded

LEMMA BusKeeps ==
    ASSUME DiskInv, BusSteps
    PROVE  DiskInv' /\ Guards
<1>1. children \subseteq Device
  BY DEF DiskInv
<1>2. \A path \in Path : BusStart(path) => children' \subseteq Device
  <2> TAKE path \in Path
  <2>1. Wanted(path) \subseteq Device
    BY DEF Wanted
  <2> QED BY <1>1, <2>1 DEF BusStart, MakeChildren
<1>3. OnlyBus /\ children' \subseteq Device
  BY <1>1, <1>2 DEF BusSteps, BusStopChild, BusStop
<1> QED BY <1>3, OthersKeep

----------------------------------------------------------------------------
LEMMA InvInit == Init => DiskInv
<1> SUFFICES ASSUME Init PROVE DiskInv
  OBVIOUS
<1>1. PICK existing \in SUBSET Mapped :
        host = [d \in Device |-> [medium |-> 1, last |-> 1,
                                  size |-> IF d \in existing THEN NumberOfBlocks(d) ELSE 0,
                                  blocks |-> [b \in Lba(d) |-> Zero]]]
  BY DEF Init
<1>2. ASSUME NEW d \in Device
      PROVE  OK(d, private[d], host[d], handles[d], leaked[d], acked[d], short[d], known[d], reset[d])
  <2>1. /\ private[d] = Null /\ handles[d] = 0 /\ leaked[d] = 0 /\ acked[d] = NoAck(d)
        /\ short[d] = FALSE /\ known[d] = Unknown /\ reset[d] = FALSE
    BY DEF Init
  <2>2. host[d] \in Hosts(d)
    <3>1. NumberOfBlocks(d) \in Nat
      BY SizeIs
    <3>2. (IF d \in existing THEN NumberOfBlocks(d) ELSE 0) \in 0 .. NumberOfBlocks(d)
      BY <3>1
    <3>3. [b \in Lba(d) |-> Zero] \in [Lba(d) -> Block]
      BY DEF Block
    <3> QED BY <1>1, <3>2, <3>3 DEF Hosts
  <2>3. Held(Null) = 0 /\ Unknown \in Clients /\ Unknown.medium = Null
    BY DEF Held, Unknown, Clients
  <2>4. NoAck(d) \in [Lba(d) -> Data \cup {Null}] /\ Agrees(d, host[d], NoAck(d))
    BY DEF NoAck, Agrees
  <2>5. Sane(d, Null, host[d], NoAck(d), short[d], Unknown, reset[d])
    BY <2>1, <2>2, <2>3, <2>4 DEF Sane
  <2> QED BY <2>1, <2>3, <2>5 DEF OK
<1>3. Domains /\ children \subseteq Device
  BY <1>1 DEF Init, BusInit, Domains
<1> QED BY <1>2, <1>3 DEF DiskInv, Disks

LEMMA InvNext == DiskInv /\ [Next]_vars => DiskInv' /\ Guards
<1> SUFFICES ASSUME DiskInv, [Next]_vars PROVE DiskInv' /\ Guards
  OBVIOUS
<1>1. ASSUME NEW d \in Device, DiskSteps(d) PROVE DiskInv' /\ Guards
  <2>1. NumberOfBlocks(d) \in Nat
    BY SizeIs
  <2>2. \A n \in 0 .. NumberOfBlocks(d) : n \in Nat
    BY <2>1
  <2>3. CASE Start(d) \/ Stop(d) \/ Reset(d) \/ Change(d) \/ Look(d)
    BY <2>3, StartKeeps, StopKeeps, ResetKeeps, ChangeKeeps, LookKeeps
  <2>4. CASE FlushBlocks(d)
    <3>1. OnlyBus /\ children' \subseteq Device
      BY <2>4 DEF FlushBlocks, vars, busVars, OnlyBus, DiskInv
    <3> QED BY <3>1, OthersKeep
  <2>5. CASE \E from \in Lba(d), n \in 0 .. NumberOfBlocks(d) :
               \/ ReadBlocks(d, known[d].id, from, n)
               \/ \E x \in Data : WriteBlocks(d, known[d].id, from, n, x)
    BY <2>2, <2>5, ReadKeeps, WriteBlocksKeeps
  <2> QED BY <1>1, <2>3, <2>4, <2>5 DEF DiskSteps
<1>2. CASE UNCHANGED vars
  <2>1. OnlyBus /\ children' \subseteq Device
    BY <1>2 DEF vars, busVars, OnlyBus, DiskInv
  <2> QED BY <2>1, OthersKeep
<1> QED BY <1>1, <1>2, BusKeeps DEF Next

LEMMA Invariance == Spec => []DiskInv
BY InvInit, InvNext, PTL DEF Spec

THEOREM TypeCorrect == Spec => []TypeOK
<1>1. DiskInv => TypeOK
  BY DEF DiskInv, Disks, OK, Sane, TypeOK
<1> QED BY <1>1, Invariance, PTL

(* The host's handle of a disk is open exactly while the driver has it,    *)
(* but for those that a Start loses: Reset, Stop and a changed medium      *)
(* close it, and nothing opens a second one.                               *)
THEOREM HandleOwned == Spec => []HandleIsOwned
<1>1. DiskInv => HandleIsOwned
  BY DEF DiskInv, Disks, OK, HandleIsOwned
<1> QED BY <1>1, Invariance, PTL

(* What was written with success is on the disk until it is written again  *)
(* or the medium leaves, over any resets, stops, starts and failures, for  *)
(* any number of blocks: unless a file could not be extended.              *)
THEOREM WrittenKept == Spec => []WrittenIsKept
<1>1. DiskInv => WrittenIsKept
  BY DEF DiskInv, Disks, OK, Sane, Agrees, WrittenIsKept
<1> QED BY <1>1, Invariance, PTL

(* A client that has the MediaId of one medium does not write to another,  *)
(* unless a Reset came after it had looked (ReadWriteCommon compares the   *)
(* MediaId, and WinNtBlockIoError counts it up).                           *)
THEOREM MediaIdGuarded == Spec => MediaIdGuards
<1>1. DiskInv /\ [Next]_vars =>
        [\A d \in Device :
            acked'[d] # acked[d] /\ acked'[d] # NoAck(d) /\ known[d].medium # Null
                => known[d].medium = host[d].medium \/ reset[d]]_vars
  BY InvNext DEF Guards, Guarded
<1> QED BY <1>1, Invariance, PTL DEF Spec, MediaIdGuards
----------------------------------------------------------------------------
(* The least of a set of numbers.                                          *)
LeastOf(S) == CHOOSE m \in S : \A n \in S : m <= n
LEMMA Least == ASSUME NEW S, S \subseteq Nat, S # {} PROVE LeastOf(S) \in S /\ \A n \in S : LeastOf(S) <= n
<1> DEFINE R == OpToRel(<, Nat)
<1>1. IsWellFoundedOn(R, Nat)
  BY NatLessThanWellFounded
<1>2. \A m, n \in Nat : m < n => <<m, n>> \in R
  BY DEF OpToRel
<1> HIDE DEF R
<1>3. PICK m \in S : \A n \in S : ~(<<n, m>> \in R)
  BY <1>1, WFMin
<1>4. \A n \in S : ~(n < m)
  <2>1. m \in Nat /\ \A n \in S : n \in Nat
    OBVIOUS
  <2> QED BY <1>2, <1>3, <2>1
<1>5. \A n \in S : m <= n
  BY <1>4
<1> QED BY <1>5 DEF LeastOf

(* A region that is gone through from each place to a later one, until its *)
(* end: there is a function from each place to what is found on the way.   *)
Walks(n, nx, fd) ==
    \E g : g = [p \in 0 .. n |-> IF p = n THEN <<>> ELSE fd[p] \o g[nx[p]]]

LEMMA WalkExists ==
  ASSUME NEW n \in Nat, NEW nx, NEW fd, \A p \in 0 .. n - 1 : nx[p] \in Nat /\ p < nx[p] /\ nx[p] <= n
  PROVE  Walks(n, nx, fd)
<1> DEFINE S == {k \in 0 .. n : \E g : g = [p \in k .. n |-> IF p = n THEN <<>> ELSE fd[p] \o g[nx[p]]]}
<1>1. n \in S
  <2> DEFINE g == [p \in n .. n |-> <<>>]
  <2>1. g = [p \in n .. n |-> IF p = n THEN <<>> ELSE fd[p] \o g[nx[p]]]
    OBVIOUS
  <2> HIDE DEF g
  <2>2. \E f : f = [p \in n .. n |-> IF p = n THEN <<>> ELSE fd[p] \o f[nx[p]]]
    BY <2>1
  <2>3. n \in 0 .. n
    OBVIOUS
  <2> QED BY <2>2, <2>3
<1>2. S \subseteq Nat /\ S # {}
  <2>1. S \subseteq 0 .. n
    OBVIOUS
  <2>2. S # {}
    <3> HIDE DEF S
    <3> QED BY <1>1
  <2> HIDE DEF S
  <2> QED BY <2>1, <2>2
<1>3. PICK k \in S : \A m \in S : k <= m
  <2> HIDE DEF S
  <2> QED BY <1>2, Least
<1>4. PICK g : g = [p \in k .. n |-> IF p = n THEN <<>> ELSE fd[p] \o g[nx[p]]]
  BY <1>3
<1>5. CASE k = 0
  BY <1>4, <1>5 DEF Walks
<1>6. CASE k # 0
  <2> DEFINE i == k - 1
             h == [p \in i .. n |-> IF p = i THEN fd[p] \o g[nx[p]] ELSE g[p]]
  <2>1. k \in 1 .. n /\ i \in 0 .. n - 1 /\ i < k
    BY <1>2, <1>3, <1>6
  <2>2. ASSUME NEW p \in i .. n
        PROVE  h[p] = IF p = n THEN <<>> ELSE fd[p] \o h[nx[p]]
    <3>1. h[p] = IF p = n THEN <<>> ELSE fd[p] \o g[nx[p]]
      <4>1. CASE p = i
        <5>1. h[p] = fd[p] \o g[nx[p]]
          BY <4>1
        <5>2. p # n
          BY <2>1, <4>1
        <5> HIDE DEF h
        <5> QED BY <5>1, <5>2
      <4>2. CASE p # i
        <5>1. p \in k .. n
          BY <2>1, <4>2
        <5>2. h[p] = g[p]
          BY <4>2
        <5> HIDE DEF h
        <5> QED BY <1>4, <5>1, <5>2
      <4> QED BY <4>1, <4>2
    <3>2. ASSUME p # n PROVE h[nx[p]] = g[nx[p]]
      <4>1. nx[p] \in i .. n /\ nx[p] # i
        BY <2>1, <3>2
      <4> QED BY <4>1
    <3> HIDE DEF h
    <3> QED BY <3>1, <3>2
  <2>3. h = [p \in i .. n |-> h[p]]
    OBVIOUS
  <2>4. h = [p \in i .. n |-> IF p = n THEN <<>> ELSE fd[p] \o h[nx[p]]]
    <3> HIDE DEF h
    <3> QED BY <2>2, <2>3
  <2>5. i \in S
    <3> HIDE DEF h
    <3>1. i \in 0 .. n
      BY <2>1
    <3>2. \E f : f = [p \in i .. n |-> IF p = n THEN <<>> ELSE fd[p] \o f[nx[p]]]
      BY <2>4
    <3> HIDE DEF i
    <3> QED BY <3>1, <3>2
  <2> HIDE DEF S
  <2> QED BY <1>3, <2>1, <2>5
<1> QED BY <1>5, <1>6

(* The next place is a later one, and a header has an image of some size.  *)
LEMMA NextIs ==
  ASSUME NEW r \in Region, NEW p \in 0 .. Size - 1
  PROVE  /\ NextAt(r, p) \in Nat /\ p < NextAt(r, p) /\ NextAt(r, p) <= Size
         /\ HasHeader(r, p) => /\ r[p].image \in Image /\ r[p].image.size \in Nat \ {0}
                               /\ r[p] = [image |-> r[p].image, part |-> 0]
                               /\ r[p] # ErasedCell
<1>1. Size \in Nat \ {0} /\ p \in Nat
  BY SizeAssumption
<1>2. r[p] \in Cell
  BY DEF Region
<1>3. ASSUME HasHeader(r, p)
      PROVE  /\ r[p].image \in Image /\ r[p].image.size \in Nat \ {0}
             /\ r[p] = [image |-> r[p].image, part |-> 0] /\ r[p] # ErasedCell
  <2>1. r[p] \in [image : Image, part : Nat] /\ r[p].part = 0 /\ r[p] # ErasedCell
    BY <1>2, <1>3 DEF HasHeader, Cell
  <2>2. r[p].image \in Image
    BY <2>1
  <2> QED BY <2>1, <2>2, ImageAssumption
<1>4. NextAt(r, p) \in Nat /\ p < NextAt(r, p) /\ NextAt(r, p) <= Size
  <2>1. CASE HasHeader(r, p)
    <3> DEFINE n == r[p].image.size
    <3>1. n \in Nat \ {0}
      BY <1>3, <2>1
    <3>2. NextAt(r, p) = IF p + n < Size THEN p + n ELSE Size
      BY <2>1 DEF NextAt
    <3> HIDE DEF n
    <3> QED BY <1>1, <3>1, <3>2
  <2>2. CASE ~HasHeader(r, p)
    <3>1. NextAt(r, p) = IF p + 1 < Size THEN p + 1 ELSE Size
      BY <2>2 DEF NextAt
    <3> QED BY <1>1, <3>1
  <2> QED BY <2>1, <2>2
<1> QED BY <1>3, <1>4

LEMMA ScanIs ==
  ASSUME NEW r \in Region, NEW c
  PROVE  /\ ScanFrom(r, c)[Size] = <<>>
         /\ \A p \in 0 .. Size - 1 : ScanFrom(r, c)[p] = Found(r, p, c) \o ScanFrom(r, c)[NextAt(r, p)]
<1> DEFINE nx == [p \in 0 .. Size - 1 |-> NextAt(r, p)]
           fd == [p \in 0 .. Size - 1 |-> Found(r, p, c)]
           f == CHOOSE g : g = [p \in 0 .. Size |-> IF p = Size THEN <<>> ELSE Found(r, p, c) \o g[NextAt(r, p)]]
<1>1. Size \in Nat \ {0}
  BY SizeAssumption
<1>2. ScanFrom(r, c) = f
  BY DEF ScanFrom
<1>3. Walks(Size, nx, fd)
  <2>1. \A p \in 0 .. Size - 1 : nx[p] \in Nat /\ p < nx[p] /\ nx[p] <= Size
    BY NextIs
  <2> HIDE DEF nx, fd
  <2> QED BY <1>1, <2>1, WalkExists
<1>4. PICK g : g = [p \in 0 .. Size |-> IF p = Size THEN <<>> ELSE fd[p] \o g[nx[p]]]
  BY <1>3 DEF Walks
<1>5. g = [p \in 0 .. Size |-> IF p = Size THEN <<>> ELSE Found(r, p, c) \o g[NextAt(r, p)]]
  <2>1. \A p \in 0 .. Size : p # Size => nx[p] = NextAt(r, p) /\ fd[p] = Found(r, p, c)
    BY <1>1
  <2> HIDE DEF nx, fd
  <2> QED BY <1>4, <2>1
<1>6. f = [p \in 0 .. Size |-> IF p = Size THEN <<>> ELSE Found(r, p, c) \o f[NextAt(r, p)]]
  BY <1>5
<1> HIDE DEF f, nx, fd
<1>7. f[Size] = <<>>
  BY <1>1, <1>6
<1>8. ASSUME NEW p \in 0 .. Size - 1 PROVE f[p] = Found(r, p, c) \o f[NextAt(r, p)]
  <2>1. p \in 0 .. Size /\ p # Size
    BY <1>1
  <2> QED BY <1>6, <2>1
<1> QED BY <1>2, <1>7, <1>8

(* What a scan lists: headers, one behind the end of the other.            *)
Entry == [at : Nat, size : Nat, inUse : BOOLEAN]
EntryAt(r, p, c) == [at |-> p, size |-> r[p].image.size, inUse |-> IsInUse(r, p, c)]
Lists(r, c, p, s) ==
    /\ s \in Seq(Entry)
    /\ \A k \in DOMAIN s :
         /\ p <= s[k].at /\ s[k].at < Size /\ HasHeader(r, s[k].at)
         /\ s[k] = EntryAt(r, s[k].at, c)
    /\ \A j, k \in DOMAIN s : j < k => s[j].at + s[j].size <= s[k].at

LEMMA ConsIs ==
  ASSUME NEW S, NEW e \in S, NEW t \in Seq(S)
  PROVE  /\ <<e>> \o t \in Seq(S) /\ Len(<<e>> \o t) = Len(t) + 1
         /\ (<<e>> \o t)[1] = e
         /\ \A k \in 1 .. Len(t) : (<<e>> \o t)[k + 1] = t[k]
<1>1. <<e>> \in Seq(S) /\ Len(<<e>>) = 1 /\ <<e>>[1] = e
  OBVIOUS
<1>2. Len(t) \in Nat
  OBVIOUS
<1> DEFINE s == <<e>> \o t
<1>3. s \in Seq(S) /\ Len(s) = 1 + Len(t) /\ \A i \in 1 .. Len(s) : s[i] = IF i <= 1 THEN <<e>>[i] ELSE t[i - 1]
  BY <1>1, ConcatProperties
<1> HIDE DEF s
<1>4. \A k \in 1 .. Len(t) : s[k + 1] = t[k]
  BY <1>2, <1>3
<1>5. s[1] = e
  BY <1>1, <1>2, <1>3
<1>6. Len(s) = Len(t) + 1
  BY <1>2, <1>3
<1> QED BY <1>3, <1>4, <1>5, <1>6 DEF s

LEMMA EntryIs ==
  ASSUME NEW r \in Region, NEW p \in 0 .. Size - 1, NEW c, HasHeader(r, p)
  PROVE  EntryAt(r, p, c) \in Entry /\ Found(r, p, c) = <<EntryAt(r, p, c)>>
<1>1. r[p].image.size \in Nat /\ p \in Nat
  <2>1. r[p].image.size \in Nat \ {0}
    BY NextIs
  <2> QED BY <2>1, SizeAssumption
<1>2. IsInUse(r, p, c) \in BOOLEAN
  BY DEF IsInUse
<1> QED BY <1>1, <1>2 DEF EntryAt, Entry, Found

LEMMA ListsOne ==
  ASSUME NEW r \in Region, NEW c, NEW p \in 0 .. Size - 1, NEW t, Lists(r, c, NextAt(r, p), t)
  PROVE  Lists(r, c, p, Found(r, p, c) \o t)
<1> DEFINE q == NextAt(r, p)
<1>1. q \in Nat /\ p < q /\ q <= Size /\ p \in Nat /\ Size \in Nat
  <2>1. q \in Nat /\ p < q /\ q <= Size
    BY NextIs
  <2>2. p \in Nat /\ Size \in Nat
    BY SizeAssumption
  <2> QED BY <2>1, <2>2
<1>2. t \in Seq(Entry)
  BY DEF Lists
<1>3. ASSUME NEW k \in DOMAIN t PROVE t[k].at \in Nat /\ t[k].size \in Nat
  <2>1. t[k] \in Entry
    BY <1>2
  <2> QED BY <2>1 DEF Entry
<1>4. CASE ~HasHeader(r, p)
  <2>1. Found(r, p, c) \o t = t
    BY <1>2, <1>4, ConcatEmptySeq DEF Found
  <2>2. \A k \in DOMAIN t : p <= t[k].at
    <3>1. \A k \in DOMAIN t : q <= t[k].at
      BY DEF Lists
    <3> HIDE DEF q
    <3> QED BY <1>1, <1>3, <3>1
  <2> QED BY <2>1, <2>2 DEF Lists
<1>5. CASE HasHeader(r, p)
  <2> DEFINE e == EntryAt(r, p, c)
             s == <<e>> \o t
             n == Len(t)
  <2>1. e \in Entry /\ Found(r, p, c) = <<e>>
    BY <1>5, EntryIs
  <2>2. e.at = p /\ e.size = r[p].image.size /\ e.size \in Nat
    BY <1>5, NextIs DEF EntryAt
  <2>3. /\ s \in Seq(Entry) /\ Len(s) = n + 1 /\ s[1] = e
        /\ \A k \in 1 .. n : s[k + 1] = t[k]
    <3> HIDE DEF e
    <3> QED BY <1>2, <2>1, ConsIs
  <2>4. n \in Nat /\ DOMAIN t = 1 .. n /\ DOMAIN s = 1 .. n + 1
    BY <1>2, <2>3
  <2>5. \A k \in 1 .. n :
          /\ q <= t[k].at /\ t[k].at < Size /\ HasHeader(r, t[k].at)
          /\ t[k] = EntryAt(r, t[k].at, c)
    BY <2>4 DEF Lists
  <2>6. p + e.size <= q \/ n = 0
    <3>1. q = IF p + e.size < Size THEN p + e.size ELSE Size
      BY <1>5, <2>2 DEF NextAt
    <3>2. q = Size => n = 0
      <4> HIDE DEF n, q
      <4>1. ASSUME q = Size, n # 0 PROVE FALSE
        <5>1. 1 \in 1 .. n
          BY <2>4, <4>1
        <5>2. t[1].at \in Nat /\ q <= t[1].at /\ t[1].at < Size
          BY <1>3, <2>4, <2>5, <5>1
        <5> QED BY <1>1, <4>1, <5>2
      <4> QED BY <4>1
    <3> HIDE DEF q, n, e
    <3> QED BY <1>1, <2>2, <3>1, <3>2
  <2> HIDE DEF s, e, n, q
  <2>7. ASSUME NEW k \in DOMAIN s
        PROVE  /\ p <= s[k].at /\ s[k].at < Size /\ HasHeader(r, s[k].at)
               /\ s[k] = EntryAt(r, s[k].at, c)
               /\ k # 1 => q <= s[k].at
    <3>1. CASE k = 1
      BY <1>1, <1>5, <2>2, <2>3, <3>1 DEF e
    <3>2. CASE k # 1
      <4>1. k - 1 \in 1 .. n /\ s[k] = t[k - 1]
        <5>1. k - 1 \in 1 .. n /\ (k - 1) + 1 = k
          BY <2>4, <3>2
        <5> QED BY <2>3, <5>1
      <4>2. q <= s[k].at /\ s[k].at < Size /\ HasHeader(r, s[k].at) /\ s[k] = EntryAt(r, s[k].at, c)
        BY <2>5, <4>1
      <4>3. s[k].at \in Nat
        BY <1>3, <2>4, <4>1
      <4> QED BY <1>1, <4>2, <4>3
    <3> QED BY <3>1, <3>2
  <2>8. ASSUME NEW j \in DOMAIN s, NEW k \in DOMAIN s, j < k PROVE s[j].at + s[j].size <= s[k].at
    <3>1. k # 1 /\ k - 1 \in 1 .. n /\ s[k] = t[k - 1]
      <4>1. k # 1 /\ k - 1 \in 1 .. n /\ (k - 1) + 1 = k
        BY <2>4, <2>8
      <4> QED BY <2>3, <4>1
    <3>2. CASE j = 1
      <4>1. n # 0
        BY <2>4, <3>1
      <4>2. q <= s[k].at /\ s[k].at \in Nat
        BY <1>3, <2>4, <2>7, <3>1
      <4> QED BY <1>1, <2>2, <2>3, <2>6, <3>2, <4>1, <4>2
    <3>3. CASE j # 1
      <4>1. j - 1 \in 1 .. n /\ s[j] = t[j - 1] /\ j - 1 < k - 1
        <5>1. j - 1 \in 1 .. n /\ (j - 1) + 1 = j /\ j - 1 < k - 1
          BY <2>4, <2>8, <3>3
        <5> QED BY <2>3, <5>1
      <4>2. t[j - 1].at + t[j - 1].size <= t[k - 1].at
        BY <2>4, <3>1, <4>1 DEF Lists
      <4> QED BY <3>1, <4>1, <4>2
    <3> QED BY <3>2, <3>3
  <2>9. Lists(r, c, p, s)
    BY <2>3, <2>7, <2>8 DEF Lists
  <2> QED BY <2>1, <2>9 DEF s
<1> QED BY <1>4, <1>5

(* What holds at the end of the region, and at each place if it holds at   *)
(* the next, holds everywhere: the last place at which it would fail.      *)
LEMMA LastFailure ==
  ASSUME NEW r \in Region, NEW good, Size \in good,
         \A p \in 0 .. Size - 1 : NextAt(r, p) \in good => p \in good
  PROVE  0 .. Size \subseteq good
<1> DEFINE Bad == {n \in 0 .. Size : Size - n \notin good}
<1>1. Size \in Nat
  BY SizeAssumption
<1>2. ASSUME Bad # {} PROVE FALSE
  <2>1. Bad \subseteq Nat
    OBVIOUS
  <2>2. PICK n \in Bad : \A m \in Bad : n <= m
    <3> HIDE DEF Bad
    <3> QED BY <1>2, <2>1, Least
  <2>3. n \in 0 .. Size /\ Size - n \notin good
    BY <2>2
  <2>4. n # 0
    BY <1>1, <2>3
  <2>5. Size - n \in 0 .. Size - 1
    BY <1>1, <2>3, <2>4
  <2> DEFINE q == NextAt(r, Size - n)
  <2>6. q \in Nat /\ Size - n < q /\ q <= Size
    BY <2>5, NextIs
  <2>7. q \notin good
    BY <2>3, <2>5
  <2> HIDE DEF q
  <2>8. Size - q \in 0 .. Size /\ Size - (Size - q) = q /\ Size - q < n
    BY <1>1, <2>3, <2>6
  <2>9. Size - q \in Bad
    BY <2>7, <2>8
  <2> HIDE DEF Bad
  <2>10. n <= Size - q
    BY <2>2, <2>9
  <2> QED BY <2>3, <2>6, <2>8, <2>10, <1>1
<1>3. ASSUME NEW p \in 0 .. Size PROVE p \in good
  <2>1. Size - p \in 0 .. Size /\ Size - (Size - p) = p
    BY <1>1
  <2>2. Size - p \notin Bad
    BY <1>2
  <2> QED BY <2>1, <2>2
<1> QED BY <1>3

LEMMA ScanLists ==
  ASSUME NEW r \in Region, NEW c
  PROVE  \A p \in 0 .. Size : Lists(r, c, p, ScanFrom(r, c)[p])
<1> DEFINE good == {p \in 0 .. Size : Lists(r, c, p, ScanFrom(r, c)[p])}
<1>1. Size \in good
  <2>1. ScanFrom(r, c)[Size] = <<>> /\ Size \in 0 .. Size
    BY ScanIs, SizeAssumption
  <2>2. Lists(r, c, Size, <<>>)
    BY DEF Lists
  <2> QED BY <2>1, <2>2
<1>2. ASSUME NEW p \in 0 .. Size - 1, NextAt(r, p) \in good PROVE p \in good
  <2>1. Lists(r, c, p, Found(r, p, c) \o ScanFrom(r, c)[NextAt(r, p)])
    BY <1>2, ListsOne
  <2>2. p \in 0 .. Size
    BY SizeAssumption
  <2> QED BY <2>1, <2>2, ScanIs
<1> HIDE DEF good
<1>3. 0 .. Size \subseteq good
  BY <1>1, <1>2, LastFailure
<1> QED BY <1>3 DEF good

(* Whether the scan from p lists a place.                                  *)
Has(r, c, p, a) == \E k \in DOMAIN ScanFrom(r, c)[p] : ScanFrom(r, c)[p][k].at = a
EndOfList(s) == s[Len(s)].at + s[Len(s)].size
Behind(r, c, p, u) == ScanFrom(r, c)[p] # <<>> /\ EndOfList(ScanFrom(r, c)[p]) = u
SameBelow(r, s, a) == \A p \in 0 .. Size - 1 : p < a => r[p] = s[p]

LEMMA HasStep ==
  ASSUME NEW r \in Region, NEW c, NEW p \in 0 .. Size - 1, NEW a
  PROVE  Has(r, c, p, a) <=> (HasHeader(r, p) /\ a = p) \/ Has(r, c, NextAt(r, p), a)
<1> DEFINE t == ScanFrom(r, c)[NextAt(r, p)]
           s == ScanFrom(r, c)[p]
           e == EntryAt(r, p, c)
<1>1. s = Found(r, p, c) \o t
  BY ScanIs
<1>2. t \in Seq(Entry)
  <2>1. NextAt(r, p) \in 0 .. Size
    <3>1. NextAt(r, p) \in Nat /\ NextAt(r, p) <= Size
      BY NextIs
    <3> QED BY <3>1, SizeAssumption
  <2>2. Lists(r, c, NextAt(r, p), t)
    BY <2>1, ScanLists
  <2> QED BY <2>2 DEF Lists
<1>3. Has(r, c, p, a) <=> \E k \in DOMAIN s : s[k].at = a
  BY DEF Has
<1>4. Has(r, c, NextAt(r, p), a) <=> \E k \in DOMAIN t : t[k].at = a
  BY DEF Has
<1> HIDE DEF s, t
<1>5. CASE ~HasHeader(r, p)
  <2>1. s = t
    BY <1>1, <1>2, <1>5, ConcatEmptySeq DEF Found
  <2> QED BY <1>3, <1>4, <1>5, <2>1
<1>6. CASE HasHeader(r, p)
  <2>1. e \in Entry /\ s = <<e>> \o t
    BY <1>1, <1>6, EntryIs
  <2>2. e.at = p
    BY DEF EntryAt
  <2> HIDE DEF e
  <2>3. s \in Seq(Entry) /\ Len(s) = Len(t) + 1 /\ s[1] = e /\ \A k \in 1 .. Len(t) : s[k + 1] = t[k]
    BY <1>2, <2>1, ConsIs
  <2>4. Len(t) \in Nat /\ DOMAIN t = 1 .. Len(t) /\ DOMAIN s = 1 .. Len(t) + 1
    BY <1>2, <2>3
  <2>5. ASSUME NEW k \in DOMAIN s, s[k].at = a PROVE a = p \/ \E j \in DOMAIN t : t[j].at = a
    <3>1. CASE k = 1
      BY <2>2, <2>3, <2>5, <3>1
    <3>2. CASE k # 1
      <4>1. k - 1 \in 1 .. Len(t) /\ (k - 1) + 1 = k
        BY <2>4, <3>2
      <4>2. t[k - 1].at = a
        BY <2>3, <2>5, <4>1
      <4> QED BY <2>4, <4>1, <4>2
    <3> QED BY <3>1, <3>2
  <2>6. ASSUME NEW j \in DOMAIN t, t[j].at = a PROVE \E k \in DOMAIN s : s[k].at = a
    <3>1. j + 1 \in DOMAIN s
      BY <2>4
    <3>2. s[j + 1].at = a
      BY <2>3, <2>4, <2>6
    <3> QED BY <3>1, <3>2
  <2>7. \E k \in DOMAIN s : s[k].at = p
    <3>1. 1 \in DOMAIN s
      BY <2>4
    <3> QED BY <2>2, <2>3, <3>1
  <2> QED BY <1>3, <1>4, <1>6, <2>5, <2>6, <2>7
<1> QED BY <1>5, <1>6

LEMMA HasFrom ==
  ASSUME NEW r \in Region, NEW c, NEW p \in 0 .. Size, NEW a, Has(r, c, p, a)
  PROVE  p <= a /\ a \in 0 .. Size - 1 /\ HasHeader(r, a)
<1>1. Lists(r, c, p, ScanFrom(r, c)[p])
  BY ScanLists
<1>2. PICK k \in DOMAIN ScanFrom(r, c)[p] : ScanFrom(r, c)[p][k].at = a
  BY DEF Has
<1>3. p <= a /\ a < Size /\ HasHeader(r, a)
  BY <1>1, <1>2 DEF Lists
<1>4. a \in Nat
  <2>1. ScanFrom(r, c)[p][k] \in Entry
    BY <1>1, <1>2 DEF Lists
  <2> QED BY <1>2, <2>1 DEF Entry
<1> QED BY <1>3, <1>4, SizeAssumption

(* A place that was listed is listed again if nothing before it changed    *)
(* and a header is there.                                                  *)
LEMMA HasAgain ==
  ASSUME NEW r \in Region, NEW s \in Region, NEW c, NEW a \in 0 .. Size - 1,
         SameBelow(r, s, a), HasHeader(s, a), Has(r, c, 0, a)
  PROVE  Has(s, c, 0, a)
<1> DEFINE good == {p \in 0 .. Size : Has(r, c, p, a) => Has(s, c, p, a)}
<1>1. Size \in Nat \ {0} /\ a \in Nat /\ a < Size
  BY SizeAssumption
<1>2. Size \in good
  <2>1. ~Has(r, c, Size, a)
    <3>1. Size \in 0 .. Size
      BY <1>1
    <3> QED BY <1>1, <3>1, HasFrom
  <2> QED BY <1>1, <2>1
<1>3. ASSUME NEW p \in 0 .. Size - 1, NextAt(r, p) \in good PROVE p \in good
  <2>1. ASSUME Has(r, c, p, a) PROVE Has(s, c, p, a)
    <3>1. CASE p = a
      BY <3>1, HasStep
    <3>2. CASE p # a
      <4>1. Has(r, c, NextAt(r, p), a)
        BY <2>1, <3>2, HasStep
      <4>2. p \in 0 .. Size
        BY <1>1
      <4>3. p <= a
        BY <2>1, <4>2, HasFrom
      <4>4. p < a
        BY <1>1, <3>2, <4>3
      <4>5. r[p] = s[p]
        BY <4>4 DEF SameBelow
      <4>6. NextAt(s, p) = NextAt(r, p)
        BY <4>5 DEF NextAt, HasHeader
      <4>7. Has(s, c, NextAt(r, p), a)
        BY <1>3, <4>1
      <4> QED BY <4>6, <4>7, HasStep
    <3> QED BY <3>1, <3>2
  <2>2. p \in 0 .. Size
    BY <1>1
  <2> QED BY <2>1, <2>2
<1> HIDE DEF good
<1>4. 0 .. Size \subseteq good
  BY <1>2, <1>3, LastFailure
<1>5. 0 \in good
  BY <1>1, <1>4
<1> QED BY <1>5 DEF good

(* And so is the place behind the last image, when a header is put there.  *)
LEMMA BehindStep ==
  ASSUME NEW r \in Region, NEW c, NEW p \in 0 .. Size - 1, NEW u, Behind(r, c, p, u)
  PROVE  \/ Behind(r, c, NextAt(r, p), u)
         \/ HasHeader(r, p) /\ u = p + r[p].image.size
<1> DEFINE t == ScanFrom(r, c)[NextAt(r, p)]
           s == ScanFrom(r, c)[p]
           e == EntryAt(r, p, c)
<1>1. s = Found(r, p, c) \o t
  BY ScanIs
<1>2. t \in Seq(Entry)
  <2>1. NextAt(r, p) \in 0 .. Size
    <3>1. NextAt(r, p) \in Nat /\ NextAt(r, p) <= Size
      BY NextIs
    <3> QED BY <3>1, SizeAssumption
  <2>2. Lists(r, c, NextAt(r, p), t)
    BY <2>1, ScanLists
  <2> QED BY <2>2 DEF Lists
<1>3. s # <<>> /\ u = EndOfList(s)
  BY DEF Behind
<1>4. Behind(r, c, NextAt(r, p), u) <=> t # <<>> /\ u = EndOfList(t)
  BY DEF Behind
<1> HIDE DEF s, t
<1>5. CASE ~HasHeader(r, p)
  <2>1. s = t
    BY <1>1, <1>2, <1>5, ConcatEmptySeq DEF Found
  <2> QED BY <1>3, <1>4, <1>5, <2>1
<1>6. CASE HasHeader(r, p)
  <2>1. e \in Entry /\ s = <<e>> \o t
    BY <1>1, <1>6, EntryIs
  <2>2. e.at = p /\ e.size = r[p].image.size
    BY DEF EntryAt
  <2> HIDE DEF e
  <2>3. s \in Seq(Entry) /\ Len(s) = Len(t) + 1 /\ s[1] = e /\ \A k \in 1 .. Len(t) : s[k + 1] = t[k]
    BY <1>2, <2>1, ConsIs
  <2>4. CASE t = <<>>
    <3>1. Len(s) = 1
      BY <2>3, <2>4
    <3>2. u = e.at + e.size
      BY <1>3, <2>3, <3>1 DEF EndOfList
    <3> QED BY <1>6, <2>2, <3>2
  <2>5. CASE t # <<>>
    <3>1. Len(t) \in 1 .. Len(t)
      BY <1>2, <2>5
    <3>2. s[Len(s)] = t[Len(t)]
      BY <2>3, <3>1
    <3> QED BY <1>3, <1>4, <2>5, <3>2 DEF EndOfList
  <2> QED BY <2>4, <2>5
<1> QED BY <1>5, <1>6

LEMMA BehindFrom ==
  ASSUME NEW r \in Region, NEW c, NEW p \in 0 .. Size, NEW u, Behind(r, c, p, u)
  PROVE  u \in Nat /\ p < u
<1> DEFINE s == ScanFrom(r, c)[p]
           n == Len(s)
<1>1. Lists(r, c, p, s) /\ s # <<>> /\ u = s[n].at + s[n].size
  BY ScanLists DEF Behind, EndOfList
<1> HIDE DEF s
<1>2. n \in DOMAIN s
  BY <1>1 DEF Lists
<1>3. s[n] \in Entry /\ p <= s[n].at /\ s[n].at < Size /\ HasHeader(r, s[n].at) /\ s[n] = EntryAt(r, s[n].at, c)
  BY <1>1, <1>2 DEF Lists
<1>4. s[n].at \in 0 .. Size - 1
  BY <1>3, SizeAssumption DEF Entry
<1>5. s[n].size = r[s[n].at].image.size
  BY <1>3 DEF EntryAt
<1>6. s[n].size \in Nat \ {0}
  <2> DEFINE q == s[n].at
  <2> HIDE DEF q
  <2>1. q \in 0 .. Size - 1 /\ HasHeader(r, q)
    BY <1>3, <1>4 DEF q
  <2>2. r[q].image.size \in Nat \ {0}
    BY <2>1, NextIs
  <2> QED BY <1>5, <2>2 DEF q
<1> QED BY <1>1, <1>3, <1>4, <1>6

LEMMA HasBehind ==
  ASSUME NEW r \in Region, NEW s \in Region, NEW c, NEW u \in 0 .. Size - 1,
         SameBelow(r, s, u), HasHeader(s, u), Behind(r, c, 0, u)
  PROVE  Has(s, c, 0, u)
<1> DEFINE good == {p \in 0 .. Size : Behind(r, c, p, u) => Has(s, c, p, u)}
<1>1. Size \in Nat \ {0} /\ u \in Nat /\ u < Size
  BY SizeAssumption
<1>2. Size \in good
  <2>1. ~Behind(r, c, Size, u)
    BY ScanIs DEF Behind
  <2> QED BY <1>1, <2>1
<1>3. ASSUME NEW p \in 0 .. Size - 1, NextAt(r, p) \in good PROVE p \in good
  <2>1. ASSUME Behind(r, c, p, u) PROVE Has(s, c, p, u)
    <3>1. p \in 0 .. Size
      BY <1>1
    <3>2. p < u
      BY <2>1, <3>1, BehindFrom
    <3>4. r[p] = s[p]
      BY <3>2 DEF SameBelow
    <3>5. NextAt(s, p) = NextAt(r, p)
      BY <3>4 DEF NextAt, HasHeader
    <3>6. CASE Behind(r, c, NextAt(r, p), u)
      <4>1. Has(s, c, NextAt(r, p), u)
        BY <1>3, <3>6
      <4> QED BY <3>5, <4>1, HasStep
    <3>7. CASE HasHeader(r, p) /\ u = p + r[p].image.size
      <4>1. NextAt(r, p) = u
        BY <1>1, <3>7 DEF NextAt
      <4>2. Has(s, c, u, u)
        BY HasStep
      <4> QED BY <3>5, <4>1, <4>2, HasStep
    <3> QED BY <2>1, <3>6, <3>7, BehindStep
  <2>2. p \in 0 .. Size
    BY <1>1
  <2> QED BY <2>1, <2>2
<1> HIDE DEF good
<1>4. 0 .. Size \subseteq good
  BY <1>2, <1>3, LastFailure
<1>5. 0 \in good
  BY <1>1, <1>4
<1> QED BY <1>5 DEF good

(* In a tidy region every header is listed.                                *)
LEMMA TidyIsListed ==
  ASSUME NEW r \in Region, NEW c, IsTidy(r), NEW a \in 0 .. Size - 1, HasHeader(r, a)
  PROVE  Has(r, c, 0, a)
<1> DEFINE good == {p \in 0 .. Size : p <= a => Has(r, c, p, a)}
<1>1. Size \in Nat \ {0} /\ a \in Nat /\ a < Size
  BY SizeAssumption
<1>2. Size \in good
  BY <1>1
<1>3. ASSUME NEW p \in 0 .. Size - 1, NextAt(r, p) \in good PROVE p \in good
  <2>1. ASSUME p <= a PROVE Has(r, c, p, a)
    <3>1. CASE p = a
      BY <3>1, HasStep
    <3>2. CASE p # a
      <4>1. NextAt(r, p) <= a
        <5>1. CASE HasHeader(r, p)
          <6> DEFINE n == r[p].image.size
          <6>1. n \in Nat \ {0}
            BY <5>1, NextIs
          <6>2. p + n <= Size /\ \A q \in p + 1 .. p + n - 1 : ~HasHeader(r, q)
            BY <5>1 DEF IsTidy
          <6>3. NextAt(r, p) = IF p + n < Size THEN p + n ELSE Size
            BY <5>1 DEF NextAt
          <6> HIDE DEF n
          <6>4. a \notin p + 1 .. p + n - 1
            BY <6>2
          <6>5. p + n <= a
            BY <1>1, <2>1, <3>2, <6>1, <6>4
          <6> QED BY <1>1, <6>1, <6>2, <6>3, <6>5
        <5>2. CASE ~HasHeader(r, p)
          <6>1. NextAt(r, p) = IF p + 1 < Size THEN p + 1 ELSE Size
            BY <5>2 DEF NextAt
          <6> QED BY <1>1, <2>1, <3>2, <6>1
        <5> QED BY <5>1, <5>2
      <4>2. Has(r, c, NextAt(r, p), a)
        BY <1>3, <4>1
      <4> QED BY <4>2, HasStep
    <3> QED BY <3>1, <3>2
  <2>2. p \in 0 .. Size
    BY <1>1
  <2> QED BY <2>1, <2>2
<1> HIDE DEF good
<1>4. 0 .. Size \subseteq good
  BY <1>2, <1>3, LastFailure
<1>5. 0 \in good
  BY <1>1, <1>4
<1> QED BY <1>1, <1>5 DEF good

(* Sequences of cells.                                                     *)
IsHeader(x) == x # ErasedCell /\ x.part = 0
TidySeq(s) ==
    /\ s \in Seq(Cell)
    /\ \A k \in 1 .. Len(s) : IsHeader(s[k]) =>
         /\ k - 1 + s[k].image.size <= Len(s)
         /\ \A j \in k + 1 .. k - 1 + s[k].image.size : ~IsHeader(s[j])
Overlay(r, at, s, n) == [p \in 0 .. Size - 1 |-> IF at <= p /\ p < at + n THEN s[p - at + 1] ELSE r[p]]

LEMMA HeaderIs == ASSUME NEW x \in Cell, IsHeader(x)
                  PROVE  x.image \in Image /\ x.image.size \in Nat \ {0}
<1>1. x \in [image : Image, part : Nat]
  BY DEF IsHeader, Cell
<1>2. x.image \in Image
  BY <1>1
<1> QED BY <1>2, ImageAssumption

LEMMA CellsAre ==
  ASSUME NEW i \in Image
  PROVE  /\ Cells(i) \in Seq(Cell) /\ Len(Cells(i)) = i.size /\ i.size \in Nat \ {0}
         /\ \A k \in 1 .. i.size : Cells(i)[k] = [image |-> i, part |-> k - 1] /\ Cells(i)[k] # ErasedCell
         /\ \A k \in 1 .. i.size : IsHeader(Cells(i)[k]) <=> k = 1
         /\ TidySeq(Cells(i))
<1>1. i.size \in Nat \ {0}
  BY ImageAssumption
<1>2. \A k \in 1 .. i.size : [image |-> i, part |-> k - 1] \in [image : Image, part : Nat]
  BY <1>1
<1>3. \A k \in 1 .. i.size : [image |-> i, part |-> k - 1] \in Cell /\ [image |-> i, part |-> k - 1] # ErasedCell
  BY <1>2, ShippedAssumption DEF Cell
<1>4. Cells(i) = [k \in 1 .. i.size |-> [image |-> i, part |-> k - 1]]
  BY DEF Cells
<1>5. Cells(i) \in Seq(Cell) /\ Len(Cells(i)) = i.size
  <2>1. Cells(i) \in [1 .. i.size -> Cell]
    BY <1>3, <1>4
  <2> QED BY <1>1, <2>1
<1>6. \A k \in 1 .. i.size : Cells(i)[k] = [image |-> i, part |-> k - 1]
  BY <1>4
<1>7. ASSUME NEW k \in 1 .. i.size
      PROVE  Cells(i)[k] # ErasedCell /\ (IsHeader(Cells(i)[k]) <=> k = 1) /\ Cells(i)[k].image = i
  <2> DEFINE x == [image |-> i, part |-> k - 1]
  <2>3. Cells(i)[k] = x /\ x # ErasedCell
    BY <1>3, <1>6
  <2>4. x.part = k - 1 /\ x.image = i
    OBVIOUS
  <2> HIDE DEF x
  <2>1. Cells(i)[k] # ErasedCell /\ Cells(i)[k].part = k - 1 /\ Cells(i)[k].image = i
    BY <2>3, <2>4
  <2>2. k - 1 = 0 <=> k = 1
    BY <1>1
  <2> QED BY <2>1, <2>2 DEF IsHeader
<1>8. TidySeq(Cells(i))
  <2> SUFFICES ASSUME NEW k \in 1 .. Len(Cells(i)), IsHeader(Cells(i)[k])
               PROVE  /\ k - 1 + Cells(i)[k].image.size <= Len(Cells(i))
                      /\ \A j \in k + 1 .. k - 1 + Cells(i)[k].image.size : ~IsHeader(Cells(i)[j])
    BY <1>5 DEF TidySeq
  <2>1. k = 1 /\ Cells(i)[k].image.size = i.size
    BY <1>5, <1>7
  <2>2. \A j \in 2 .. i.size : ~IsHeader(Cells(i)[j])
    BY <1>1, <1>7
  <2> QED BY <1>1, <1>5, <2>1, <2>2
<1> QED BY <1>1, <1>3, <1>5, <1>6, <1>7, <1>8

LEMMA TidyConcat ==
  ASSUME NEW s, TidySeq(s), NEW t, TidySeq(t)
  PROVE  /\ TidySeq(s \o t) /\ Len(s \o t) = Len(s) + Len(t)
         /\ \A k \in 1 .. Len(s) : (s \o t)[k] = s[k]
<1> DEFINE u == s \o t
           m == Len(s)
           n == Len(t)
<1>1. s \in Seq(Cell) /\ t \in Seq(Cell) /\ m \in Nat /\ n \in Nat
  BY DEF TidySeq
<1>2. u \in Seq(Cell) /\ Len(u) = m + n /\ \A k \in 1 .. Len(u) : u[k] = IF k <= m THEN s[k] ELSE t[k - m]
  BY <1>1, ConcatProperties
<1> HIDE DEF u
<1>3. ASSUME NEW k \in 1 .. Len(u), IsHeader(u[k])
      PROVE  /\ k - 1 + u[k].image.size <= Len(u)
             /\ \A j \in k + 1 .. k - 1 + u[k].image.size : ~IsHeader(u[j])
  <2> DEFINE z == u[k].image.size
  <2>1. z \in Nat \ {0}
    BY <1>2, <1>3, HeaderIs
  <2>2. CASE k <= m
    <3>1. u[k] = s[k] /\ k \in 1 .. m
      BY <1>1, <1>2, <2>2
    <3>2. k - 1 + z <= m /\ \A j \in k + 1 .. k - 1 + z : ~IsHeader(s[j])
      BY <1>3, <3>1 DEF TidySeq
    <3> HIDE DEF z, m, n
    <3>3. \A j \in k + 1 .. k - 1 + z : j \in 1 .. Len(u) /\ j <= m
      BY <1>1, <1>2, <2>1, <2>2, <3>2
    <3>4. \A j \in k + 1 .. k - 1 + z : u[j] = s[j]
      BY <1>2, <3>3
    <3>5. k - 1 + z <= Len(u)
      BY <1>1, <1>2, <2>1, <3>2
    <3> QED BY <3>2, <3>4, <3>5 DEF z
  <2>3. CASE ~(k <= m)
    <3>1. u[k] = t[k - m] /\ k - m \in 1 .. n
      BY <1>1, <1>2, <2>3
    <3>2. (k - m) - 1 + z <= n /\ \A j \in (k - m) + 1 .. (k - m) - 1 + z : ~IsHeader(t[j])
      BY <1>3, <3>1 DEF TidySeq
    <3> HIDE DEF z, m, n
    <3>3. \A j \in k + 1 .. k - 1 + z : j \in 1 .. Len(u) /\ ~(j <= m) /\ j - m \in (k - m) + 1 .. (k - m) - 1 + z
      BY <1>1, <1>2, <2>1, <2>3, <3>2
    <3>4. \A j \in k + 1 .. k - 1 + z : u[j] = t[j - m]
      BY <1>2, <3>3
    <3>5. k - 1 + z <= Len(u)
      BY <1>1, <1>2, <2>1, <3>2
    <3> QED BY <3>2, <3>3, <3>4, <3>5 DEF z
  <2> QED BY <2>2, <2>3
<1>4. TidySeq(u)
  BY <1>2, <1>3 DEF TidySeq
<1>5. \A k \in 1 .. m : u[k] = s[k]
  <2> HIDE DEF m, n
  <2> QED BY <1>1, <1>2
<1> QED BY <1>2, <1>4, <1>5 DEF u

LEMMA BlankIs ==
  ASSUME NEW n \in Nat
  PROVE  TidySeq(Blank(n)) /\ Len(Blank(n)) = n
<1>1. Blank(n) \in [1 .. n -> Cell] /\ \A k \in 1 .. n : Blank(n)[k] = ErasedCell
  BY DEF Blank, Cell
<1>2. Blank(n) \in Seq(Cell) /\ Len(Blank(n)) = n
  BY <1>1
<1>3. \A k \in 1 .. n : ~IsHeader(Blank(n)[k])
  BY <1>1 DEF IsHeader
<1> QED BY <1>2, <1>3 DEF TidySeq

(* A region over a part of which something is written.                     *)
LEMMA OverlayIs ==
  ASSUME NEW r \in Region, NEW at \in Nat, NEW s \in Seq(Cell), NEW n \in 0 .. Len(s)
  PROVE  /\ Overlay(r, at, s, n) \in Region
         /\ SameBelow(r, Overlay(r, at, s, n), at)
         /\ \A p \in 0 .. Size - 1 :
              Overlay(r, at, s, n)[p] = IF at <= p /\ p < at + n THEN s[p - at + 1] ELSE r[p]
         /\ \A p \in 0 .. Size - 1 : ~(at <= p /\ p < at + n) => Overlay(r, at, s, n)[p] = r[p]
         /\ \A k \in 1 .. n : at + k - 1 < Size => Overlay(r, at, s, n)[at + k - 1] = s[k]
<1> DEFINE o == Overlay(r, at, s, n)
<1>1. o = [p \in 0 .. Size - 1 |-> IF at <= p /\ p < at + n THEN s[p - at + 1] ELSE r[p]]
  BY DEF Overlay
<1>2. Size \in Nat /\ n \in Nat /\ n <= Len(s) /\ Len(s) \in Nat
  BY SizeAssumption
<1> HIDE DEF o
<1>3. \A p \in 0 .. Size - 1 : o[p] = IF at <= p /\ p < at + n THEN s[p - at + 1] ELSE r[p]
  BY <1>1
<1>4. ASSUME NEW p \in 0 .. Size - 1 PROVE o[p] \in Cell
  <2>1. CASE at <= p /\ p < at + n
    <3>1. p - at + 1 \in 1 .. Len(s)
      BY <1>2, <2>1
    <3>2. o[p] = s[p - at + 1]
      BY <1>3, <2>1
    <3> QED BY <3>1, <3>2
  <2>2. CASE ~(at <= p /\ p < at + n)
    <3>1. o[p] = r[p]
      BY <1>3, <2>2
    <3> QED BY <3>1 DEF Region
  <2> QED BY <2>1, <2>2
<1>5. o \in Region
  BY <1>1, <1>4 DEF Region
<1>6. SameBelow(r, o, at)
  <2>1. \A p \in 0 .. Size - 1 : p < at => ~(at <= p)
    BY <1>2
  <2> QED BY <1>3, <2>1 DEF SameBelow
<1>7. ASSUME NEW k \in 1 .. n, at + k - 1 < Size PROVE o[at + k - 1] = s[k]
  <2>1. at + k - 1 \in 0 .. Size - 1 /\ at <= at + k - 1 /\ at + k - 1 < at + n /\ (at + k - 1) - at + 1 = k
    BY <1>2, <1>7
  <2> QED BY <1>3, <2>1
<1>8. \A p \in 0 .. Size - 1 : ~(at <= p /\ p < at + n) => o[p] = r[p]
  BY <1>3
<1> QED BY <1>3, <1>5, <1>6, <1>7, <1>8 DEF o

(* What the driver knows of the region when an update begins.              *)
Known ==
    /\ region \in Region /\ info = Scan(region, rev)
    /\ index # NoIndex => index \in InUse(info)

LEMMA ListIs ==
  ASSUME region \in Region, info = Scan(region, rev)
  PROVE  /\ info \in Seq(Entry) /\ Len(info) \in Nat /\ DOMAIN info = 1 .. Len(info)
         /\ \A k \in 1 .. Len(info) :
              /\ info[k].at \in 0 .. Size - 1 /\ HasHeader(region, info[k].at)
              /\ info[k].size = region[info[k].at].image.size /\ info[k].size \in Nat \ {0}
              /\ info[k].inUse <=> IsInUse(region, info[k].at, rev)
              /\ Has(region, rev, 0, info[k].at)
         /\ \A j, k \in 1 .. Len(info) : j < k => info[j].at + info[j].size <= info[k].at
<1>1. 0 \in 0 .. Size /\ info = ScanFrom(region, rev)[0]
  BY SizeAssumption DEF Scan
<1>2. Lists(region, rev, 0, info)
  BY <1>1, ScanLists
<1>3. info \in Seq(Entry) /\ Len(info) \in Nat /\ DOMAIN info = 1 .. Len(info)
  BY <1>2 DEF Lists
<1>4. ASSUME NEW k \in 1 .. Len(info)
      PROVE  /\ info[k].at \in 0 .. Size - 1 /\ HasHeader(region, info[k].at)
             /\ info[k].size = region[info[k].at].image.size /\ info[k].size \in Nat \ {0}
             /\ info[k].inUse <=> IsInUse(region, info[k].at, rev)
             /\ Has(region, rev, 0, info[k].at)
  <2> DEFINE p == info[k].at
  <2>1. info[k] \in Entry /\ p < Size /\ HasHeader(region, p) /\ info[k] = EntryAt(region, p, rev)
    BY <1>2, <1>3 DEF Lists
  <2>2. p \in 0 .. Size - 1
    <3>1. p \in Nat
      BY <2>1 DEF Entry
    <3> QED BY <2>1, <3>1, SizeAssumption
  <2>3. info[k].size = region[p].image.size /\ (info[k].inUse <=> IsInUse(region, p, rev))
    BY <2>1 DEF EntryAt
  <2>4. Has(region, rev, 0, p)
    BY <1>1, <1>3 DEF Has
  <2> HIDE DEF p
  <2>5. region[p].image.size \in Nat \ {0}
    BY <2>1, <2>2, NextIs
  <2> QED BY <2>1, <2>2, <2>3, <2>4, <2>5 DEF p
<1>5. \A j, k \in 1 .. Len(info) : j < k => info[j].at + info[j].size <= info[k].at
  BY <1>2, <1>3 DEF Lists
<1> QED BY <1>3, <1>4, <1>5

LEMMA UsedIs ==
  ASSUME region \in Region, info = Scan(region, rev), info # <<>>
  PROVE  /\ Used \in Nat /\ Behind(region, rev, 0, Used)
         /\ \A k \in 1 .. Len(info) : info[k].at + info[k].size <= Used
<1> DEFINE n == Len(info)
<1>1. info \in Seq(Entry) /\ n \in Nat /\ n # 0
  BY ListIs
<1>2. n \in 1 .. n
  BY <1>1
<1>3. info[n].at \in Nat /\ info[n].size \in Nat /\ Used = info[n].at + info[n].size
  <2>1. info[n].at \in 0 .. Size - 1 /\ info[n].size \in Nat \ {0}
    BY <1>2, ListIs
  <2> QED BY <2>1, SizeAssumption DEF Used
<1>4. Behind(region, rev, 0, Used)
  BY <1>3 DEF Behind, EndOfList, Scan
<1>5. ASSUME NEW k \in 1 .. n PROVE info[k].at + info[k].size <= Used
  <2>1. CASE k = n
    BY <1>3, <2>1
  <2>2. CASE k # n
    <3>1. k < n
      BY <1>1, <2>2
    <3>2. info[k].at + info[k].size <= info[n].at
      BY <1>2, <3>1, ListIs
    <3>3. info[k].at \in 0 .. Size - 1 /\ info[k].size \in Nat \ {0}
      BY ListIs
    <3> HIDE DEF n
    <3> QED BY SMTT(30), <1>3, <3>2, <3>3, SizeAssumption
  <2> QED BY <2>1, <2>2
<1> QED BY <1>3, <1>4, <1>5

LEMMA TargetIs ==
  ASSUME Known, index # NoIndex
  PROVE  /\ info # <<>> /\ index \in 1 .. Len(info) /\ TargetAt = info[index].at /\ TargetSize = info[index].size
         /\ IsSound(region, TargetAt) /\ TargetAt \in 0 .. Size - 1
         /\ Has(region, rev, 0, TargetAt)
         /\ TargetSize = region[TargetAt].image.size /\ TargetSize \in Nat \ {0}
         /\ TargetAt + TargetSize <= Size
         /\ TargetAt + TargetSize <= Used
<1>1. region \in Region /\ info = Scan(region, rev) /\ index \in InUse(info)
  BY DEF Known
<1>2. info \in Seq(Entry) /\ index \in 1 .. Len(info) /\ info[index].inUse
  BY <1>1, ListIs DEF InUse
<1>3. info # <<>>
  BY <1>2
<1>4. TargetAt = info[index].at /\ TargetSize = info[index].size
  BY DEF TargetAt, TargetSize
<1>5. /\ info[index].at \in 0 .. Size - 1 /\ Has(region, rev, 0, info[index].at)
      /\ info[index].size = region[info[index].at].image.size /\ info[index].size \in Nat \ {0}
      /\ IsInUse(region, info[index].at, rev)
  BY <1>1, <1>2, ListIs
<1>6. IsSound(region, TargetAt)
  BY <1>4, <1>5 DEF IsInUse
<1>7. TargetAt + TargetSize <= Size
  BY <1>4, <1>5, <1>6 DEF IsSound
<1>8. TargetAt + TargetSize <= Used
  BY <1>1, <1>2, <1>3, <1>4, UsedIs
<1> QED BY <1>2, <1>3, <1>4, <1>5, <1>6, <1>7, <1>8

LEMMA NextImageIs ==
  ASSUME Known, index # NoIndex
  PROVE  /\ HasNext => /\ index + 1 \in 1 .. Len(info) /\ info[index + 1].at \in 0 .. Size - 1
                       /\ TargetAt + TargetSize <= info[index + 1].at
                       /\ info[index + 1].at < Used
         /\ ~HasNext => Used = TargetAt + TargetSize
         /\ \A k \in 1 .. Len(info) :
              /\ k < index => info[k].at + info[k].size <= TargetAt
              /\ k > index => HasNext /\ info[index + 1].at <= info[k].at
         /\ Available \in Nat /\ TargetAt + Available <= Size /\ TargetSize <= Available
         /\ Available = IF HasNext THEN info[index + 1].at - TargetAt ELSE Size - TargetAt
<1> DEFINE n == Len(info)
           t == TargetAt
<1>1. region \in Region /\ info = Scan(region, rev) /\ n \in Nat
  BY ListIs DEF Known
<1>2. index \in 1 .. n /\ t = info[index].at /\ TargetSize = info[index].size /\ info # <<>>
      /\ t \in 0 .. Size - 1 /\ TargetSize \in Nat \ {0} /\ t + TargetSize <= Size
  BY TargetIs
<1>3. HasNext <=> index # n
  BY DEF HasNext
<1> HIDE DEF n, t
<1>4. index # n => index + 1 \in 1 .. n
  BY <1>1, <1>2
<1>5. HasNext => /\ info[index + 1].at \in 0 .. Size - 1 /\ info[index + 1].size \in Nat \ {0}
                 /\ t + TargetSize <= info[index + 1].at
  <2>1. ASSUME HasNext PROVE info[index + 1].at \in 0 .. Size - 1 /\ info[index + 1].size \in Nat \ {0}
    BY <1>1, <1>3, <1>4, <2>1, ListIs DEF n
  <2>2. ASSUME HasNext PROVE t + TargetSize <= info[index + 1].at
    <3>1. index < index + 1 /\ index \in 1 .. n /\ index + 1 \in 1 .. n
      BY <1>1, <1>2, <1>3, <1>4, <2>2
    <3>2. info[index].at + info[index].size <= info[index + 1].at
      BY <1>1, <3>1, ListIs DEF n
    <3> QED BY <1>2, <3>2
  <2> QED BY <2>1, <2>2
<1>6. HasNext => info[index + 1].at < Used
  <2>1. ASSUME HasNext PROVE info[index + 1].at < Used
    <3>1. info[index + 1].at + info[index + 1].size <= Used
      BY <1>1, <1>2, <1>3, <1>4, <2>1, UsedIs DEF n
    <3>2. Used \in Nat
      BY <1>1, <1>2, UsedIs
    <3> QED BY <1>5, <2>1, <3>1, <3>2
  <2> QED BY <2>1
<1>7. ~HasNext => Used = t + TargetSize
  BY <1>2, <1>3 DEF Used, n
<1>8. ASSUME NEW k \in 1 .. n
      PROVE  /\ k < index => info[k].at + info[k].size <= t
             /\ k > index => HasNext /\ info[index + 1].at <= info[k].at
  <2>1. ASSUME k < index PROVE info[k].at + info[k].size <= t
    BY <1>1, <1>2, <2>1, ListIs DEF n
  <2>2. ASSUME k > index PROVE HasNext /\ info[index + 1].at <= info[k].at
    <3>1. HasNext
      BY <1>1, <1>2, <1>3, <2>2
    <3>2. CASE k = index + 1
      <4>1. info[index + 1].at \in 0 .. Size - 1
        BY <1>5, <3>1
      <4> QED BY <3>1, <3>2, <4>1
    <3>3. CASE k # index + 1
      <4>1. index + 1 < k /\ index + 1 \in 1 .. n
        BY <1>1, <1>2, <2>2, <3>3
      <4>2. info[index + 1].at + info[index + 1].size <= info[k].at
        BY <1>1, <4>1, ListIs DEF n
      <4>3. info[k].at \in 0 .. Size - 1
        BY <1>1, ListIs DEF n
      <4> QED BY <1>5, <3>1, <4>2, <4>3
    <3> QED BY <3>2, <3>3
  <2> QED BY <2>1, <2>2
<1>9. Available = IF HasNext THEN info[index + 1].at - t ELSE Size - t
  BY DEF Available, t
<1>10. Available \in Nat /\ t + Available <= Size /\ TargetSize <= Available
  <2>1. Size \in Nat
    BY SizeAssumption
  <2> DEFINE x == info[index + 1].at
             y == TargetSize
  <2>4. t \in 0 .. Size - 1 /\ y \in Nat \ {0} /\ t + y <= Size
    BY <1>2
  <2>2. CASE HasNext
    <3>1. x \in 0 .. Size - 1 /\ t + y <= x /\ Available = x - t
      BY <1>5, <1>9, <2>2
    <3> HIDE DEF x, y
    <3>2. x - t \in Nat /\ t + (x - t) <= Size /\ y <= x - t
      BY <2>1, <2>4, <3>1
    <3> QED BY <3>1, <3>2 DEF y
  <2>3. CASE ~HasNext
    <3>1. Available = Size - t
      BY <1>9, <2>3
    <3> HIDE DEF y
    <3>2. Size - t \in Nat /\ t + (Size - t) <= Size /\ y <= Size - t
      BY <2>1, <2>4
    <3> QED BY <3>1, <3>2 DEF y
  <2> QED BY <2>2, <2>3
<1> QED BY <1>3, <1>4, <1>5, <1>6, <1>7, <1>8, <1>9, <1>10 DEF t, n

(* A sound image that is copied whole is sound.                            *)
LEMMA SoundMoves ==
  ASSUME NEW r \in Region, NEW s \in Region, NEW p \in 0 .. Size - 1, NEW q \in Nat, IsSound(r, p),
         q + r[p].image.size <= Size, \A k \in 0 .. r[p].image.size - 1 : s[q + k] = r[p + k]
  PROVE  IsSound(s, q) /\ s[q].image = r[p].image /\ q \in 0 .. Size - 1 /\ r[p].image \in SoundImages(s)
<1> DEFINE n == r[p].image.size
<1>1. HasHeader(r, p) /\ n \in Nat \ {0} /\ \A k \in 0 .. n - 1 : r[p + k] = [image |-> r[p].image, part |-> k]
  BY NextIs DEF IsSound
<1>2. 0 \in 0 .. n - 1 /\ q + 0 = q /\ p + 0 = p
  BY <1>1, SizeAssumption
<1>3. s[q] = r[p]
  BY <1>2
<1>4. q \in 0 .. Size - 1
  BY <1>1, SizeAssumption
<1>5. IsSound(s, q)
  <2>1. HasHeader(s, q)
    BY <1>1, <1>3 DEF HasHeader
  <2>2. s[q].image.size = n
    BY <1>3
  <2>3. \A k \in 0 .. n - 1 : s[q + k] = [image |-> s[q].image, part |-> k]
    BY <1>1, <1>3
  <2> QED BY <2>1, <2>2, <2>3 DEF IsSound
<1> QED BY <1>3, <1>4, <1>5 DEF SoundImages

(* What is sound stays so under what is written beside it.                 *)
LEMMA SoundBeside ==
  ASSUME NEW r \in Region, NEW at \in Nat, NEW s \in Seq(Cell), NEW n \in 0 .. Len(s),
         NEW p \in 0 .. Size - 1, IsSound(r, p),
         p + r[p].image.size <= at \/ at + n <= p
  PROVE  r[p].image \in SoundImages(Overlay(r, at, s, n))
<1> DEFINE m == r[p].image.size
           o == Overlay(r, at, s, n)
<1>1. m \in Nat \ {0} /\ p + m <= Size /\ Size \in Nat /\ n \in Nat
  <2>1. HasHeader(r, p) /\ p + m <= Size
    BY DEF IsSound
  <2>2. m \in Nat \ {0}
    BY <2>1, NextIs
  <2> QED BY <2>1, <2>2, SizeAssumption
<1>2. o \in Region
  BY OverlayIs
<1>3. ASSUME NEW k \in 0 .. m - 1 PROVE o[p + k] = r[p + k]
  <2>1. p + k \in 0 .. Size - 1 /\ ~(at <= p + k /\ p + k < at + n)
    <3> HIDE DEF m
    <3>1. p + m <= at \/ at + n <= p
      BY DEF m
    <3> QED BY <1>1, <3>1
  <2> QED BY <2>1, OverlayIs
<1> HIDE DEF o
<1> QED BY <1>1, <1>2, <1>3, SoundMoves DEF o

(* A region stays tidy under what is written at a place that no image      *)
(* before it reaches, if what is written is tidy in its new place.         *)
LEMMA TidyOverlay ==
  ASSUME NEW r \in Region, IsTidy(r), NEW at \in Nat, NEW s \in Seq(Cell), at + Len(s) <= Size,
         \A p \in 0 .. Size - 1 : p < at /\ HasHeader(r, p) => p + r[p].image.size <= at,
         \A k \in 1 .. Len(s) : IsHeader(s[k]) =>
           /\ at + k - 1 + s[k].image.size <= Size
           /\ \A q \in at + k .. at + k - 1 + s[k].image.size - 1 : ~HasHeader(Overlay(r, at, s, Len(s)), q)
  PROVE  IsTidy(Overlay(r, at, s, Len(s)))
<1> DEFINE n == Len(s)
           o == Overlay(r, at, s, n)
<1>1. n \in Nat /\ n \in 0 .. n /\ Size \in Nat
  BY SizeAssumption
<1>2. /\ o \in Region
      /\ \A p \in 0 .. Size - 1 : o[p] = IF at <= p /\ p < at + n THEN s[p - at + 1] ELSE r[p]
  BY <1>1, OverlayIs
<1>3. \A k \in 1 .. n : IsHeader(s[k]) =>
        /\ at + k - 1 + s[k].image.size <= Size
        /\ \A q \in at + k .. at + k - 1 + s[k].image.size - 1 : ~HasHeader(o, q)
  OBVIOUS
<1>4. at + n <= Size
  OBVIOUS
<1> HIDE DEF o, n
<1> SUFFICES ASSUME NEW p \in 0 .. Size - 1, HasHeader(o, p)
             PROVE  /\ p + o[p].image.size <= Size
                    /\ \A q \in p + 1 .. p + o[p].image.size - 1 : ~HasHeader(o, q)
  BY DEF IsTidy, o, n
<1> DEFINE m == o[p].image.size
<1>5. m \in Nat \ {0}
  BY <1>2, NextIs
<1>6. CASE at <= p /\ p < at + n
  <2> DEFINE k == p - at + 1
  <2>1. k \in 1 .. n /\ at + k - 1 = p /\ at + k = p + 1 /\ o[p] = s[k]
    BY <1>1, <1>2, <1>6
  <2>2. IsHeader(s[k])
    BY <2>1 DEF HasHeader, IsHeader
  <2> HIDE DEF k
  <2>3. /\ at + k - 1 + m <= Size
        /\ \A q \in at + k .. at + k - 1 + m - 1 : ~HasHeader(o, q)
    BY <1>3, <2>1, <2>2
  <2> QED BY <2>1, <2>3
<1>7. CASE ~(at <= p /\ p < at + n)
  <2>1. o[p] = r[p] /\ HasHeader(r, p)
    BY <1>2, <1>7 DEF HasHeader
  <2>2. p + m <= Size /\ \A q \in p + 1 .. p + m - 1 : ~HasHeader(r, q)
    BY <2>1 DEF IsTidy
  <2>3. p < at => p + m <= at
    BY <2>1
  <2> HIDE DEF m
  <2>4. ASSUME NEW q \in p + 1 .. p + m - 1 PROVE ~HasHeader(o, q)
    <3>1. q \in 0 .. Size - 1
      BY <1>1, <1>5, <2>2
    <3>2. ~(at <= q /\ q < at + n)
      <4>1. CASE p < at
        BY <1>5, <2>3, <4>1
      <4>2. CASE ~(p < at)
        BY <1>1, <1>7, <4>2
      <4> QED BY <4>1, <4>2
    <3>3. o[q] = r[q]
      BY <1>2, <3>1, <3>2
    <3> QED BY <2>2, <3>3 DEF HasHeader
  <2> QED BY <2>2, <2>4 DEF m
<1> QED BY <1>6, <1>7

(* What makes a plan good: it begins with the image, a scan of any region  *)
(* that keeps what is before it finds it, the images beside it are kept,   *)
(* and a tidy region stays tidy and is not left.                           *)
GoodPlan(r, c, p, i) ==
    /\ p.at \in Nat /\ p.cells \in Seq(Cell) /\ i.size <= Len(p.cells)
    /\ \A k \in 1 .. i.size : p.cells[k] = Cells(i)[k]
    /\ \A s \in Region : p.at < Size /\ SameBelow(r, s, p.at) /\ HasHeader(s, p.at) => Has(s, c, 0, p.at)
    /\ p.kind # "begin" /\ ~p.slips /\ p.at + Len(p.cells) <= Size =>
         p.others \subseteq SoundImages(Overlay(r, p.at, p.cells, Len(p.cells)))
    /\ IsTidy(r) => /\ p.at + Len(p.cells) <= Size
                    /\ IsTidy(Overlay(r, p.at, p.cells, Len(p.cells)))

LEMMA TidySeqOverlay ==
  ASSUME NEW r \in Region, IsTidy(r), NEW at \in Nat, NEW s, TidySeq(s), at + Len(s) <= Size,
         \A p \in 0 .. Size - 1 : p < at /\ HasHeader(r, p) => p + r[p].image.size <= at
  PROVE  IsTidy(Overlay(r, at, s, Len(s)))
<1> DEFINE n == Len(s)
<1>1. s \in Seq(Cell) /\ n \in Nat /\ n \in 0 .. n /\ Size \in Nat /\ \A k \in 1 .. n : s[k] \in Cell
  BY SizeAssumption DEF TidySeq
<1>2. ASSUME NEW k \in 1 .. n, IsHeader(s[k])
      PROVE  /\ at + k - 1 + s[k].image.size <= Size
             /\ \A q \in at + k .. at + k - 1 + s[k].image.size - 1 : ~HasHeader(Overlay(r, at, s, n), q)
  <2> DEFINE m == s[k].image.size
             o == Overlay(r, at, s, n)
  <2>1. m \in Nat \ {0} /\ k - 1 + m <= n /\ \A j \in k + 1 .. k - 1 + m : ~IsHeader(s[j])
    BY <1>1, <1>2, HeaderIs DEF TidySeq
  <2>2. \A p \in 0 .. Size - 1 : at <= p /\ p < at + n => o[p] = s[p - at + 1]
    BY <1>1, OverlayIs
  <2> HIDE DEF m, o, n
  <2>3. at + n <= Size
    BY DEF n
  <2>4. ASSUME NEW q \in at + k .. at + k - 1 + m - 1 PROVE ~HasHeader(o, q)
    <3>1. q \in 0 .. Size - 1 /\ at <= q /\ q < at + n /\ q - at + 1 \in k + 1 .. k - 1 + m
      BY <1>1, <2>1, <2>3
    <3>2. o[q] = s[q - at + 1] /\ ~IsHeader(s[q - at + 1])
      BY <2>1, <2>2, <3>1
    <3> QED BY <3>2 DEF HasHeader, IsHeader
  <2>5. at + k - 1 + m <= Size
    BY <1>1, <2>1, <2>3
  <2> QED BY <2>4, <2>5 DEF m, o, n
<1> QED BY <1>1, <1>2, TidyOverlay

(* No image of a tidy region reaches over the place of another.            *)
LEMMA TidyBefore ==
  ASSUME NEW r \in Region, IsTidy(r), NEW a \in 0 .. Size - 1, HasHeader(r, a)
  PROVE  \A p \in 0 .. Size - 1 : p < a /\ HasHeader(r, p) => p + r[p].image.size <= a
<1> SUFFICES ASSUME NEW p \in 0 .. Size - 1, p < a, HasHeader(r, p), ~(p + r[p].image.size <= a)
             PROVE  FALSE
  OBVIOUS
<1>1. r[p].image.size \in Nat \ {0}
  BY NextIs
<1>2. a \in p + 1 .. p + r[p].image.size - 1
  BY <1>1
<1> QED BY <1>2 DEF IsTidy

(* The other images are those of other entries, before or after the old.   *)
LEMMA OthersAre ==
  ASSUME NEW x \in Others
  PROVE  \E k \in DOMAIN info : k # index /\ IsSound(region, info[k].at) /\ x = region[info[k].at].image
BY DEF Others

LEMMA PlannedIs ==
  ASSUME NEW kind, NEW at, NEW cells
  PROVE  /\ Planned(kind, at, cells).at = at /\ Planned(kind, at, cells).cells = cells
         /\ Planned(kind, at, cells).done = 0 /\ Planned(kind, at, cells).ok
         /\ Planned(kind, at, cells).kind = kind /\ Planned(kind, at, cells).others = Others
         /\ ~Planned(kind, at, cells).slips /\ kind = "reorg" /\ HasNext =>
              info[index + 1].at = TargetAt + TargetSize
BY DEF Planned

LEMMA InSituIsGood ==
  ASSUME Known, NEW i \in Image, index # NoIndex, Available >= i.size
  PROVE  GoodPlan(region, rev, InSitu(i), i)
<1> DEFINE n == Available
           s == Cells(i) \o Blank(n - i.size)
           at == TargetAt
<1>1. region \in Region /\ info = Scan(region, rev) /\ Size \in Nat
  BY SizeAssumption DEF Known
<1>2. i.size \in Nat \ {0} /\ n \in Nat /\ n - i.size \in Nat /\ at + n <= Size
  BY CellsAre, NextImageIs
<1>3. at \in 0 .. Size - 1 /\ IsSound(region, at) /\ Has(region, rev, 0, at) /\ HasHeader(region, at) /\ at \in Nat
  BY TargetIs DEF IsSound
<1>4. TidySeq(Cells(i)) /\ TidySeq(Blank(n - i.size)) /\ Len(Cells(i)) = i.size /\ Len(Blank(n - i.size)) = n - i.size
  BY <1>2, CellsAre, BlankIs
<1>5. TidySeq(s) /\ Len(s) = n /\ \A k \in 1 .. i.size : s[k] = Cells(i)[k]
  BY <1>2, <1>4, TidyConcat
<1> HIDE DEF s, at, n
<1>7. s \in Seq(Cell) /\ n \in 0 .. Len(s)
  BY <1>2, <1>5 DEF TidySeq
<1>8. \A t \in Region : at < Size /\ SameBelow(region, t, at) /\ HasHeader(t, at) => Has(t, rev, 0, at)
  BY <1>1, <1>3, HasAgain
<1>9. ASSUME NEW x \in Others PROVE x \in SoundImages(Overlay(region, at, s, n))
  <2>1. PICK k \in DOMAIN info : k # index /\ IsSound(region, info[k].at) /\ x = region[info[k].at].image
    BY OthersAre
  <2>2. /\ k \in 1 .. Len(info) /\ Len(info) \in Nat /\ info[k].at \in 0 .. Size - 1
        /\ info[k].size = region[info[k].at].image.size
    BY <1>1, ListIs
  <2>3. index \in 1 .. Len(info)
    BY TargetIs
  <2>4. k < index => info[k].at + info[k].size <= at
    BY <2>2, NextImageIs DEF at
  <2>5. k > index => at + n <= info[k].at
    <3>1. ASSUME k > index PROVE HasNext /\ info[index + 1].at <= info[k].at /\ n = info[index + 1].at - at /\ info[index + 1].at \in Nat
      BY <2>2, <3>1, NextImageIs DEF at, n
    <3> QED BY <1>3, <2>2, <3>1
  <2>6. info[k].at + region[info[k].at].image.size <= at \/ at + n <= info[k].at
    BY <2>1, <2>2, <2>3, <2>4, <2>5
  <2> QED BY <1>1, <1>3, <1>7, <2>1, <2>2, <2>6, SoundBeside
<1>10. IsTidy(region) => IsTidy(Overlay(region, at, s, n))
  BY <1>1, <1>2, <1>3, <1>5, TidyBefore, TidySeqOverlay
<1>11. InSitu(i).at = at /\ InSitu(i).cells = s /\ InSitu(i).others = Others
  <2>1. InSitu(i) = Planned("place", at, s)
    BY DEF InSitu, s, at, n
  <2>2. InSitu(i).at = at
    BY <2>1, PlannedIs
  <2>3. InSitu(i).cells = s
    BY <2>1, PlannedIs
  <2>4. InSitu(i).others = Others
    BY <2>1, PlannedIs
  <2> QED BY <2>2, <2>3, <2>4
<1> QED BY <1>2, <1>3, <1>5, <1>7, <1>8, <1>9, <1>10, <1>11 DEF GoodPlan

(* In a tidy region the scan finds every image, and none reaches beyond    *)
(* the region: what is used is within it.                                  *)
LEMMA TidyEnds ==
  ASSUME Known, info # <<>>, IsTidy(region)
  PROVE  /\ Used <= Size
         /\ \A p \in 0 .. Size - 1 : HasHeader(region, p) => p + region[p].image.size <= Used
<1>1. region \in Region /\ info = Scan(region, rev) /\ Size \in Nat
  BY SizeAssumption DEF Known
<1>2. /\ Used \in Nat
      /\ \A k \in 1 .. Len(info) : info[k].at + info[k].size <= Used
  BY <1>1, UsedIs
<1>3. ASSUME NEW p \in 0 .. Size - 1, HasHeader(region, p) PROVE p + region[p].image.size <= Used
  <2>1. Has(region, rev, 0, p)
    BY <1>1, <1>3, TidyIsListed
  <2>2. \E k \in DOMAIN info : info[k].at = p
    BY <1>1, <2>1, SizeAssumption DEF Has, Scan
  <2> QED BY <1>1, <1>2, <2>2, ListIs
<1>4. Used <= Size
  <2>1. Len(info) \in 1 .. Len(info)
    <3>1. info \in Seq(Entry)
      BY <1>1, ListIs
    <3> QED BY <3>1, EmptySeq
  <2>2. /\ info[Len(info)].at \in 0 .. Size - 1 /\ HasHeader(region, info[Len(info)].at)
        /\ info[Len(info)].size = region[info[Len(info)].at].image.size
    BY <1>1, <2>1, ListIs
  <2>3. Used = info[Len(info)].at + info[Len(info)].size
    BY DEF Used
  <2> QED BY <2>2, <2>3 DEF IsTidy
<1> QED BY <1>3, <1>4

LEMMA AtTheEndIsGood ==
  ASSUME Known, info # <<>>, NEW i \in Image, index = NoIndex, FitsTheRest(i)
  PROVE  GoodPlan(region, rev, AtTheEnd(i), i)
<1> DEFINE at == Used
           s == Cells(i)
           n == Len(s)
<1>1. region \in Region /\ info = Scan(region, rev) /\ Size \in Nat
  BY SizeAssumption DEF Known
<1>2. TidySeq(s) /\ n = i.size /\ n \in Nat \ {0} /\ s \in Seq(Cell) /\ n \in 0 .. n
  BY CellsAre
<1>3. /\ at \in Nat /\ Behind(region, rev, 0, at)
      /\ \A k \in 1 .. Len(info) : info[k].at + info[k].size <= at
  BY <1>1, UsedIs
<1>4. AtTheEnd(i).at = at /\ AtTheEnd(i).cells = s /\ AtTheEnd(i).others = Others
  BY PlannedIs DEF AtTheEnd
<1>5. at > Size \/ Size - at >= n
  <2>1. TargetSize = 0
    BY DEF TargetSize
  <2> QED BY <1>2, <1>3, <2>1 DEF FitsTheRest
<1> HIDE DEF s, at, n
<1>6. \A t \in Region : at < Size /\ SameBelow(region, t, at) /\ HasHeader(t, at) => Has(t, rev, 0, at)
  <2>1. at < Size => at \in 0 .. Size - 1
    BY <1>1, <1>3
  <2> QED BY <1>1, <1>3, <2>1, HasBehind
<1>7. ASSUME NEW x \in Others PROVE x \in SoundImages(Overlay(region, at, s, n))
  <2>1. PICK k \in DOMAIN info : k # index /\ IsSound(region, info[k].at) /\ x = region[info[k].at].image
    BY OthersAre
  <2>2. /\ k \in 1 .. Len(info) /\ info[k].at \in 0 .. Size - 1
        /\ info[k].size = region[info[k].at].image.size
    BY <1>1, ListIs
  <2>3. info[k].at + region[info[k].at].image.size <= at
    BY <1>3, <2>2
  <2>4. n \in 0 .. Len(s)
    BY <1>2 DEF n
  <2> QED BY <1>1, <1>2, <1>3, <2>1, <2>2, <2>3, <2>4, SoundBeside
<1>8. ASSUME IsTidy(region) PROVE at + n <= Size /\ IsTidy(Overlay(region, at, s, n))
  <2>1. at <= Size /\ \A p \in 0 .. Size - 1 : HasHeader(region, p) => p + region[p].image.size <= at
    BY <1>8, TidyEnds DEF at
  <2>3. at + n <= Size
    BY <1>1, <1>2, <1>3, <1>5, <2>1
  <2>4. IsTidy(Overlay(region, at, s, Len(s)))
    BY <1>1, <1>2, <1>3, <1>8, <2>1, <2>3, TidySeqOverlay DEF n
  <2> QED BY <2>3, <2>4 DEF n
<1>9. \A k \in 1 .. i.size : s[k] = Cells(i)[k]
  BY DEF s
<1> QED BY <1>2, <1>3, <1>4, <1>6, <1>7, <1>8, <1>9 DEF GoodPlan, n

LEMMA PartIs ==
  ASSUME region \in Region, NEW from \in Nat, NEW n \in Nat
  PROVE  /\ Part(from, n) \in Seq(Cell) /\ Len(Part(from, n)) = n
         /\ \A k \in 1 .. n : from + k - 1 < Size => Part(from, n)[k] = region[from + k - 1]
         /\ \A k \in 1 .. n : ~(from + k - 1 < Size) => Part(from, n)[k] = ErasedCell
<1>1. ErasedCell \in Cell /\ Size \in Nat
  BY SizeAssumption DEF Cell
<1>2. ASSUME NEW k \in 1 .. n
      PROVE  (IF from + k - 1 < Size THEN region[from + k - 1] ELSE ErasedCell) \in Cell
  <2>1. CASE from + k - 1 < Size
    <3>1. from + k - 1 \in 0 .. Size - 1
      BY <1>1, <2>1
    <3>2. region[from + k - 1] \in Cell
      BY <3>1 DEF Region
    <3> QED BY <2>1, <3>2
  <2> QED BY <1>1, <2>1
<1>3. Part(from, n) \in [1 .. n -> Cell]
  BY <1>2 DEF Part
<1>4. Part(from, n) \in Seq(Cell) /\ Len(Part(from, n)) = n
  BY <1>3
<1>5. \A k \in 1 .. n : Part(from, n)[k] = IF from + k - 1 < Size THEN region[from + k - 1] ELSE ErasedCell
  BY DEF Part
<1> QED BY <1>4, <1>5

(* Where a reorganisation puts the image and what follows it.              *)
After == TargetAt + TargetSize
Moved == IF HasNext THEN Part(After, Used - info[index + 1].at) ELSE <<>>
LEMMA ReorgIs ==
  ASSUME Known, NEW i \in Image, index # NoIndex
  PROVE  /\ Reorg(i).at = TargetAt /\ Reorg(i).cells = Cells(i) \o Moved /\ Reorg(i).others = Others
         /\ ~Reorg(i).slips /\ HasNext => info[index + 1].at = After
         /\ After \in Nat /\ Used \in Nat /\ After <= Size /\ After <= Used /\ TargetAt < After
         /\ Moved \in Seq(Cell) /\ Len(Moved) \in Nat
         /\ HasNext => Len(Moved) = Used - info[index + 1].at
         /\ ~HasNext => Len(Moved) = 0
         /\ After + Len(Moved) <= Used
         /\ \A k \in 1 .. Len(Moved) : After + k - 1 < Size => Moved[k] = region[After + k - 1]
         /\ \A k \in 1 .. Len(Moved) : ~(After + k - 1 < Size) => Moved[k] = ErasedCell
<1>1. region \in Region /\ info = Scan(region, rev) /\ Size \in Nat
  BY SizeAssumption DEF Known
<1>2. TargetAt \in 0 .. Size - 1 /\ TargetSize \in Nat \ {0} /\ info # <<>>
  BY TargetIs
<1>2a. TargetAt + TargetSize <= Size /\ TargetAt + TargetSize <= Used
  BY TargetIs
<1>3. Used \in Nat
  BY <1>1, <1>2, UsedIs
<1>4. After \in Nat /\ After <= Size /\ After <= Used /\ TargetAt < After
  BY <1>1, <1>2, <1>2a DEF After
<1>5. Reorg(i) = Planned("reorg", TargetAt, Cells(i) \o Moved)
  BY DEF Reorg, Moved, After
<1>6. Reorg(i).at = TargetAt
  BY <1>5, PlannedIs
<1>6a. Reorg(i).cells = Cells(i) \o Moved
  <2> DEFINE s == Cells(i) \o Moved
  <2>1. Reorg(i) = Planned("reorg", TargetAt, s)
    BY <1>5
  <2> HIDE DEF s
  <2>2. Reorg(i).cells = s
    BY <2>1, PlannedIs
  <2> QED BY <2>2 DEF s
<1>7. Reorg(i).others = Others
  BY <1>5, PlannedIs
<1>8. ~Reorg(i).slips /\ HasNext => info[index + 1].at = After
  BY <1>5, PlannedIs DEF After
<1>9. CASE HasNext
  <2> DEFINE n == Used - info[index + 1].at
  <2>1. info[index + 1].at \in Nat /\ After <= info[index + 1].at /\ info[index + 1].at < Used
    BY <1>9, NextImageIs DEF After
  <2>2. n \in Nat /\ After + n <= Used
    BY <1>3, <1>4, <2>1
  <2>3. Moved = Part(After, n)
    BY <1>9 DEF Moved
  <2> HIDE DEF n
  <2>4. /\ Moved \in Seq(Cell) /\ Len(Moved) = n
        /\ \A k \in 1 .. n : After + k - 1 < Size => Moved[k] = region[After + k - 1]
        /\ \A k \in 1 .. n : ~(After + k - 1 < Size) => Moved[k] = ErasedCell
    BY <1>1, <1>4, <2>2, <2>3, PartIs
  <2> QED BY <1>3, <1>4, <1>6, <1>6a, <1>7, <1>8, <1>9, <2>2, <2>4 DEF n
<1>10. CASE ~HasNext
  <2>1. Moved = <<>> /\ Moved \in Seq(Cell) /\ Len(Moved) = 0
    BY <1>10 DEF Moved
  <2> QED BY <1>3, <1>4, <1>6, <1>6a, <1>7, <1>8, <1>10, <2>1
<1> QED BY <1>9, <1>10

LEMMA ReorgCells ==
  ASSUME Known, NEW i \in Image, index # NoIndex
  PROVE  LET s == Cells(i) \o Moved
         IN  /\ s \in Seq(Cell) /\ Len(s) = i.size + Len(Moved) /\ Len(s) \in 0 .. Len(s)
             /\ \A k \in 1 .. i.size : s[k] = Cells(i)[k]
             /\ \A k \in i.size + 1 .. Len(s) :
                  /\ After + (k - i.size) - 1 < Size => s[k] = region[After + (k - i.size) - 1]
                  /\ ~(After + (k - i.size) - 1 < Size) => s[k] = ErasedCell
<1> DEFINE c == Cells(i)
           m == Moved
           s == c \o m
<1>1. c \in Seq(Cell) /\ Len(c) = i.size /\ i.size \in Nat
  BY CellsAre
<1>2. /\ Moved \in Seq(Cell) /\ Len(Moved) \in Nat /\ After \in Nat
      /\ \A k \in 1 .. Len(Moved) : After + k - 1 < Size => Moved[k] = region[After + k - 1]
      /\ \A k \in 1 .. Len(Moved) : ~(After + k - 1 < Size) => Moved[k] = ErasedCell
  BY ReorgIs
<1> HIDE DEF c, m
<1>2a. m \in Seq(Cell) /\ Len(m) \in Nat
  BY <1>2 DEF m
<1>3. /\ s \in Seq(Cell) /\ Len(s) = Len(c) + Len(m)
      /\ \A k \in 1 .. Len(s) : s[k] = IF k <= Len(c) THEN c[k] ELSE m[k - Len(c)]
  BY <1>1, <1>2a, ConcatProperties
<1> HIDE DEF s
<1>4. \A k \in i.size + 1 .. Len(s) : s[k] = m[k - i.size] /\ k - i.size \in 1 .. Len(m)
  BY SMTT(30), <1>1, <1>2a, <1>3
<1>5. \A k \in 1 .. i.size : s[k] = c[k]
  BY <1>1, <1>2a, <1>3
<1>6. Len(s) \in 0 .. Len(s)
  BY <1>1, <1>2a, <1>3
<1> QED BY <1>1, <1>2, <1>3, <1>4, <1>5, <1>6 DEF s, c, m

LEMMA ReorgKeeps ==
  ASSUME Known, NEW i \in Image, index # NoIndex, ~Reorg(i).slips,
         TargetAt + Len(Cells(i) \o Moved) <= Size
  PROVE  Others \subseteq SoundImages(Overlay(region, TargetAt, Cells(i) \o Moved, Len(Cells(i) \o Moved)))
<1> DEFINE at == TargetAt
           s == Cells(i) \o Moved
           n == Len(s)
           o == Overlay(region, at, s, n)
<1>1. region \in Region /\ info = Scan(region, rev) /\ Size \in Nat /\ i.size \in Nat \ {0}
  BY SizeAssumption, CellsAre DEF Known
<1>2. at \in 0 .. Size - 1 /\ at \in Nat /\ index \in 1 .. Len(info)
  BY TargetIs
<1>3. /\ s \in Seq(Cell) /\ n = i.size + Len(Moved) /\ n \in 0 .. n
      /\ \A k \in i.size + 1 .. n : After + (k - i.size) - 1 < Size => s[k] = region[After + (k - i.size) - 1]
  BY ReorgCells
<1>4. /\ After \in Nat /\ Used \in Nat /\ Len(Moved) \in Nat /\ After = TargetAt + TargetSize
      /\ HasNext => info[index + 1].at = After
      /\ HasNext => Len(Moved) = Used - info[index + 1].at
  BY ReorgIs DEF After
<1>5. at + n <= Size
  OBVIOUS
<1> SUFFICES ASSUME NEW x \in Others PROVE x \in SoundImages(o)
  OBVIOUS
<1>6. PICK k \in DOMAIN info : k # index /\ IsSound(region, info[k].at) /\ x = region[info[k].at].image
  BY OthersAre
<1> DEFINE a == info[k].at
           m == region[a].image.size
<1>7. /\ k \in 1 .. Len(info) /\ Len(info) \in Nat /\ a \in 0 .. Size - 1 /\ info[k].size = m /\ m \in Nat \ {0}
  BY <1>1, ListIs
<1>8. a + m <= Used
  BY <1>1, <1>7, UsedIs, TargetIs
<1>9. CASE k < index
  <2>1. a + m <= at
    BY <1>7, <1>9, NextImageIs
  <2> QED BY <1>1, <1>2, <1>3, <1>6, <1>7, <2>1, SoundBeside
<1>10. CASE k > index
  <2>1. HasNext /\ info[index + 1].at <= a
    BY <1>7, <1>10, NextImageIs
  <2>2. After <= a /\ n = i.size + (Used - After)
    BY <1>3, <1>4, <2>1
  <2>3. o \in Region /\ \A j \in 1 .. n : at + j - 1 < Size => o[at + j - 1] = s[j]
    BY ZenonT(40), <1>1, <1>2, <1>3, OverlayIs
  <2>4. IsSound(region, a) /\ a + m <= Size
    BY <1>6 DEF IsSound
  <2> HIDE DEF a, m, o, n, s, at
  <2> DEFINE z == i.size
  <2>a. /\ at \in Nat /\ z \in Nat \ {0} /\ a \in Nat /\ After \in Nat /\ m \in Nat \ {0} /\ n \in Nat /\ Used \in Nat /\ Size \in Nat
        /\ After <= a /\ n = z + (Used - After) /\ a + m <= Used /\ at + n <= Size /\ a + m <= Size
    BY <1>1, <1>2, <1>3, <1>4, <1>5, <1>7, <1>8, <2>2, <2>4
  <2> HIDE DEF z
  <2> DEFINE q == at + z + (a - After)
  <2>5. q \in Nat /\ q + m <= Size
    BY <2>a
  <2>6. ASSUME NEW j \in 0 .. m - 1 PROVE o[q + j] = region[a + j]
    <3> DEFINE h == z + (a - After) + j + 1
    <3>1. h \in z + 1 .. n /\ h \in 1 .. n /\ at + h - 1 = q + j /\ After + (h - z) - 1 = a + j /\ a + j < Size
          /\ q + j < Size
      BY <2>a
    <3> HIDE DEF h, q
    <3>2. o[at + h - 1] = s[h]
      BY <2>3, <3>1
    <3>3. s[h] = region[After + (h - z) - 1]
      BY <1>3, <3>1 DEF n, z
    <3> QED BY <3>1, <3>2, <3>3
  <2> HIDE DEF q
  <2>7. region[a].image \in SoundImages(o)
    BY <1>1, <1>7, <2>3, <2>4, <2>5, <2>6, SoundMoves DEF m
  <2> QED BY <1>6, <2>7 DEF a
<1> QED BY <1>2, <1>6, <1>7, <1>9, <1>10
LEMMA ReorgFits ==
  ASSUME Known, NEW i \in Image, index # NoIndex, ~(Available >= i.size), FitsTheRest(i), IsTidy(region)
  PROVE  /\ Used + i.size - TargetSize <= Size
         /\ TargetAt + Len(Cells(i) \o Moved) <= Size
         /\ Used < TargetAt + Len(Cells(i) \o Moved)
<1> DEFINE z == i.size
           l == Len(Moved)
           nx == info[index + 1].at
<1>1. z \in Nat \ {0} /\ Size \in Nat /\ info # <<>>
  BY SizeAssumption, CellsAre, TargetIs
<1>2. Used \in Nat /\ Used <= Size
  BY <1>1, ReorgIs, TidyEnds
<1>3. TargetAt \in Nat /\ TargetSize \in Nat /\ l \in Nat /\ TargetAt + TargetSize <= Used
  BY TargetIs, ReorgIs
<1>4. /\ HasNext => nx \in Nat /\ TargetAt + TargetSize <= nx /\ nx < Used
      /\ ~HasNext => Used = TargetAt + TargetSize
      /\ Available = IF HasNext THEN nx - TargetAt ELSE Size - TargetAt
  BY NextImageIs
<1>5. /\ HasNext => l = Used - nx
      /\ Len(Cells(i) \o Moved) = z + l
  BY ReorgIs, ReorgCells
<1>6. ~(Available >= z) /\ (Used - TargetSize > Size \/ Size - (Used - TargetSize) >= z)
  BY DEF FitsTheRest
<1> HIDE DEF z, l, nx
<1>7. Used - TargetSize + z <= Size
  BY <1>1, <1>2, <1>3, <1>6
<1>8. HasNext
  <2>1. SUFFICES ASSUME ~HasNext PROVE FALSE
    OBVIOUS
  <2> QED BY <1>1, <1>2, <1>3, <1>4, <1>6, <1>7, <2>1
<1>9. Len(Cells(i) \o Moved) = z + (Used - nx) /\ nx \in Nat /\ TargetAt + TargetSize <= nx /\ nx < Used /\ nx - TargetAt < z
  BY <1>1, <1>3, <1>4, <1>5, <1>6, <1>8
<1>10. /\ TargetAt + Len(Cells(i) \o Moved) <= Size
       /\ Used < TargetAt + Len(Cells(i) \o Moved)
  BY <1>1, <1>2, <1>3, <1>7, <1>9
<1>11. Used + z - TargetSize <= Size
  BY <1>1, <1>2, <1>3, <1>7
<1> QED BY <1>10, <1>11 DEF z

LEMMA ReorgStaysTidy ==
  ASSUME Known, NEW i \in Image, index # NoIndex, ~(Available >= i.size), FitsTheRest(i), IsTidy(region)
  PROVE  /\ TargetAt + Len(Cells(i) \o Moved) <= Size
         /\ IsTidy(Overlay(region, TargetAt, Cells(i) \o Moved, Len(Cells(i) \o Moved)))
<1> DEFINE at == TargetAt
           s == Cells(i) \o Moved
           n == Len(s)
           o == Overlay(region, at, s, n)
           z == i.size
           t == TargetSize
<1>1. region \in Region /\ Size \in Nat /\ z \in Nat \ {0} /\ info # <<>>
  BY SizeAssumption, CellsAre, TargetIs DEF Known
<1>2. at \in 0 .. Size - 1 /\ at \in Nat /\ HasHeader(region, at) /\ t \in Nat
  BY TargetIs DEF IsSound
<1>3. /\ s \in Seq(Cell) /\ n \in Nat /\ n \in 0 .. n
      /\ \A k \in 1 .. z : s[k] = Cells(i)[k]
      /\ \A k \in z + 1 .. n : After + (k - z) - 1 < Size => s[k] = region[After + (k - z) - 1]
      /\ \A k \in z + 1 .. n : ~(After + (k - z) - 1 < Size) => s[k] = ErasedCell
  <2>1. s \in Seq(Cell) /\ n \in Nat /\ n \in 0 .. n
    BY ReorgCells
  <2>2. \A k \in 1 .. z : s[k] = Cells(i)[k]
    BY ReorgCells
  <2>3. \A k \in z + 1 .. n : After + (k - z) - 1 < Size => s[k] = region[After + (k - z) - 1]
    BY ReorgCells
  <2>4. \A k \in z + 1 .. n : ~(After + (k - z) - 1 < Size) => s[k] = ErasedCell
    BY ReorgCells
  <2> QED BY <2>1, <2>2, <2>3, <2>4
<1>4. After \in Nat /\ Used \in Nat /\ After = at + t
  BY ReorgIs DEF After
<1>5. Used + z - t <= Size /\ at + n <= Size /\ Used < at + n
  BY ReorgFits
<1>6. /\ Used <= Size
      /\ \A p \in 0 .. Size - 1 : HasHeader(region, p) => p + region[p].image.size <= Used
  BY <1>1, TidyEnds
<1>7. n = z + Len(Moved) /\ Len(Moved) \in Nat
  BY ReorgCells, ReorgIs
<1>8. /\ o \in Region
      /\ \A p \in 0 .. Size - 1 : o[p] = IF at <= p /\ p < at + n THEN s[p - at + 1] ELSE region[p]
  BY ZenonT(40), <1>1, <1>2, <1>3, OverlayIs
<1>9. /\ \A k \in 1 .. z : Cells(i)[k] = [image |-> i, part |-> k - 1] /\ (IsHeader(Cells(i)[k]) <=> k = 1)
  BY CellsAre
<1> HIDE DEF at, s, n, o
<1>10. ASSUME NEW k \in 1 .. n, IsHeader(s[k])
       PROVE  /\ at + k - 1 + s[k].image.size <= Size
              /\ \A q \in at + k .. at + k - 1 + s[k].image.size - 1 : ~HasHeader(o, q)
  <2>1. CASE k <= z
    <3>1. k \in 1 .. z
      BY <1>1, <2>1
    <3>1a. s[k] = [image |-> i, part |-> k - 1] /\ (IsHeader(s[k]) <=> k = 1)
      BY <1>3, <1>9, <3>1
    <3>2. k = 1 /\ s[k].image = i
      BY <1>10, <3>1a
    <3>3. s[k].image.size = z
      BY <3>2
    <3> HIDE DEF z
    <3>4. z <= n
      BY <1>1, <1>3, <1>7
    <3>5. ASSUME NEW q \in at + k .. at + k - 1 + z - 1 PROVE ~HasHeader(o, q)
      <4>1. q \in 0 .. Size - 1 /\ at <= q /\ q < at + n /\ q - at + 1 \in 1 .. z /\ q - at + 1 # 1
        BY <1>1, <1>2, <1>3, <1>5, <3>2, <3>4
      <4>2. o[q] = s[q - at + 1] /\ ~IsHeader(s[q - at + 1])
        BY <1>3, <1>8, <1>9, <4>1 DEF z
      <4> QED BY <4>2 DEF HasHeader, IsHeader
    <3>6. at + k - 1 + z <= Size
      BY <1>1, <1>2, <1>3, <1>5, <3>2, <3>4
    <3> QED BY <3>3, <3>5, <3>6
  <2>2. CASE ~(k <= z)
    <3> DEFINE h == After + (k - z) - 1
               m == s[k].image.size
    <3>1. k \in z + 1 .. n
      BY <1>1, <1>3, <2>2
    <3>2. h < Size /\ s[k] = region[h]
      BY <1>3, <1>10, <3>1 DEF IsHeader
    <3>3. h \in 0 .. Size - 1
      <4> HIDE DEF z
      <4> QED BY <1>1, <1>3, <1>4, <3>1, <3>2
    <3>4. HasHeader(region, h) /\ m = region[h].image.size
      BY <1>10, <3>2 DEF HasHeader, IsHeader
    <3>5. m \in Nat \ {0} /\ h + m <= Used /\ \A q \in h + 1 .. h + m - 1 : ~HasHeader(region, q)
      BY <1>1, <1>6, <3>3, <3>4, NextIs DEF IsTidy

    <3> HIDE DEF z, m, h
    <3>6. h = After + (k - z) - 1
      BY DEF h

    <3>6a. /\ at \in Nat /\ z \in Nat /\ t \in Nat /\ m \in Nat /\ k \in Nat /\ h \in Nat /\ Used \in Nat /\ Size \in Nat
           /\ h = at + t + (k - z) - 1 /\ h + m <= Used /\ Used + z - t <= Size
      BY <1>1, <1>2, <1>3, <1>4, <1>5, <3>3, <3>5, <3>6
    <3> HIDE DEF t
    <3>7. at + k - 1 + m <= Size
      BY <3>6a
    <3>8. ASSUME NEW q \in at + k .. at + k - 1 + m - 1 PROVE ~HasHeader(o, q)
      <4>1. q \in 0 .. Size - 1
        BY <1>1, <1>2, <1>3, <3>5, <3>7
      <4>2. CASE q < at + n
        <5> DEFINE j == q - at + 1
        <5>1. at <= q /\ j \in z + 1 .. n /\ After + (j - z) - 1 \in h + 1 .. h + m - 1 /\ After + (j - z) - 1 < Size
          BY <1>1, <1>2, <1>3, <1>4, <1>6, <2>2, <3>5, <3>6, <4>1, <4>2
        <5> HIDE DEF j
        <5>2. o[q] = s[j]
          BY <1>8, <4>1, <4>2, <5>1 DEF j
        <5>3. s[j] = region[After + (j - z) - 1] /\ ~HasHeader(region, After + (j - z) - 1)
          BY <1>3, <3>5, <5>1 DEF z
        <5> QED BY <5>2, <5>3 DEF HasHeader
      <4>3. CASE ~(q < at + n)
        <5>1. o[q] = region[q]
          BY <1>8, <4>1, <4>3
        <5>2. ASSUME HasHeader(region, q) PROVE FALSE
          <6>1. q + region[q].image.size <= Used /\ region[q].image.size \in Nat
            BY <1>1, <1>6, <4>1, <5>2, NextIs
          <6> QED BY <1>2, <1>3, <1>4, <1>5, <4>1, <4>3, <6>1
        <5> QED BY <5>1, <5>2 DEF HasHeader
      <4> QED BY <4>2, <4>3
    <3> QED BY <3>7, <3>8 DEF m
  <2> QED BY <2>1, <2>2
<1>11. \A p \in 0 .. Size - 1 : p < at /\ HasHeader(region, p) => p + region[p].image.size <= at
  BY <1>1, <1>2, TidyBefore
<1>12. IsTidy(Overlay(region, at, s, Len(s)))
  <2>1. \A k \in 1 .. Len(s) : IsHeader(s[k]) =>
           /\ at + k - 1 + s[k].image.size <= Size
           /\ \A q \in at + k .. at + k - 1 + s[k].image.size - 1 : ~HasHeader(Overlay(region, at, s, Len(s)), q)
    BY <1>10 DEF n, o
  <2>2. at + Len(s) <= Size
    BY <1>5 DEF n
  <2> QED BY <1>1, <1>2, <1>3, <1>11, <2>1, <2>2, TidyOverlay
<1> QED BY <1>5, <1>12 DEF at, s, n

LEMMA ReorgIsGood ==
  ASSUME Known, NEW i \in Image, index # NoIndex, ~(Available >= i.size), FitsTheRest(i)
  PROVE  GoodPlan(region, rev, Reorg(i), i)
<1> DEFINE s == Cells(i) \o Moved
           n == Len(s)
           at == TargetAt
<1>1. region \in Region /\ i.size \in Nat
  BY CellsAre DEF Known
<1>2. at \in 0 .. Size - 1 /\ at \in Nat /\ Has(region, rev, 0, at)
  BY TargetIs
<1>3. Reorg(i).at = at /\ Reorg(i).cells = s /\ Reorg(i).others = Others
  BY ReorgIs
<1>4. s \in Seq(Cell) /\ i.size <= n /\ \A k \in 1 .. i.size : s[k] = Cells(i)[k]
  <2>1. s \in Seq(Cell) /\ n = i.size + Len(Moved) /\ \A k \in 1 .. i.size : s[k] = Cells(i)[k]
    BY ReorgCells
  <2>2. Len(Moved) \in Nat
    BY ReorgIs
  <2> QED BY <1>1, <2>1, <2>2
<1>5. \A t \in Region : at < Size /\ SameBelow(region, t, at) /\ HasHeader(t, at) => Has(t, rev, 0, at)
  BY <1>1, <1>2, HasAgain
<1>6. ~Reorg(i).slips /\ at + n <= Size => Others \subseteq SoundImages(Overlay(region, at, s, n))
  BY ReorgKeeps
<1>7. IsTidy(region) => at + n <= Size /\ IsTidy(Overlay(region, at, s, n))
  BY ReorgStaysTidy
<1> HIDE DEF s, at
<1> QED BY <1>2, <1>3, <1>4, <1>5, <1>6, <1>7 DEF GoodPlan
(* What is kept from the beginning is the image and whole images after it. *)
LEMMA KeptExists ==
  ASSUME NEW i, NEW n \in Nat
  PROVE  \E f : f = [k \in 0 .. n |-> IF k = 0 THEN Cells(i) ELSE WithKept(info[k], f[k - 1])]
<1> DEFINE Is(m, f) == f = [k \in 0 .. m |-> IF k = 0 THEN Cells(i) ELSE WithKept(info[k], f[k - 1])]
           S == {m \in 0 .. n : ~\E f : Is(m, f)}
<1>1. SUFFICES ASSUME S # {} PROVE FALSE
  <2>1. n \in 0 .. n
    OBVIOUS
  <2> QED BY <2>1
<1>2. S \subseteq Nat /\ S \subseteq 0 .. n
  OBVIOUS
<1>3. PICK m \in S : \A x \in S : m <= x
  <2> HIDE DEF S
  <2> QED BY <1>1, <1>2, Least
<1>4. m # 0
  <2> DEFINE f == [k \in 0 .. 0 |-> Cells(i)]
  <2>1. f = [k \in 0 .. 0 |-> IF k = 0 THEN Cells(i) ELSE WithKept(info[k], f[k - 1])]
    OBVIOUS
  <2> HIDE DEF f
  <2>2. \E g : Is(0, g)
    BY <2>1
  <2> HIDE DEF Is
  <2> QED BY <1>3, <2>2
<1>5. m \in 1 .. n /\ m - 1 \in 0 .. n /\ m - 1 < m
  <2> HIDE DEF S
  <2> QED BY <1>2, <1>3, <1>4
<1>6. \E f : Is(m - 1, f)
  <2> HIDE DEF Is
  <2> QED BY <1>3, <1>5
<1>7. PICK f : Is(m - 1, f)
  BY <1>6
<1> DEFINE h == [k \in 0 .. m |-> IF k = m THEN WithKept(info[m], f[m - 1]) ELSE f[k]]
<1>8. ASSUME NEW k \in 0 .. m PROVE h[k] = IF k = 0 THEN Cells(i) ELSE WithKept(info[k], h[k - 1])
  <2>1. CASE k = m
    <3>1. h[k] = WithKept(info[m], f[m - 1]) /\ h[m - 1] = f[m - 1]
      BY <1>5, <2>1
    <3> HIDE DEF h
    <3> QED BY <1>5, <2>1, <3>1
  <2>2. CASE k # m
    <3>1. k \in 0 .. m - 1 /\ h[k] = f[k]
      BY <1>5, <2>2
    <3>2. f[k] = IF k = 0 THEN Cells(i) ELSE WithKept(info[k], f[k - 1])
      BY <1>7, <3>1
    <3>3. k # 0 => h[k - 1] = f[k - 1]
      BY <1>5, <3>1
    <3> HIDE DEF h
    <3> QED BY <3>1, <3>2, <3>3
  <2> QED BY <2>1, <2>2
<1>9. h = [k \in 0 .. m |-> h[k]]
  OBVIOUS
<1>10. Is(m, h)
  <2> HIDE DEF h
  <2> QED BY <1>8, <1>9
<1> HIDE DEF Is, h
<1> QED BY <1>3, <1>10

LEMMA KeptIs ==
  ASSUME Known, NEW i \in Image
  PROVE  /\ KeptFor(i)[0] = Cells(i)
         /\ \A k \in 1 .. Len(info) : KeptFor(i)[k] = WithKept(info[k], KeptFor(i)[k - 1])
<1> DEFINE n == Len(info)
           f == CHOOSE g : g = [k \in 0 .. n |-> IF k = 0 THEN Cells(i) ELSE WithKept(info[k], g[k - 1])]
<1>1. n \in Nat
  BY ListIs DEF Known
<1>2. KeptFor(i) = f
  BY DEF KeptFor
<1> HIDE DEF n
<1>3. f = [k \in 0 .. n |-> IF k = 0 THEN Cells(i) ELSE WithKept(info[k], f[k - 1])]
  BY <1>1, KeptExists
<1> HIDE DEF f
<1>4. 0 \in 0 .. n
  BY <1>1
<1>5. f[0] = Cells(i)
  BY <1>3, <1>4
<1>6. ASSUME NEW k \in 1 .. n PROVE f[k] = WithKept(info[k], f[k - 1])
  <2>1. k \in 0 .. n /\ k # 0
    BY <1>1
  <2> QED BY <1>3, <2>1
<1> QED BY <1>2, <1>5, <1>6 DEF n

BeginsWith(i, s) ==
    /\ TidySeq(s) /\ i.size <= Len(s) /\ Len(s) <= Size
    /\ \A k \in 1 .. i.size : s[k] = Cells(i)[k]

LEMMA SoundPart ==
  ASSUME region \in Region, NEW p \in 0 .. Size - 1, IsSound(region, p)
  PROVE  Part(p, region[p].image.size) = Cells(region[p].image) /\ region[p].image \in Image
<1> DEFINE m == region[p].image.size
<1>1. region[p].image \in Image /\ m \in Nat \ {0}
  BY NextIs DEF IsSound
<1>2. p + m <= Size /\ \A k \in 0 .. m - 1 : region[p + k] = [image |-> region[p].image, part |-> k]
  BY DEF IsSound
<1>3. Size \in Nat
  BY SizeAssumption
<1> HIDE DEF m
<1>4. ASSUME NEW k \in 1 .. m
      PROVE  (IF p + k - 1 < Size THEN region[p + k - 1] ELSE ErasedCell) = [image |-> region[p].image, part |-> k - 1]
  <2>1. k - 1 \in 0 .. m - 1 /\ p + k - 1 < Size /\ p + (k - 1) = p + k - 1
    BY <1>1, <1>2, <1>3
  <2>2. region[p + (k - 1)] = [image |-> region[p].image, part |-> k - 1]
    BY <1>2, <2>1
  <2> QED BY <2>1, <2>2
<1>5. Part(p, m) = [k \in 1 .. m |-> [image |-> region[p].image, part |-> k - 1]]
  BY <1>4 DEF Part
<1>6. Cells(region[p].image) = [k \in 1 .. m |-> [image |-> region[p].image, part |-> k - 1]]
  BY DEF Cells, m
<1> QED BY <1>1, <1>5, <1>6 DEF m

LEMMA BeginsWithStep ==
  ASSUME Known, NEW i \in Image, NEW k \in 1 .. Len(info), NEW s, BeginsWith(i, s)
  PROVE  BeginsWith(i, WithKept(info[k], s))
<1>1. CASE ~Chosen(info[k], s)
  BY <1>1 DEF WithKept
<1>2. CASE Chosen(info[k], s)
  <2> DEFINE a == info[k].at
             m == info[k].size
             c == Part(a, m)
  <2>1. region \in Region /\ info = Scan(region, rev) /\ Size \in Nat /\ i.size \in Nat
    BY SizeAssumption, CellsAre DEF Known
  <2>2. a \in 0 .. Size - 1 /\ m = region[a].image.size /\ (info[k].inUse <=> IsInUse(region, a, rev))
    BY <2>1, ListIs
  <2>3. info[k].inUse /\ m <= Size - Len(s)
    BY <1>2 DEF Chosen
  <2>4. IsSound(region, a)
    BY <2>2, <2>3 DEF IsInUse
  <2>5. c = Cells(region[a].image) /\ region[a].image \in Image
    BY <2>1, <2>2, <2>4, SoundPart
  <2>6. TidySeq(c) /\ Len(c) = m /\ m \in Nat
    BY <2>2, <2>5, CellsAre
  <2>7. WithKept(info[k], s) = s \o c
    BY <1>2 DEF WithKept
  <2>8. TidySeq(s) /\ Len(s) \in Nat /\ i.size <= Len(s) /\ \A j \in 1 .. i.size : s[j] = Cells(i)[j]
    BY DEF BeginsWith, TidySeq
  <2> HIDE DEF c, m
  <2>9. /\ TidySeq(s \o c) /\ Len(s \o c) = Len(s) + Len(c)
        /\ \A j \in 1 .. Len(s) : (s \o c)[j] = s[j]
    BY <2>6, <2>8, TidyConcat
  <2>10. i.size <= Len(s \o c) /\ Len(s \o c) <= Size
    BY <2>1, <2>3, <2>6, <2>8, <2>9 DEF m
  <2>11. \A j \in 1 .. i.size : (s \o c)[j] = Cells(i)[j]
    <3>1. \A j \in 1 .. i.size : j \in 1 .. Len(s)
      BY <2>1, <2>8
    <3> QED BY <2>8, <2>9, <3>1
  <2> QED BY <2>7, <2>9, <2>10, <2>11 DEF BeginsWith
<1> QED BY <1>1, <1>2

LEMMA KeptBegins ==
  ASSUME Known, NEW i \in Image, i.size <= Size
  PROVE  \A k \in 0 .. Len(info) : BeginsWith(i, KeptFor(i)[k])
<1> DEFINE n == Len(info)
           f == KeptFor(i)
           S == {k \in 0 .. n : ~BeginsWith(i, f[k])}
<1>1. SUFFICES ASSUME S # {} PROVE FALSE
  OBVIOUS
<1>2. S \subseteq Nat /\ n \in Nat
  BY ListIs DEF Known
<1>3. PICK k \in S : \A j \in S : k <= j
  <2> HIDE DEF S
  <2> QED BY <1>1, <1>2, Least
<1>4. k # 0
  <2>1. f[0] = Cells(i)
    BY KeptIs
  <2>2. BeginsWith(i, Cells(i))
    <3>1. TidySeq(Cells(i)) /\ Len(Cells(i)) = i.size /\ i.size \in Nat
      BY CellsAre
    <3> QED BY <3>1 DEF BeginsWith
  <2> HIDE DEF f
  <2> QED BY <1>3, <2>1, <2>2
<1>5. k \in 1 .. n /\ k - 1 \in 0 .. n /\ ~(k <= k - 1)
  BY <1>2, <1>3, <1>4
<1>6. BeginsWith(i, f[k - 1])
  <2> HIDE DEF f, n
  <2> QED BY <1>3, <1>5
<1>7. f[k] = WithKept(info[k], f[k - 1])
  BY <1>5, KeptIs
<1>8. BeginsWith(i, WithKept(info[k], f[k - 1]))
  <2> HIDE DEF f
  <2> QED BY <1>5, <1>6, BeginsWithStep
<1> HIDE DEF f
<1> QED BY <1>3, <1>7, <1>8

LEMMA FromBeginningIsGood ==
  ASSUME Known, NEW i \in Image, i.size <= Size
  PROVE  GoodPlan(region, rev, FromBeginning(i), i)
<1> DEFINE e == KeptFor(i)[Len(info)]
           s == e \o Blank(Size - Len(e))
<1>1. region \in Region /\ info = Scan(region, rev) /\ Size \in Nat \ {0} /\ i.size \in Nat
  BY SizeAssumption, CellsAre DEF Known
<1>2. BeginsWith(i, e)
  <2>1. Len(info) \in 0 .. Len(info)
    BY <1>1, ListIs
  <2> QED BY <2>1, KeptBegins
<1>3. FromBeginning(i) = Planned("begin", 0, s)
  BY DEF FromBeginning
<1> HIDE DEF e
<1>4. TidySeq(e) /\ Len(e) \in Nat /\ i.size <= Len(e) /\ Len(e) <= Size /\ \A k \in 1 .. i.size : e[k] = Cells(i)[k]
  BY <1>2 DEF BeginsWith, TidySeq
<1>5. Size - Len(e) \in Nat
  BY <1>1, <1>4
<1>6. TidySeq(Blank(Size - Len(e))) /\ Len(Blank(Size - Len(e))) = Size - Len(e)
  BY <1>5, BlankIs
<1>7. TidySeq(s) /\ Len(s) = Len(e) + Len(Blank(Size - Len(e))) /\ \A k \in 1 .. Len(e) : s[k] = e[k]
  BY <1>4, <1>6, TidyConcat
<1> HIDE DEF s
<1>8. Len(s) = Size /\ s \in Seq(Cell)
  <2>1. s \in Seq(Cell)
    BY <1>7 DEF TidySeq
  <2> DEFINE a == Len(e)
             b == Len(Blank(Size - Len(e)))
  <2>2. a \in Nat /\ b = Size - a /\ Len(s) = a + b /\ Size \in Nat
    BY <1>1, <1>4, <1>6, <1>7
  <2> HIDE DEF a, b
  <2>3. Len(s) = Size
    BY <2>2
  <2> QED BY <2>1, <2>3
<1>9. \A k \in 1 .. i.size : s[k] = Cells(i)[k]
  <2>1. \A k \in 1 .. i.size : k \in 1 .. Len(e)
    BY <1>1, <1>4
  <2> QED BY <1>4, <1>7, <2>1
<1>10. ASSUME NEW t \in Region, HasHeader(t, 0) PROVE Has(t, rev, 0, 0)
  <2>1. 0 \in 0 .. Size - 1
    BY <1>1
  <2> QED BY <1>10, <2>1, HasStep
<1>11. ASSUME IsTidy(region) PROVE IsTidy(Overlay(region, 0, s, Len(s)))
  <2>1. 0 \in Nat /\ 0 + Len(s) <= Size /\ \A p \in 0 .. Size - 1 : ~(p < 0)
    BY <1>1, <1>8
  <2> QED BY <1>1, <1>7, <1>11, <2>1, TidySeqOverlay
<1>12. FromBeginning(i).at = 0 /\ FromBeginning(i).kind = "begin"
  BY <1>3, PlannedIs
<1>13. FromBeginning(i).cells = s
  BY <1>3, PlannedIs
<1>14. i.size <= Len(s) /\ 0 + Len(s) <= Size /\ 0 \in Nat
  BY <1>1, <1>4, <1>8
<1> QED BY <1>8, <1>9, <1>10, <1>11, <1>12, <1>13, <1>14 DEF GoodPlan

(* Every plan that is made of a true list is good.                         *)
LEMMA PlanIsGood ==
  ASSUME Known, info # <<>>, NEW i \in Image, PlanFor(i).ok
  PROVE  GoodPlan(region, rev, PlanFor(i), i) /\ PlanFor(i).done = 0
<1>1. i.size \in Nat \ {0} /\ Size \in Nat
  BY SizeAssumption, CellsAre
<1>2. index # NoIndex => Available \in Nat
  BY NextImageIs
<1>3. index = NoIndex => Available = 0
  BY DEF Available
<1>4. CASE Available >= i.size
  <2>0. ~(Available < i.size)
    BY <1>1, <1>2, <1>3, <1>4
  <2>1. PlanFor(i) = InSitu(i)
    BY <1>4, <2>0 DEF PlanFor
  <2>2. index # NoIndex
    BY <1>1, <1>3, <1>4
  <2>3. InSitu(i).done = 0
    BY DEF InSitu, Planned
  <2> QED BY <1>4, <2>1, <2>2, <2>3, InSituIsGood
<1>5. CASE ~(Available >= i.size) /\ FitsTheRest(i) /\ index = NoIndex
  <2>1. PlanFor(i) = AtTheEnd(i)
    BY <1>1, <1>3, <1>5 DEF PlanFor
  <2>2. AtTheEnd(i).done = 0
    BY DEF AtTheEnd, Planned
  <2> QED BY <1>5, <2>1, <2>2, AtTheEndIsGood
<1>6. CASE ~(Available >= i.size) /\ FitsTheRest(i) /\ index # NoIndex
  <2>1. PlanFor(i) = Reorg(i)
    BY <1>1, <1>2, <1>6 DEF PlanFor
  <2>2. Reorg(i).done = 0
    BY DEF Reorg, Planned
  <2> QED BY <1>6, <2>1, <2>2, ReorgIsGood
<1>7. CASE ~(Available >= i.size) /\ ~FitsTheRest(i) /\ Size >= i.size
  <2>1. Available < i.size
    BY <1>1, <1>2, <1>3, <1>7
  <2>2. PlanFor(i) = FromBeginning(i)
    BY <1>7, <2>1 DEF PlanFor
  <2>3. FromBeginning(i).done = 0
    BY DEF FromBeginning, Planned
  <2>4. i.size <= Size
    BY <1>1, <1>7
  <2> QED BY <2>2, <2>3, <2>4, FromBeginningIsGood
<1>8. CASE ~(Available >= i.size) /\ ~FitsTheRest(i) /\ ~(Size >= i.size)
  <2>1. PlanFor(i) = NoPlan
    BY <1>8 DEF PlanFor
  <2> QED BY <2>1 DEF NoPlan
<1> QED BY <1>4, <1>5, <1>6, <1>7, <1>8
----------------------------------------------------------------------------
(* Between two calls the list is true; during a write the region is what   *)
(* it was with as much of a good plan over it as is written; after it the  *)
(* image is where the scan finds it.  While no write has gone beyond the   *)
(* region: once one has, after updates that were cut off, nothing holds.   *)
Shape ==
    /\ plan = [at |-> plan.at, cells |-> plan.cells, done |-> plan.done, ok |-> plan.ok,
               kind |-> plan.kind, slips |-> plan.slips, others |-> plan.others]
    /\ pc = "write" => plan.ok
    /\ rev \in Nat /\ cpuRev \in Nat /\ pc \in {"down", "idle", "write", "save"}
    /\ cut \in BOOLEAN /\ spilled \in BOOLEAN /\ unstored \in BOOLEAN
Resting == pc = "idle" \/ (pc = "save" /\ ~plan.ok)
Writing ==
    /\ unstored
    /\ \E r \in Region, i \in Image :
         /\ i.fits /\ i.rev > rev /\ cpuRev = i.rev
         /\ GoodPlan(r, rev, plan, i) /\ plan.done \in 0 .. Len(plan.cells) - 1
         /\ region = Overlay(r, plan.at, plan.cells, plan.done)
         /\ ~cut => IsTidy(r)
Wrote ==
    /\ plan.at \in 0 .. Size - 1 /\ Has(region, rev, 0, plan.at) /\ IsInUse(region, plan.at, rev)
    /\ plan.kind # "begin" /\ ~plan.slips => plan.others \subseteq SoundImages(region)
UpdateInv ==
    /\ Shape /\ (spilled => cut)
    /\ Resting => info = Scan(region, rev)
    /\ ~spilled => /\ region \in Region
                   /\ Resting /\ index # NoIndex => index \in InUse(info)
                   /\ pc = "write" => Writing
                   /\ pc = "save" /\ plan.ok => Wrote
                   /\ pc # "write" /\ ~cut => IsTidy(region)
                   /\ pc # "write" /\ ~unstored => Stored

LEMMA PlanShape == ASSUME NEW i PROVE PlanFor(i) =
    [at |-> PlanFor(i).at, cells |-> PlanFor(i).cells, done |-> PlanFor(i).done, ok |-> PlanFor(i).ok,
     kind |-> PlanFor(i).kind, slips |-> PlanFor(i).slips, others |-> PlanFor(i).others]
<1> DEFINE Whole(p) == p = [at |-> p.at, cells |-> p.cells, done |-> p.done, ok |-> p.ok,
                            kind |-> p.kind, slips |-> p.slips, others |-> p.others]
<1>1. \A k, a, c : Whole(Planned(k, a, c))
  BY DEF Planned
<1>2. Whole(NoPlan)
  BY DEF NoPlan
<1> HIDE DEF Whole
<1>3. Whole(InSitu(i)) /\ Whole(AtTheEnd(i)) /\ Whole(Reorg(i)) /\ Whole(FromBeginning(i))
  BY <1>1, Zenon DEF InSitu, AtTheEnd, Reorg, FromBeginning
<1>4. PlanFor(i) \in {InSitu(i), AtTheEnd(i), Reorg(i), FromBeginning(i), NoPlan}
  BY DEF PlanFor
<1>5. Whole(PlanFor(i))
  BY <1>2, <1>3, <1>4
<1> QED BY <1>5 DEF Whole

(* An entry in use gives the processor an index of one in use.             *)
LEMMA IndexedIs ==
  ASSUME NEW list, list \in Seq(Entry), NEW old, InUse(list) # {}
  PROVE  Indexed(list, old) \in InUse(list)
<1> DEFINE n == Len(list)
           S == {n - k : k \in InUse(list)}
<1>1. n \in Nat /\ InUse(list) \subseteq 1 .. n
  BY DEF InUse
<1>2. S \subseteq Nat /\ S # {}
  BY <1>1
<1>3. PICK m \in S : \A x \in S : m <= x
  <2> HIDE DEF S
  <2> QED BY <1>2, Least
<1>4. PICK k \in InUse(list) : m = n - k
  BY <1>3
<1>5. ASSUME NEW j \in InUse(list) PROVE j <= k
  <2>1. m <= n - j
    BY <1>3
  <2> HIDE DEF n
  <2> QED BY <1>1, <1>4, <2>1
<1> QED BY <1>5 DEF Indexed

LEMMA HasInUse ==
  ASSUME NEW r \in Region, NEW c, NEW p \in 0 .. Size - 1, Has(r, c, 0, p), IsInUse(r, p, c)
  PROVE  InUse(Scan(r, c)) # {}
<1> DEFINE list == Scan(r, c)
<1>1. 0 \in 0 .. Size /\ list = ScanFrom(r, c)[0]
  BY SizeAssumption DEF Scan
<1>2. Lists(r, c, 0, list)
  BY <1>1, ScanLists
<1>3. PICK k \in DOMAIN list : list[k].at = p
  BY <1>1 DEF Has
<1>4. list[k] = EntryAt(r, list[k].at, c)
  BY <1>2, <1>3 DEF Lists
<1>5. list[k].inUse
  <2> HIDE DEF list
  <2>1. list[k] = EntryAt(r, p, c)
    BY <1>3, <1>4
  <2>2. list[k].inUse <=> IsInUse(r, p, c)
    BY <2>1 DEF EntryAt
  <2> QED BY <2>2
<1> QED BY <1>3, <1>5 DEF InUse

LEMMA ScanIsSeq == ASSUME NEW r \in Region, NEW c PROVE Scan(r, c) \in Seq(Entry)
<1>1. 0 \in 0 .. Size
  BY SizeAssumption
<1> QED BY <1>1, ScanLists DEF Scan, Lists

LEMMA OverlayStep ==
  ASSUME NEW r \in Region, NEW at \in Nat, NEW s \in Seq(Cell), NEW n \in 0 .. Len(s) - 1, at + n < Size
  PROVE  [Overlay(r, at, s, n) EXCEPT ![at + n] = s[n + 1]] = Overlay(r, at, s, n + 1)
<1> DEFINE o == Overlay(r, at, s, n)
           u == [o EXCEPT ![at + n] = s[n + 1]]
           w == Overlay(r, at, s, n + 1)
<1>1. n \in Nat /\ Size \in Nat /\ at + n \in 0 .. Size - 1 /\ at + n - at + 1 = n + 1
  BY SizeAssumption
<1>2. o = [p \in 0 .. Size - 1 |-> IF at <= p /\ p < at + n THEN s[p - at + 1] ELSE r[p]]
  BY DEF Overlay
<1>3. w = [p \in 0 .. Size - 1 |-> IF at <= p /\ p < at + (n + 1) THEN s[p - at + 1] ELSE r[p]]
  BY DEF Overlay
<1> HIDE DEF o
<1>4. u = [p \in 0 .. Size - 1 |-> IF p = at + n THEN s[n + 1] ELSE o[p]]
  BY <1>1, <1>2
<1> HIDE DEF u, w
<1>5. ASSUME NEW p \in 0 .. Size - 1 PROVE u[p] = w[p]
  <2>1. CASE p = at + n
    BY <1>1, <1>3, <1>4, <2>1
  <2>2. CASE p # at + n
    <3>1. u[p] = o[p]
      BY <1>4, <2>2
    <3>2. (p < at + n) <=> (p < at + (n + 1))
      BY <1>1, <2>2
    <3> QED BY <1>2, <1>3, <3>1, <3>2
  <2> QED BY <2>1, <2>2
<1>6. u = [p \in 0 .. Size - 1 |-> u[p]] /\ w = [p \in 0 .. Size - 1 |-> w[p]]
  BY <1>3, <1>4
<1> QED BY <1>5, <1>6 DEF u, w, o

LEMMA OverlayNone == ASSUME NEW r \in Region, NEW at \in Nat, NEW s PROVE Overlay(r, at, s, 0) = r
<1>1. \A p \in 0 .. Size - 1 : ~(at <= p /\ p < at + 0)
  BY SizeAssumption
<1>2. Overlay(r, at, s, 0) = [p \in 0 .. Size - 1 |-> r[p]]
  BY <1>1 DEF Overlay
<1> QED BY <1>2 DEF Region
LEMMA InitKeepsInv == ASSUME UpdateInit PROVE UpdateInv
<1>1. region \in Region /\ IsTidy(region)
  BY ShippedAssumption DEF UpdateInit
<1>2. Shape
  BY SizeAssumption DEF UpdateInit, Shape, NoPlan
<1>3. pc = "down" /\ ~spilled /\ (~unstored => Stored)
  BY DEF UpdateInit
<1> QED BY <1>1, <1>2, <1>3 DEF UpdateInv, Resting

LEMMA StartKeepsInv == ASSUME UpdateInv, InitializePrivateData PROVE UpdateInv'
<1> USE DEF UpdateInv
<1>1. /\ pc' = "idle" /\ rev' = cpuRev /\ plan' = NoPlan /\ info' = Scan(region, cpuRev) /\ index' = Indexed(info', NoIndex)
      /\ UNCHANGED <<region, cpuRev, saved, cut, spilled, unstored>> /\ pc = "down"
  BY DEF InitializePrivateData
<1>2. Shape'
  BY <1>1 DEF Shape, NoPlan
<1>3. info' = Scan(region', rev')
  BY <1>1
<1>4. ASSUME ~spilled', index' # NoIndex PROVE index' \in InUse(info')
  <2>1. InUse(info') # {}
    BY <1>1, <1>4 DEF Indexed
  <2>2. info' \in Seq(Entry)
    BY <1>1, <1>4, ScanIsSeq
  <2> QED BY <1>1, <2>1, <2>2, IndexedIs
<1>5. Stored' <=> Stored
  BY <1>1 DEF Stored
<1> QED BY <1>1, <1>2, <1>3, <1>4, <1>5 DEF Resting

LEMMA EndKeepsInv == ASSUME UpdateInv, End PROVE UpdateInv'
<1> USE DEF UpdateInv
<1>1. /\ pc' = "down" /\ rev' = 0 /\ plan' = NoPlan /\ cut' = (cut \/ pc = "write")
      /\ UNCHANGED <<region, cpuRev, saved, spilled, unstored>> /\ pc # "down"
  BY DEF End
<1>2. Shape'
  BY <1>1 DEF Shape, NoPlan
<1>3. Stored' <=> Stored
  BY <1>1 DEF Stored
<1>4. ~Resting'
  BY <1>1 DEF Resting
<1>5. spilled' => cut'
  BY <1>1
<1>6. ASSUME ~spilled', ~cut' PROVE IsTidy(region')
  BY <1>1, <1>6
<1>7. ASSUME ~spilled', ~unstored' PROVE Stored'
  BY <1>1, <1>3, <1>7 DEF Writing
<1> QED BY <1>1, <1>2, <1>4, <1>5, <1>6, <1>7

LEMMA SetImageKeepsInv == ASSUME UpdateInv, NEW i \in Image, NEW corrupt \in BOOLEAN, SetImage(i, corrupt) PROVE UpdateInv'
<1> USE DEF UpdateInv
<1>1. /\ pc = "idle" /\ info # <<>> /\ UNCHANGED <<region, saved, rev, index, info, cut, spilled>>
  BY DEF SetImage
<1>2. Resting /\ info = Scan(region, rev)
  BY <1>1 DEF Resting
<1>3. CASE pc' = "save" /\ plan' = NoPlan /\ UNCHANGED <<cpuRev, unstored>>
  <2>1. Shape'
    BY <1>1, <1>3 DEF Shape, NoPlan
  <2>2. Stored' <=> Stored
    BY <1>1, <1>3 DEF Stored
  <2>3. ~plan'.ok
    BY <1>3 DEF NoPlan
  <2> QED BY <1>1, <1>2, <1>3, <2>1, <2>2, <2>3 DEF Resting
<1>4. CASE Verifies(i) /\ cpuRev' = i.rev /\ unstored' = TRUE /\ plan' = NoPlan /\ pc' = "save"
  <2>1. Shape'
    BY <1>1, <1>4, ImageAssumption DEF Shape, NoPlan
  <2>2. ~plan'.ok
    BY <1>4 DEF NoPlan
  <2> QED BY <1>1, <1>2, <1>4, <2>1, <2>2 DEF Resting
<1>5. CASE Verifies(i) /\ cpuRev' = i.rev /\ unstored' = TRUE /\ plan' = PlanFor(i) /\ plan'.ok /\ pc' = "write"
  <2>1. Shape'
    BY <1>1, <1>5, ImageAssumption, PlanShape DEF Shape
  <2>2. ASSUME ~spilled' PROVE Writing'
    <3>1. Known
      BY <1>1, <1>2, <2>2 DEF Known
    <3>2. GoodPlan(region, rev, plan', i) /\ plan'.done = 0
      BY <1>1, <1>5, <3>1, PlanIsGood
    <3>3. 0 \in 0 .. Len(plan'.cells) - 1
      BY <3>2, CellsAre DEF GoodPlan
    <3>4. region = Overlay(region, plan'.at, plan'.cells, 0)
      BY <3>1, <3>2, OverlayNone DEF GoodPlan, Known
    <3>5. ~cut => IsTidy(region)
      BY <1>1, <2>2
    <3>6. i.fits /\ i.rev > rev
      BY <1>5 DEF Verifies
    <3>7. region' = region /\ rev' = rev /\ cut' = cut /\ region \in Region
      BY <1>1, <3>1 DEF Known
    <3> QED BY <1>5, <3>2, <3>3, <3>4, <3>5, <3>6, <3>7 DEF Writing
  <2>3. ~Resting'
    BY <1>5 DEF Resting
  <2> QED BY <1>1, <1>5, <2>1, <2>2, <2>3
<1> QED BY <1>3, <1>4, <1>5 DEF SetImage

LEMMA SaveKeepsInv == ASSUME UpdateInv, Save PROVE UpdateInv'
<1> USE DEF UpdateInv
<1>1. /\ pc = "save" /\ pc' = "idle" /\ Refreshed /\ plan' = NoPlan
      /\ UNCHANGED <<region, cpuRev, rev, attempt, cut, spilled, unstored>>
  BY DEF Save
<1>2. Shape'
  BY <1>1 DEF Shape, NoPlan
<1>3. Stored' <=> Stored
  BY <1>1 DEF Stored
<1>4. CASE plan.ok
  <2>1. info' = Scan(region, rev) /\ index' = Indexed(info', index)
    BY <1>1, <1>4 DEF Refreshed
  <2>2. ASSUME ~spilled PROVE index' \in InUse(info')
    <3>1. Wrote /\ region \in Region
      BY <1>1, <1>4, <2>2
    <3>2. InUse(Scan(region, rev)) # {}
      BY <3>1, HasInUse DEF Wrote
    <3>3. info' \in Seq(Entry)
      BY <2>1, <3>1, ScanIsSeq
    <3> QED BY <2>1, <3>2, <3>3, IndexedIs
  <2> QED BY <1>1, <1>2, <1>3, <2>1, <2>2
<1>5. CASE ~plan.ok
  <2>1. info' = info /\ index' = index /\ Resting
    BY <1>1, <1>5 DEF Refreshed, Resting
  <2> QED BY <1>1, <1>2, <1>3, <2>1
<1> QED BY <1>4, <1>5

(* The last cell: the image is there, and what the plan was to keep.       *)
LEMMA WroteIs ==
  ASSUME NEW r \in Region, NEW i \in Image, NEW s \in Region, NEW p, NEW c \in Nat, NEW at, NEW cells,
         GoodPlan(r, c, p, i), at = p.at, cells = p.cells, s = Overlay(r, at, cells, Len(cells)),
         at + Len(cells) <= Size
  PROVE  at \in 0 .. Size - 1 /\ IsSound(s, at) /\ s[at].image = i /\ Has(s, c, 0, at)
<1> DEFINE n == Len(cells)
           z == i.size
<1>1. /\ at \in Nat /\ cells \in Seq(Cell) /\ z <= n /\ z \in Nat \ {0} /\ n \in Nat /\ n \in 0 .. n
      /\ \A k \in 1 .. z : cells[k] = Cells(i)[k]
  BY CellsAre DEF GoodPlan
<1>2. Size \in Nat /\ \A k \in 1 .. z : Cells(i)[k] = [image |-> i, part |-> k - 1] /\ Cells(i)[k] # ErasedCell
  BY SizeAssumption, CellsAre
<1>3. \A k \in 1 .. n : at + k - 1 < Size => s[at + k - 1] = cells[k]
  <2> HIDE DEF n, z
  <2>1. at \in Nat /\ cells \in Seq(Cell) /\ n \in 0 .. Len(cells) /\ s = Overlay(r, at, cells, n)
    BY <1>1 DEF n
  <2>2. \A k \in 1 .. n : at + k - 1 < Size => Overlay(r, at, cells, n)[at + k - 1] = cells[k]
    BY SMTT(30), <2>1, OverlayIs
  <2> QED BY <2>1, <2>2
<1>3a. SameBelow(r, s, at)
  BY <1>1, OverlayIs
<1>4. at + n <= Size
  OBVIOUS
<1>5. \A t \in Region : at < Size /\ SameBelow(r, t, at) /\ HasHeader(t, at) => Has(t, c, 0, at)
  BY DEF GoodPlan
<1> HIDE DEF n, z
<1>6. at \in 0 .. Size - 1
  BY <1>1, <1>2, <1>4
<1>7. ASSUME NEW k \in 0 .. z - 1 PROVE s[at + k] = [image |-> i, part |-> k] /\ s[at + k] # ErasedCell
  <2> DEFINE j == k + 1
  <2>1. j \in 1 .. z /\ j \in 1 .. n /\ at + j - 1 < Size /\ at + j - 1 = at + k /\ j - 1 = k
    BY <1>1, <1>2, <1>4
  <2> HIDE DEF j
  <2>2. s[at + j - 1] = cells[j]
    BY <1>3, <2>1
  <2>3. cells[j] = [image |-> i, part |-> j - 1] /\ cells[j] # ErasedCell
    BY <1>1, <1>2, <2>1
  <2> QED BY <2>1, <2>2, <2>3
<1>8. s[at] = [image |-> i, part |-> 0] /\ s[at] # ErasedCell
  <2>1. 0 \in 0 .. z - 1 /\ at + 0 = at
    BY <1>1
  <2> QED BY <1>7, <2>1
<1>9. HasHeader(s, at) /\ s[at].image = i
  BY <1>8 DEF HasHeader
<1>10. at + i.size <= Size
  BY <1>1, <1>2, <1>4 DEF z
<1>11. IsSound(s, at)
  BY <1>7, <1>9, <1>10 DEF IsSound, z
<1>12. Has(s, c, 0, at)
  <2>1. at < Size
    BY <1>2, <1>6
  <2> QED BY <1>3a, <1>5, <1>9, <2>1
<1> QED BY <1>6, <1>9, <1>11, <1>12

LEMMA WriteKeepsInv == ASSUME UpdateInv, WriteCell PROVE UpdateInv'
<1> USE DEF UpdateInv
<1>1. /\ pc = "write" /\ plan' = [plan EXCEPT !.done = @ + 1]
      /\ IF Complete THEN pc' = "save" /\ unstored' = FALSE ELSE UNCHANGED <<pc, unstored>>
      /\ UNCHANGED <<cpuRev, saved, rev, index, info, attempt, cut>>
  BY DEF WriteCell
<1>2. /\ plan'.at = plan.at /\ plan'.cells = plan.cells /\ plan'.ok /\ plan'.done = plan.done + 1
      /\ plan'.kind = plan.kind /\ plan'.slips = plan.slips /\ plan'.others = plan.others
      /\ plan' = [at |-> plan'.at, cells |-> plan'.cells, done |-> plan'.done, ok |-> plan'.ok,
                  kind |-> plan'.kind, slips |-> plan'.slips, others |-> plan'.others]
  BY <1>1 DEF Shape
<1>3. spilled' \in BOOLEAN /\ (spilled => spilled')
  BY DEF WriteCell, Shape
<1>4. Shape'
  BY <1>1, <1>2, <1>3 DEF Shape
<1>5. ~Resting'
  BY <1>1, <1>2 DEF Resting
<1>6. CASE spilled
  <2>1. spilled' /\ cut'
    BY <1>1, <1>3, <1>6
  <2> QED BY <1>4, <1>5, <2>1
<1>7. CASE ~spilled
  <2>1. Writing
    BY <1>1, <1>7
  <2>2. PICK r \in Region, i \in Image :
           /\ i.fits /\ i.rev > rev /\ cpuRev = i.rev
           /\ GoodPlan(r, rev, plan, i) /\ plan.done \in 0 .. Len(plan.cells) - 1
           /\ region = Overlay(r, plan.at, plan.cells, plan.done)
           /\ ~cut => IsTidy(r)
    BY <2>1 DEF Writing
  <2>3. plan.at \in Nat /\ plan.cells \in Seq(Cell) /\ Len(plan.cells) \in Nat
    BY <2>2 DEF GoodPlan
  <2> DEFINE at == plan.at
             s == plan.cells
             n == plan.done
  <2>4. Size \in Nat /\ n \in Nat /\ n + 1 \in 0 .. Len(s)
    BY <2>2, <2>3, SizeAssumption
  <2>5. CASE ~(at + n < Size)
    <3>1. spilled'
      BY <2>5 DEF WriteCell
    <3>2. cut
      <4>1. SUFFICES ASSUME ~cut PROVE FALSE
        OBVIOUS
      <4>2. at + Len(s) <= Size
        BY <2>2, <4>1 DEF GoodPlan
      <4> QED BY <2>3, <2>4, <2>5, <4>2
    <3> QED BY <1>1, <1>4, <1>5, <3>1, <3>2
  <2>6. CASE at + n < Size
    <3>1. region' = [region EXCEPT ![at + n] = s[n + 1]] /\ ~spilled'
      BY <1>7, <2>6 DEF WriteCell
    <3>2. region' = Overlay(r, at, s, n + 1)
      <4>1. region' = [Overlay(r, at, s, n) EXCEPT ![at + n] = s[n + 1]]
        BY <2>2, <3>1
      <4>2. at \in Nat /\ s \in Seq(Cell) /\ n \in 0 .. Len(s) - 1
        BY <2>2, <2>3
      <4> HIDE DEF at, s, n
      <4>3. [Overlay(r, at, s, n) EXCEPT ![at + n] = s[n + 1]] = Overlay(r, at, s, n + 1)
        BY <2>6, <4>2, OverlayStep
      <4> QED BY <4>1, <4>3
    <3>3. region' \in Region
      BY <2>3, <2>4, <3>2, OverlayIs
    <3>4. CASE ~Complete
      <4>1. pc' = "write" /\ unstored'
        BY <1>1, <2>1, <3>4 DEF Writing
      <4>2. n + 1 \in 0 .. Len(s) - 1
        BY <2>2, <2>3, <2>4, <3>4 DEF Complete
      <4>3. GoodPlan(r, rev, plan', i)
        BY <1>2, <2>2 DEF GoodPlan
      <4>4. Writing'
        <5>1. plan'.done \in 0 .. Len(plan'.cells) - 1
          BY <1>2, <4>2
        <5>2. region' = Overlay(r, plan'.at, plan'.cells, plan'.done)
          BY <1>2, <3>2
        <5> QED BY <1>1, <2>2, <4>1, <4>3, <5>1, <5>2 DEF Writing
      <4> QED BY <1>1, <1>4, <1>5, <3>1, <3>3, <4>1, <4>4
    <3>5. CASE Complete
      <4>1. pc' = "save" /\ ~unstored' /\ n + 1 = Len(s)
        BY <1>1, <3>5 DEF Complete
      <4>2. region' = Overlay(r, at, s, Len(s)) /\ at + Len(s) <= Size
        BY <2>3, <2>4, <2>6, <3>2, <4>1
      <4>3. at \in 0 .. Size - 1 /\ IsSound(region', at) /\ region'[at].image = i /\ Has(region', rev, 0, at)
        <5>1. rev \in Nat
          BY DEF Shape
        <5> QED BY <2>2, <3>3, <4>2, <5>1, WroteIs
      <4>4. i.rev >= rev /\ i.rev \in Nat
        BY <2>2, ImageAssumption DEF Shape
      <4>5. IsInUse(region', at, rev)
        BY <2>2, <4>3, <4>4 DEF IsInUse
      <4>6. plan.kind # "begin" /\ ~plan.slips => plan.others \subseteq SoundImages(region')
        BY <2>2, <4>2 DEF GoodPlan
      <4>7. Wrote'
        BY <1>1, <1>2, <4>3, <4>5, <4>6 DEF Wrote
      <4>8. ~cut => IsTidy(region')
        BY <2>2, <4>2 DEF GoodPlan
      <4>9. i \in SoundImages(region')
        BY <4>3 DEF SoundImages
      <4>10. Stored'
        BY <1>1, <2>2, <4>9 DEF Stored
      <4> QED BY <1>1, <1>4, <1>5, <3>1, <3>3, <4>1, <4>7, <4>8, <4>10
    <3> QED BY <3>4, <3>5
  <2> QED BY <2>5, <2>6
<1> QED BY <1>6, <1>7

(* For every flash it may be built with, every set of images and every     *)
(* sequence of updates, failures and ends of the emulator.                 *)
THEOREM UpdateInvariance == UpdateSpec => []UpdateInv
<1>1. UpdateInit => UpdateInv
  BY InitKeepsInv
<1>2. UpdateInv /\ [UpdateNext]_updateVars => UpdateInv'
  <2> SUFFICES ASSUME UpdateInv, [UpdateNext]_updateVars PROVE UpdateInv'
    OBVIOUS
  <2>1. CASE UNCHANGED updateVars
    BY <2>1 DEF updateVars, privateData, UpdateInv, Shape, Resting, Writing, Wrote, Stored
  <2> QED BY <2>1, StartKeepsInv, EndKeepsInv, SetImageKeepsInv, SaveKeepsInv, WriteKeepsInv DEF UpdateNext
<1> QED BY <1>1, <1>2, PTL DEF UpdateSpec

(* GetMicrocodeInfo: between two calls the list is what a scan of the      *)
(* region finds, and the processor's index is that of an image in use.     *)
THEOREM InformationIsTrue == UpdateSpec => []InfoIsTrue
<1>1. UpdateInv => InfoIsTrue
  BY DEF UpdateInv, Resting, InfoIsTrue
<1> QED BY <1>1, UpdateInvariance, PTL

(* What the processor runs is in the flash, whole, unless its write never  *)
(* was, was cut off or left the region.                                    *)
THEOREM LoadedImageIsStored == UpdateSpec => []LoadedIsStored
<1>1. UpdateInv => LoadedIsStored
  BY DEF UpdateInv, LoadedIsStored
<1> QED BY <1>1, UpdateInvariance, PTL

(* An update keeps the other sound images of the list, if it neither       *)
(* starts over from the beginning nor slips over padding.                  *)
THEOREM OthersAreKept == UpdateSpec => []OthersKept
<1>1. UpdateInv => OthersKept
  BY DEF UpdateInv, Wrote, OthersKept
<1> QED BY <1>1, UpdateInvariance, PTL

(* Without an update that was cut off no write leaves the region: the      *)
(* unsigned sizes of UpdateMicrocodeFlashRegion never wrap.                *)
THEOREM WritesStayInside == UpdateSpec => []StaysInside
<1>1. UpdateInv => StaysInside
  BY DEF UpdateInv, StaysInside
<1> QED BY <1>1, UpdateInvariance, PTL


----------------------------------------------------------------------------
(* The flash, Fvb and FvbSmm.                                              *)

(* From lo up to n, a step at a time.                                      *)
LEMMA Upward ==
  ASSUME NEW lo \in Int, NEW n \in Int, NEW S, lo \in S,
         \A i \in lo .. n - 1 : i \in S => i + 1 \in S
  PROVE  lo .. n \subseteq S
<1> SUFFICES ASSUME NEW k \in lo .. n, k \notin S PROVE FALSE
  OBVIOUS
<1> DEFINE T == {d \in Nat : d <= n - lo /\ lo + d \notin S}
<1>1. T \subseteq Nat /\ T # {}
  <2>1. k - lo \in T
    OBVIOUS
  <2> QED BY <2>1
<1>2. PICK m \in T : \A d \in T : m <= d
  <2> HIDE DEF T
  <2> QED BY <1>1, Least
<1>3. m \in Nat \ {0} /\ m <= n - lo /\ lo + m \notin S
  BY <1>2
<1>4. m - 1 \notin T
  BY <1>2
<1>5. lo + (m - 1) \in S
  BY <1>3, <1>4
<1>6. lo + (m - 1) \in lo .. n - 1 /\ (lo + (m - 1)) + 1 = lo + m
  BY <1>3
<1>7. lo + m \in S
  BY <1>5, <1>6
<1> QED BY <1>3, <1>7

(* A function that is defined at lo, and at each later place from the one  *)
(* before, exists and is the only one.                                     *)
Steps(lo, n, V, F) == F \in [lo .. n -> [V -> V]]
Follows(lo, n, V, a, F) ==
    \E g \in [lo .. n -> V] : g[lo] = a /\ \A i \in lo .. n : i # lo => g[i] = F[i][g[i - 1]]
LEMMA RecursionExists ==
  ASSUME NEW lo \in Int, NEW n \in Int, lo <= n, NEW V, NEW a \in V, NEW F, Steps(lo, n, V, F)
  PROVE  Follows(lo, n, V, a, F)
<1> USE DEF Steps
<1> DEFINE Good(k) == \E g \in [lo .. k -> V] :
                        g[lo] = a /\ \A i \in lo .. k : i # lo => g[i] = F[i][g[i - 1]]
           S == {k \in lo .. n : Good(k)}
<1>1. lo \in S
  <2>1. [i \in lo .. lo |-> a] \in [lo .. lo -> V] /\ [i \in lo .. lo |-> a][lo] = a
    OBVIOUS
  <2>2. (\A i \in lo .. lo : i = lo) /\ lo \in lo .. n
    OBVIOUS
  <2> QED BY <2>1, <2>2
<1>2. ASSUME NEW k \in lo .. n - 1, k \in S PROVE k + 1 \in S
  <2>1. PICK g \in [lo .. k -> V] :
            g[lo] = a /\ \A i \in lo .. k : i # lo => g[i] = F[i][g[i - 1]]
    BY <1>2
  <2> DEFINE h == [i \in lo .. k + 1 |-> IF i = k + 1 THEN F[i][g[k]] ELSE g[i]]
  <2>2. k \in Int /\ lo <= k /\ k + 1 <= n /\ k + 1 \in lo .. n
    OBVIOUS
  <2>3. g[k] \in V /\ F[k + 1][g[k]] \in V
    BY <2>2
  <2>4. h \in [lo .. k + 1 -> V]
    BY <2>2, <2>3
  <2>5. h[lo] = a
    BY <2>1, <2>2
  <2>6. ASSUME NEW i \in lo .. k + 1, i # lo PROVE h[i] = F[i][h[i - 1]]
    <3>1. i - 1 \in lo .. k /\ i \in lo .. k + 1
      BY <2>2, <2>6
    <3>2. h[i - 1] = g[i - 1]
      BY <3>1, <2>2
    <3>3. CASE i = k + 1
      BY <3>1, <3>2, <3>3
    <3>4. CASE i # k + 1
      <4>1. i \in lo .. k
        BY <3>4, <2>2
      <4>2. h[i] = g[i]
        BY <3>1, <3>4
      <4> QED BY <4>1, <4>2, <2>1, <2>6, <3>2
    <3> QED BY <3>3, <3>4
  <2> HIDE DEF h
  <2>7. Good(k + 1)
    BY <2>4, <2>5, <2>6
  <2> HIDE DEF Good
  <2> QED BY <2>2, <2>7
<1>3. lo .. n \subseteq S
  <2> HIDE DEF S
  <2> QED BY <1>1, <1>2, Upward
<1>4. n \in S
  <2> HIDE DEF S
  <2> QED BY <1>3
<1> QED BY <1>4 DEF Follows

(* FlattenSeq, from the definition of the library.                         *)
LEMMA FlattenIs ==
  ASSUME NEW V, NEW s \in Seq(Seq(V)), Len(s) # 0
  PROVE  \E f \in [1 .. Len(s) -> Seq(V)] :
            /\ FlattenSeq(s) = f[Len(s)] /\ f[1] = s[1]
            /\ \A i \in 2 .. Len(s) : f[i] = f[i - 1] \o s[i]
<1> DEFINE n == Len(s)
           W == Seq(V)
           F == [i \in 1 .. n |-> [x \in W |-> x \o s[i]]]
           c == CHOOSE g : g = [i \in 1 .. n |-> IF i = 1 THEN s[i] ELSE g[i - 1] \o s[i]]
<1>1. n \in Nat /\ 1 <= n /\ \A i \in 1 .. n : s[i] \in W
  OBVIOUS
<1>2. FlattenSeq(s) = c[n]
  BY DEF FlattenSeq
<1>3. F \in [1 .. n -> [W -> W]]
  <2>1. \A i \in 1 .. n, x \in W : x \o s[i] \in W
    BY <1>1
  <2> HIDE DEF W
  <2> QED BY <2>1
<1>4. PICK g \in [1 .. n -> W] : g[1] = s[1] /\ \A i \in 1 .. n : i # 1 => g[i] = F[i][g[i - 1]]
  <2>1. s[1] \in W /\ 1 \in Int /\ n \in Int /\ 1 <= n
    BY <1>1
  <2> HIDE DEF F, W, n
  <2>2. Steps(1, n, W, F)
    BY <1>3 DEF Steps
  <2>3. Follows(1, n, W, s[1], F)
    BY <2>1, <2>2, RecursionExists
  <2> QED BY <2>3 DEF Follows
<1>5. \A i \in 2 .. n : g[i] = g[i - 1] \o s[i]
  <2> SUFFICES ASSUME NEW i \in 2 .. n PROVE g[i] = g[i - 1] \o s[i]
    OBVIOUS
  <2>1. i \in 1 .. n /\ i # 1 /\ i - 1 \in 1 .. n
    BY <1>1
  <2>2. g[i - 1] \in W
    <3> HIDE DEF W
    <3> QED BY <2>1
  <2>3. F[i][g[i - 1]] = g[i - 1] \o s[i]
    <3> HIDE DEF W
    <3>1. F[i] = [x \in W |-> x \o s[i]]
      BY <2>1
    <3> HIDE DEF F
    <3> QED BY <2>2, <3>1
  <2> HIDE DEF F
  <2> QED BY <1>4, <2>1, <2>3
<1>6. g = [i \in 1 .. n |-> IF i = 1 THEN s[i] ELSE g[i - 1] \o s[i]]
  <2>1. \A i \in 1 .. n : g[i] = IF i = 1 THEN s[i] ELSE g[i - 1] \o s[i]
    <3> SUFFICES ASSUME NEW i \in 1 .. n PROVE g[i] = IF i = 1 THEN s[i] ELSE g[i - 1] \o s[i]
      OBVIOUS
    <3>1. i = 1 \/ i \in 2 .. n
      BY <1>1
    <3> HIDE DEF W, F, n
    <3> QED BY <3>1, <1>4, <1>5
  <2> HIDE DEF W, n
  <2> QED BY <2>1, <1>4
<1>7. c = [i \in 1 .. n |-> IF i = 1 THEN s[i] ELSE c[i - 1] \o s[i]]
  BY <1>6
<1>8. \A i \in 1 .. n : c[i] = g[i]
  <2> HIDE DEF c, F
  <2> DEFINE S == {i \in 1 .. n : c[i] = g[i]}
  <2>1. 1 \in S
    BY <1>1, <1>4, <1>7
  <2>2. ASSUME NEW i \in 1 .. n - 1, i \in S PROVE i + 1 \in S
    <3>1. i + 1 \in 2 .. n /\ i + 1 \in 1 .. n /\ (i + 1) - 1 = i /\ i + 1 # 1
      BY <1>1
    <3>2. c[i + 1] = c[i] \o s[i + 1]
      BY <3>1, <1>7
    <3>3. g[i + 1] = g[i] \o s[i + 1]
      BY <3>1, <1>5
    <3> QED BY <2>2, <3>1, <3>2, <3>3
  <2>3. 1 .. n \subseteq S
    <3>1. 1 \in Int /\ n \in Int
      BY <1>1
    <3> HIDE DEF S, n
    <3> QED BY <3>1, <2>1, <2>2, Upward
  <2> QED BY <2>3
<1>9. FlattenSeq(s) = g[n]
  <2> HIDE DEF c
  <2> QED BY <1>1, <1>2, <1>8
<1> HIDE DEF F, c
<1> QED BY <1>4, <1>5, <1>9

(* The block map of a volume, and the lengths of the blocks it stands for. *)
Entries(v) == Len(BlockMap[v])
NumBlocks(v, i) == BlockMap[v][i].NumBlocks
BlockLength(v, i) == BlockMap[v][i].Length
OfEntries(v) == [i \in DOMAIN BlockMap[v] |-> [n \in 1 .. NumBlocks(v, i) |-> BlockLength(v, i)]]

LEMMA MapIs ==
  ASSUME NEW v \in Volume
  PROVE  /\ Entries(v) \in Nat /\ 1 <= Entries(v) /\ DOMAIN BlockMap[v] = 1 .. Entries(v)
         /\ \A i \in 1 .. Entries(v) : NumBlocks(v, i) \in Nat \ {0} /\ BlockLength(v, i) \in Nat \ {0}
         /\ Base[v] \in Nat
<1> DEFINE E == [NumBlocks : Nat \ {0}, Length : Nat \ {0}]
           map == BlockMap[v]
<1>1. map \in Seq(E) /\ map # <<>> /\ Base[v] \in Flash
  BY VolumeAssumption
<1>2. Base[v] \in Nat
  BY <1>1, FlashAssumption
<1>3. Len(map) \in Nat /\ DOMAIN map = 1 .. Len(map) /\ Len(map) # 0 /\ \A i \in 1 .. Len(map) : map[i] \in E
  <2> HIDE DEF E, map
  <2> QED BY <1>1
<1>4. \A e \in E : e.NumBlocks \in Nat \ {0} /\ e.Length \in Nat \ {0}
  OBVIOUS
<1> HIDE DEF E
<1>5. \A i \in 1 .. Len(map) : map[i].NumBlocks \in Nat \ {0} /\ map[i].Length \in Nat \ {0}
  BY <1>3, <1>4
<1> QED BY <1>2, <1>3, <1>5 DEF Entries, NumBlocks, BlockLength

LEMMA LengthsAre ==
  ASSUME NEW v \in Volume
  PROVE  \E f \in [1 .. Entries(v) -> Seq(Nat \ {0})] :
            /\ Lengths[v] = f[Entries(v)] /\ f[1] = OfEntries(v)[1]
            /\ \A i \in 2 .. Entries(v) : f[i] = f[i - 1] \o OfEntries(v)[i]
<1>1. /\ OfEntries(v) \in Seq(Seq(Nat \ {0})) /\ Len(OfEntries(v)) = Entries(v)
      /\ Len(OfEntries(v)) # 0
  <2>1. \A i \in 1 .. Entries(v) : [n \in 1 .. NumBlocks(v, i) |-> BlockLength(v, i)] \in Seq(Nat \ {0})
    BY MapIs
  <2>2. OfEntries(v) = [i \in 1 .. Entries(v) |-> [n \in 1 .. NumBlocks(v, i) |-> BlockLength(v, i)]]
    BY MapIs DEF OfEntries
  <2> DEFINE W == Seq(Nat \ {0})
             e == [i \in 1 .. Entries(v) |-> [n \in 1 .. NumBlocks(v, i) |-> BlockLength(v, i)]]
             n == Entries(v)
  <2>3. e \in [1 .. n -> W] /\ n \in Nat /\ n # 0
    BY <2>1, MapIs
  <2> HIDE DEF W, e, n
  <2>4. e \in Seq(W) /\ Len(e) = n
    BY <2>3
  <2> QED BY <2>2, <2>3, <2>4 DEF W, e, n
<1>2. Lengths[v] = FlattenSeq(OfEntries(v))
  BY DEF Lengths, OfEntries, NumBlocks, BlockLength
<1> DEFINE V == Nat \ {0}
           s == OfEntries(v)
<1>3. s \in Seq(Seq(V)) /\ Len(s) # 0
  BY <1>1
<1> HIDE DEF V, s
<1>4. \E f \in [1 .. Len(s) -> Seq(V)] :
         /\ FlattenSeq(s) = f[Len(s)] /\ f[1] = s[1]
         /\ \A i \in 2 .. Len(s) : f[i] = f[i - 1] \o s[i]
  BY <1>3, FlattenIs
<1>5. Len(s) = Entries(v) /\ FlattenSeq(s) = Lengths[v]
  BY <1>1, <1>2 DEF s
<1>6. \E f \in [1 .. Entries(v) -> Seq(V)] :
         /\ Lengths[v] = f[Entries(v)] /\ f[1] = s[1]
         /\ \A i \in 2 .. Entries(v) : f[i] = f[i - 1] \o s[i]
  BY <1>4, <1>5
<1> QED BY <1>6 DEF V, s

(* What the walk over the block map knows at each entry.                   *)
WalkStart(v, i) == Walk[v][i].start
WalkOffset(v, i) == Walk[v][i].offset
LEMMA WalkIs ==
  ASSUME NEW v \in Volume
  PROVE  /\ WalkStart(v, 1) = 0 /\ WalkOffset(v, 1) = 0
         /\ \A i \in 1 .. Entries(v) : WalkStart(v, i) \in Nat /\ WalkOffset(v, i) \in Nat
         /\ \A i \in 2 .. Entries(v) :
              /\ WalkStart(v, i) = WalkStart(v, i - 1) + NumBlocks(v, i - 1)
              /\ WalkOffset(v, i) =
                   WalkOffset(v, i - 1) + NumBlocks(v, i - 1) * BlockLength(v, i - 1)
<1> DEFINE n == Entries(v)
           V == [start : Nat, offset : Nat]
           Origin == [start |-> 0, offset |-> 0]
           Beyond(i, x) == [start |-> x.start + NumBlocks(v, i - 1),
                            offset |-> x.offset + NumBlocks(v, i - 1) * BlockLength(v, i - 1)]
           F == [i \in 1 .. n |-> [x \in V |-> IF i = 1 THEN Origin ELSE Beyond(i, x)]]
           c == CHOOSE g : g = [i \in 1 .. n |-> IF i = 1 THEN Origin ELSE Beyond(i, g[i - 1])]
<1>1. n \in Nat /\ 1 <= n /\ Origin \in V
  BY MapIs
<1>2. Walk[v] = c
  BY MapIs DEF Walk, NumBlocks, BlockLength, Entries
<1>3. \A i \in 2 .. n, x \in V : Beyond(i, x) \in V
  <2> SUFFICES ASSUME NEW i \in 2 .. n, NEW x \in V PROVE Beyond(i, x) \in V
    OBVIOUS
  <2>1. i - 1 \in 1 .. n
    BY <1>1
  <2>2. x.start \in Nat /\ x.offset \in Nat
    OBVIOUS
  <2>3. NumBlocks(v, i - 1) \in Nat /\ BlockLength(v, i - 1) \in Nat
    BY <2>1, MapIs
  <2>4. NumBlocks(v, i - 1) * BlockLength(v, i - 1) \in Nat
    BY <2>3
  <2> QED BY <2>2, <2>3, <2>4
<1>4. Steps(1, n, V, F)
  <2>1. \A i \in 1 .. n, x \in V : (IF i = 1 THEN Origin ELSE Beyond(i, x)) \in V
    <3> SUFFICES ASSUME NEW i \in 1 .. n, NEW x \in V PROVE (IF i = 1 THEN Origin ELSE Beyond(i, x)) \in V
      OBVIOUS
    <3>1. i = 1 \/ i \in 2 .. n
      BY <1>1
    <3> HIDE DEF n, V, Origin, Beyond
    <3> QED BY <3>1, <1>1, <1>3
  <2> HIDE DEF n, V, Origin, Beyond
  <2> QED BY <2>1 DEF Steps
<1>5. PICK g \in [1 .. n -> V] : g[1] = Origin /\ \A i \in 1 .. n : i # 1 => g[i] = F[i][g[i - 1]]
  <2> HIDE DEF n, V, Origin, Beyond, F
  <2>1. Follows(1, n, V, Origin, F)
    BY <1>1, <1>4, RecursionExists
  <2> QED BY <2>1 DEF Follows
<1>6. \A i \in 1 .. n : i # 1 => g[i] = Beyond(i, g[i - 1])
  <2> SUFFICES ASSUME NEW i \in 1 .. n, i # 1 PROVE g[i] = Beyond(i, g[i - 1])
    OBVIOUS
  <2>1. i - 1 \in 1 .. n
    BY <1>1
  <2> HIDE DEF V, Origin, Beyond, n
  <2>2. g[i - 1] \in V
    BY <2>1
  <2>3. F[i] = [x \in V |-> IF i = 1 THEN Origin ELSE Beyond(i, x)]
    OBVIOUS
  <2> HIDE DEF F
  <2>4. F[i][g[i - 1]] = IF i = 1 THEN Origin ELSE Beyond(i, g[i - 1])
    BY <2>2, <2>3
  <2> QED BY <2>4, <1>5
<1>7. g = [i \in 1 .. n |-> IF i = 1 THEN Origin ELSE Beyond(i, g[i - 1])]
  <2> HIDE DEF V, Origin, Beyond, n, F
  <2>1. \A i \in 1 .. n : g[i] = IF i = 1 THEN Origin ELSE Beyond(i, g[i - 1])
    BY <1>5, <1>6
  <2> QED BY <2>1, <1>5
<1>8. c = [i \in 1 .. n |-> IF i = 1 THEN Origin ELSE Beyond(i, c[i - 1])]
  <2> HIDE DEF V, Origin, Beyond, n, F
  <2> QED BY <1>7
<1>9. \A i \in 1 .. n : c[i] = g[i]
  <2> HIDE DEF c, F, Origin, Beyond, V
  <2> DEFINE S == {i \in 1 .. n : c[i] = g[i]}
  <2>1. 1 \in S
    BY <1>1, <1>5, <1>8
  <2>2. ASSUME NEW i \in 1 .. n - 1, i \in S PROVE i + 1 \in S
    <3>1. i + 1 \in 1 .. n /\ (i + 1) - 1 = i /\ i + 1 # 1
      BY <1>1
    <3>2. c[i + 1] = Beyond(i + 1, c[(i + 1) - 1])
      BY <3>1, <1>8
    <3>3. g[i + 1] = Beyond(i + 1, g[(i + 1) - 1])
      BY <3>1, <1>6
    <3> QED BY <2>2, <3>1, <3>2, <3>3
  <2>3. 1 .. n \subseteq S
    <3>1. 1 \in Int /\ n \in Int
      BY <1>1
    <3> HIDE DEF S, n
    <3> QED BY <3>1, <2>1, <2>2, Upward
  <2> QED BY <2>3
<1> HIDE DEF c, F
<1>10. \A i \in 1 .. n : WalkStart(v, i) = g[i].start /\ WalkOffset(v, i) = g[i].offset /\ g[i] \in V
  BY <1>2, <1>9 DEF WalkStart, WalkOffset
<1>11. ASSUME NEW i \in 2 .. n
       PROVE  /\ g[i].start = g[i - 1].start + NumBlocks(v, i - 1)
              /\ g[i].offset = g[i - 1].offset + NumBlocks(v, i - 1) * BlockLength(v, i - 1)
  <2>1. i \in 1 .. n /\ i # 1
    BY <1>1
  <2>2. g[i] = Beyond(i, g[i - 1])
    BY <2>1, <1>6
  <2> QED BY <2>2
<1>12. \A i \in 2 .. n : i \in 1 .. n /\ i - 1 \in 1 .. n
  BY <1>1
<1>13. 1 \in 1 .. n /\ g[1].start = 0 /\ g[1].offset = 0
  BY <1>1, <1>5
<1>14. \A i \in 1 .. n : g[i].start \in Nat /\ g[i].offset \in Nat
  BY <1>10
<1> HIDE DEF n, V
<1> QED BY <1>10, <1>11, <1>12, <1>13, <1>14 DEF n

(* Where each block begins.                                                *)
LEMMA FirstIs ==
  ASSUME NEW v \in Volume
  PROVE  /\ NumOfBlocks[v] \in Nat /\ First[v][0] = Base[v]
         /\ \A l \in 1 .. NumOfBlocks[v] :
              First[v][l] = First[v][l - 1] + Lengths[v][l] /\ Lengths[v][l] \in Nat \ {0}
         /\ \A l \in 0 .. NumOfBlocks[v] : First[v][l] \in Nat
<1> DEFINE n == NumOfBlocks[v]
           e == Lengths[v]
           F == [i \in 0 .. n |-> [x \in Nat |-> IF i = 0 THEN x ELSE x + e[i]]]
           b == Base[v]
           c == CHOOSE g : g = [i \in 0 .. n |-> IF i = 0 THEN b ELSE g[i - 1] + e[i]]
<1>1. n \in Nat /\ b \in Nat /\ \A i \in 1 .. n : e[i] \in Nat \ {0}
  <2>1. e \in Seq(Nat \ {0})
    <3>1. PICK f \in [1 .. Entries(v) -> Seq(Nat \ {0})] : Lengths[v] = f[Entries(v)]
      BY LengthsAre
    <3>2. Entries(v) \in 1 .. Entries(v)
      BY MapIs
    <3> DEFINE W == Seq(Nat \ {0})
    <3> HIDE DEF W
    <3>3. f \in [1 .. Entries(v) -> W]
      BY DEF W
    <3>4. e \in W
      BY <3>1, <3>2, <3>3
    <3> QED BY <3>4 DEF W
  <2>2. n = Len(e)
    BY DEF NumOfBlocks
  <2> HIDE DEF e, n
  <2> QED BY <2>1, <2>2, MapIs
<1>2. First[v] = c
  BY DEF First
<1>4. Steps(0, n, Nat, F)
  <2>1. \A i \in 0 .. n, x \in Nat : (IF i = 0 THEN x ELSE x + e[i]) \in Nat
    BY <1>1
  <2> HIDE DEF n, e
  <2> QED BY <2>1 DEF Steps
<1>5. PICK g \in [0 .. n -> Nat] : g[0] = b /\ \A i \in 0 .. n : i # 0 => g[i] = F[i][g[i - 1]]
  <2> HIDE DEF n, F, b
  <2>1. 0 \in Int /\ n \in Int /\ 0 <= n /\ b \in Nat
    BY <1>1
  <2>2. Follows(0, n, Nat, b, F)
    BY <2>1, <1>4, RecursionExists
  <2> QED BY <2>2 DEF Follows
<1>6. \A i \in 0 .. n : i # 0 => g[i] = g[i - 1] + e[i]
  <2> SUFFICES ASSUME NEW i \in 0 .. n, i # 0 PROVE g[i] = g[i - 1] + e[i]
    OBVIOUS
  <2>1. i - 1 \in 0 .. n
    BY <1>1
  <2> HIDE DEF n, e
  <2>2. g[i - 1] \in Nat
    BY <2>1
  <2>3. F[i] = [x \in Nat |-> IF i = 0 THEN x ELSE x + e[i]]
    OBVIOUS
  <2> HIDE DEF F
  <2>4. F[i][g[i - 1]] = IF i = 0 THEN g[i - 1] ELSE g[i - 1] + e[i]
    BY <2>2, <2>3
  <2> QED BY <2>4, <1>5, <2>2
<1>7. g = [i \in 0 .. n |-> IF i = 0 THEN b ELSE g[i - 1] + e[i]]
  <2> HIDE DEF n, F, e, b
  <2>1. \A i \in 0 .. n : g[i] = IF i = 0 THEN b ELSE g[i - 1] + e[i]
    BY <1>5, <1>6
  <2> QED BY <2>1, <1>5
<1>8. c = [i \in 0 .. n |-> IF i = 0 THEN b ELSE c[i - 1] + e[i]]
  <2> HIDE DEF n, F, e, b
  <2> QED BY <1>7
<1>9. \A i \in 0 .. n : c[i] = g[i]
  <2> HIDE DEF c, F, e, b
  <2> DEFINE S == {i \in 0 .. n : c[i] = g[i]}
  <2>1. 0 \in S
    BY <1>1, <1>5, <1>8
  <2>2. ASSUME NEW i \in 0 .. n - 1, i \in S PROVE i + 1 \in S
    <3>1. i + 1 \in 0 .. n /\ (i + 1) - 1 = i /\ i + 1 # 0
      BY <1>1
    <3>2. c[i + 1] = c[i] + e[i + 1]
      BY <3>1, <1>8
    <3>3. g[i + 1] = g[i] + e[i + 1]
      BY <3>1, <1>6
    <3> QED BY <2>2, <3>1, <3>2, <3>3
  <2>3. 0 .. n \subseteq S
    <3>1. 0 \in Int /\ n \in Int
      BY <1>1
    <3> HIDE DEF S, n
    <3> QED BY <3>1, <2>1, <2>2, Upward
  <2> QED BY <2>3
<1> HIDE DEF c, F
<1>10. \A i \in 0 .. n : First[v][i] = g[i]
  BY <1>2, <1>9
<1>11. \A i \in 1 .. n : i \in 0 .. n /\ i # 0 /\ i - 1 \in 0 .. n
  BY <1>1
<1>12. 0 \in 0 .. n
  BY <1>1
<1> HIDE DEF n, e, b
<1>13. \A l \in 1 .. n : First[v][l] = First[v][l - 1] + e[l]
  BY <1>6, <1>10, <1>11
<1>14. \A l \in 0 .. n : First[v][l] \in Nat
  BY <1>5, <1>10
<1>15. First[v][0] = b
  BY <1>5, <1>10, <1>12
<1> QED BY <1>1, <1>13, <1>14, <1>15 DEF n, e, b

(* An entry stands for the blocks that come after those of the entries     *)
(* before it, and together they are the blocks of the volume.              *)
EndsAt(v, i) == WalkStart(v, i) + NumBlocks(v, i)
LEMMA BlocksAre ==
  ASSUME NEW v \in Volume
  PROVE  /\ EndsAt(v, Entries(v)) = NumOfBlocks[v]
         /\ \A i \in 1 .. Entries(v) :
              /\ EndsAt(v, i) <= NumOfBlocks[v]
              /\ \A k \in 1 .. NumBlocks(v, i) : Lengths[v][WalkStart(v, i) + k] = BlockLength(v, i)
<1> DEFINE m == Entries(v)
           V == Nat \ {0}
           e == OfEntries(v)
           Tiles(s, j) == /\ EndsAt(v, j) <= Len(s)
                          /\ \A k \in 1 .. NumBlocks(v, j) : s[WalkStart(v, j) + k] = BlockLength(v, j)
<1>1. m \in Nat /\ 1 <= m /\ \A i \in 1 .. m : NumBlocks(v, i) \in Nat \ {0} /\ WalkStart(v, i) \in Nat
  BY MapIs, WalkIs
<1>2. PICK f \in [1 .. m -> Seq(V)] :
        /\ Lengths[v] = f[m] /\ f[1] = e[1] /\ \A i \in 2 .. m : f[i] = f[i - 1] \o e[i]
  BY LengthsAre
<1>3. ASSUME NEW i \in 1 .. m
      PROVE  /\ e[i] \in Seq(V) /\ Len(e[i]) = NumBlocks(v, i)
             /\ \A k \in 1 .. NumBlocks(v, i) : e[i][k] = BlockLength(v, i)
  <2>1. e[i] = [n \in 1 .. NumBlocks(v, i) |-> BlockLength(v, i)]
    BY MapIs DEF OfEntries
  <2>2. NumBlocks(v, i) \in Nat /\ BlockLength(v, i) \in V
    BY MapIs
  <2> HIDE DEF V, e
  <2> QED BY <2>1, <2>2
<1> DEFINE S == {i \in 1 .. m : Len(f[i]) = EndsAt(v, i) /\ \A j \in 1 .. i : Tiles(f[i], j)}
<1>4. 1 \in S
  <2>1. 1 \in 1 .. m /\ WalkStart(v, 1) = 0
    BY <1>1, WalkIs
  <2>2. EndsAt(v, 1) = NumBlocks(v, 1)
    BY <1>1, <2>1 DEF EndsAt
  <2>3. Len(f[1]) = NumBlocks(v, 1)
    BY <1>2, <1>3, <2>1
  <2> HIDE DEF e, V, m
  <2>4. Tiles(f[1], 1)
    <3>1. \A k \in 1 .. NumBlocks(v, 1) : WalkStart(v, 1) + k = k
      BY <2>1
    <3>2. NumBlocks(v, 1) \in Nat
      BY <1>1, <2>1
    <3> QED BY <1>2, <1>3, <2>1, <2>2, <2>3, <3>1, <3>2
  <2>5. \A j \in 1 .. 1 : j = 1
    OBVIOUS
  <2> HIDE DEF Tiles
  <2> QED BY <2>1, <2>2, <2>3, <2>4, <2>5
<1>5. ASSUME NEW i \in 1 .. m - 1, i \in S PROVE i + 1 \in S
  <2>1. i + 1 \in 2 .. m /\ i + 1 \in 1 .. m /\ i \in 1 .. m /\ (i + 1) - 1 = i
    BY <1>1
  <2>2. f[i + 1] = f[i] \o e[i + 1] /\ f[i] \in Seq(V)
    BY <1>2, <2>1
  <2>3. /\ e[i + 1] \in Seq(V) /\ Len(e[i + 1]) = NumBlocks(v, i + 1)
        /\ \A k \in 1 .. NumBlocks(v, i + 1) : e[i + 1][k] = BlockLength(v, i + 1)
    BY <1>3, <2>1
  <2>4. WalkStart(v, i + 1) = EndsAt(v, i)
    BY <2>1, WalkIs DEF EndsAt
  <2>5. Len(f[i]) = EndsAt(v, i) /\ \A j \in 1 .. i : Tiles(f[i], j)
    BY <1>5
  <2> HIDE DEF V, e, Tiles, S, m
  <2>6. /\ Len(f[i + 1]) = Len(f[i]) + NumBlocks(v, i + 1) /\ Len(f[i]) \in Nat
        /\ \A p \in 1 .. Len(f[i]) : f[i + 1][p] = f[i][p]
        /\ \A p \in 1 .. NumBlocks(v, i + 1) : f[i + 1][Len(f[i]) + p] = e[i + 1][p]
    <3> DEFINE p1 == f[i]
               p2 == e[i + 1]
    <3>1. p1 \in Seq(V) /\ p2 \in Seq(V) /\ Len(p2) = NumBlocks(v, i + 1) /\ f[i + 1] = p1 \o p2
      BY <2>2, <2>3
    <3> HIDE DEF p1, p2
    <3>2. /\ Len(p1 \o p2) = Len(p1) + Len(p2) /\ Len(p1) \in Nat
          /\ \A p \in 1 .. Len(p1) : (p1 \o p2)[p] = p1[p]
          /\ \A p \in 1 .. Len(p2) : (p1 \o p2)[Len(p1) + p] = p2[p]
      <4>1. p1 \in Seq(V) /\ p2 \in Seq(V)
        BY <3>1
      <4> QED BY <4>1
    <3> QED BY <3>1, <3>2 DEF p1, p2
  <2>7. Len(f[i + 1]) = EndsAt(v, i + 1)
    BY <2>4, <2>5, <2>6 DEF EndsAt
  <2>8. Tiles(f[i + 1], i + 1)
    <3>1. EndsAt(v, i + 1) <= Len(f[i + 1])
      BY <2>6, <2>7, <2>1, <1>1
    <3>2. \A k \in 1 .. NumBlocks(v, i + 1) : f[i + 1][WalkStart(v, i + 1) + k] = BlockLength(v, i + 1)
      BY <2>3, <2>4, <2>5, <2>6
    <3> QED BY <3>1, <3>2 DEF Tiles
  <2>9. ASSUME NEW j \in 1 .. i PROVE Tiles(f[i + 1], j)
    <3>1. j \in 1 .. m
      BY <1>1, <2>1
    <3>2. /\ EndsAt(v, j) <= Len(f[i])
          /\ \A k \in 1 .. NumBlocks(v, j) : f[i][WalkStart(v, j) + k] = BlockLength(v, j)
      BY <2>5 DEF Tiles
    <3>3. WalkStart(v, j) \in Nat /\ NumBlocks(v, j) \in Nat /\ NumBlocks(v, i + 1) \in Nat
      BY <1>1, <2>1, <3>1
    <3>4. EndsAt(v, j) <= Len(f[i + 1])
      BY <2>6, <3>2, <3>3 DEF EndsAt
    <3>5. \A k \in 1 .. NumBlocks(v, j) : WalkStart(v, j) + k \in 1 .. Len(f[i])
      BY <2>6, <3>2, <3>3 DEF EndsAt
    <3> QED BY <2>6, <3>2, <3>4, <3>5 DEF Tiles
  <2>10. \A j \in 1 .. i + 1 : j \in 1 .. i \/ j = i + 1
    BY <2>1
  <2>11. \A j \in 1 .. i + 1 : Tiles(f[i + 1], j)
    BY <2>8, <2>9, <2>10
  <2> QED BY <2>1, <2>7, <2>11 DEF S
<1>6. m \in S
  <2>1. 1 \in Int /\ m \in Int /\ m \in 1 .. m
    BY <1>1
  <2> HIDE DEF S, m
  <2>2. 1 .. m \subseteq S
    BY <1>4, <1>5, <2>1, Upward
  <2> QED BY <2>1, <2>2
<1>7. NumOfBlocks[v] = Len(f[m])
  BY <1>2 DEF NumOfBlocks
<1>8. Len(f[m]) = EndsAt(v, m) /\ \A j \in 1 .. m : Tiles(f[m], j)
  BY <1>6
<1> HIDE DEF S, e, V
<1> QED BY <1>2, <1>7, <1>8

(* A block begins where the walk puts it.                                  *)
LEMMA FirstFrom ==
  ASSUME NEW v \in Volume, NEW i \in 1 .. Entries(v),
         First[v][WalkStart(v, i)] = Base[v] + WalkOffset(v, i)
  PROVE  \A k \in 0 .. NumBlocks(v, i) :
            First[v][WalkStart(v, i) + k] = Base[v] + WalkOffset(v, i) + k * BlockLength(v, i)
<1> DEFINE n == NumBlocks(v, i)
           b == BlockLength(v, i)
           s == WalkStart(v, i)
           o == Base[v] + WalkOffset(v, i)
           S == {k \in 0 .. n : First[v][s + k] = o + k * b}
<1>1. n \in Nat /\ b \in Nat /\ s \in Nat /\ o \in Nat /\ s + n <= NumOfBlocks[v] /\ NumOfBlocks[v] \in Nat
  BY MapIs, WalkIs, BlocksAre, FirstIs DEF EndsAt
<1>2. 0 \in S
  <2>1. s + 0 = s /\ 0 * b = 0 /\ o + 0 = o /\ 0 \in 0 .. n
    BY <1>1
  <2>2. First[v][s] = o
    OBVIOUS
  <2> HIDE DEF s, o, b, n
  <2>3. First[v][s + 0] = o + 0 * b
    BY <2>1, <2>2
  <2> QED BY <2>1, <2>3
<1>3. ASSUME NEW k \in 0 .. n - 1, k \in S PROVE k + 1 \in S
  <2>1. k + 1 \in 0 .. n /\ s + (k + 1) \in 1 .. NumOfBlocks[v] /\ (s + (k + 1)) - 1 = s + k
        /\ k + 1 \in 1 .. n
    BY <1>1
  <2>2. First[v][s + (k + 1)] = First[v][s + k] + Lengths[v][s + (k + 1)]
    BY <2>1, FirstIs
  <2>3. Lengths[v][s + (k + 1)] = b
    BY <2>1, BlocksAre
  <2>4. First[v][s + k] = o + k * b
    BY <1>3
  <2>5. k * b \in Nat /\ (k + 1) * b = k * b + b
    BY <1>1
  <2> HIDE DEF s, o, b, n
  <2>6. First[v][s + (k + 1)] = o + (k + 1) * b
    BY <1>1, <2>2, <2>3, <2>4, <2>5
  <2> QED BY <2>1, <2>6
<1>4. 0 .. n \subseteq S
  <2>1. 0 \in Int /\ n \in Int
    BY <1>1
  <2> HIDE DEF n, S
  <2> QED BY <1>2, <1>3, <2>1, Upward
<1>5. \A k \in 0 .. n : First[v][s + k] = o + k * b
  <2> HIDE DEF n, s, o, b
  <2> QED BY <1>4
<1> QED BY <1>5

LEMMA EntryBegins ==
  ASSUME NEW v \in Volume
  PROVE  \A i \in 1 .. Entries(v) : First[v][WalkStart(v, i)] = Base[v] + WalkOffset(v, i)
<1> DEFINE m == Entries(v)
           S == {i \in 1 .. m : First[v][WalkStart(v, i)] = Base[v] + WalkOffset(v, i)}
<1>1. m \in Nat /\ 1 <= m /\ 1 \in 1 .. m /\ Base[v] \in Nat
  BY MapIs
<1>2. 1 \in S
  <2>1. WalkStart(v, 1) = 0 /\ WalkOffset(v, 1) = 0 /\ First[v][0] = Base[v]
    BY WalkIs, FirstIs
  <2>2. First[v][WalkStart(v, 1)] = Base[v] + WalkOffset(v, 1)
    BY <1>1, <2>1
  <2> QED BY <1>1, <2>2
<1>3. ASSUME NEW i \in 1 .. m - 1, i \in S PROVE i + 1 \in S
  <2>1. i + 1 \in 2 .. m /\ i + 1 \in 1 .. m /\ i \in 1 .. m /\ (i + 1) - 1 = i
    BY <1>1
  <2>2. /\ WalkStart(v, i + 1) = WalkStart(v, i) + NumBlocks(v, i)
        /\ WalkOffset(v, i + 1) = WalkOffset(v, i) + NumBlocks(v, i) * BlockLength(v, i)
    BY <2>1, WalkIs
  <2>3. NumBlocks(v, i) \in Nat /\ NumBlocks(v, i) \in 0 .. NumBlocks(v, i) /\ BlockLength(v, i) \in Nat
    BY <2>1, MapIs
  <2>4. First[v][WalkStart(v, i) + NumBlocks(v, i)] =
          Base[v] + WalkOffset(v, i) + NumBlocks(v, i) * BlockLength(v, i)
    BY <1>3, <2>1, <2>3, FirstFrom
  <2>5. WalkOffset(v, i) \in Nat /\ NumBlocks(v, i) * BlockLength(v, i) \in Nat
    BY <2>1, <2>3, WalkIs
  <2>6. First[v][WalkStart(v, i + 1)] = Base[v] + WalkOffset(v, i + 1)
    BY <1>1, <2>2, <2>4, <2>5
  <2> QED BY <2>1, <2>6
<1>4. 1 .. m \subseteq S
  <2>1. 1 \in Int /\ m \in Int
    BY <1>1
  <2> HIDE DEF m, S
  <2> QED BY <1>2, <1>3, <2>1, Upward
<1> QED BY <1>4

(* Every block is in the range of an entry.                                *)
InEntry(v, i, l) == WalkStart(v, i) <= l /\ l < EndsAt(v, i)
LEMMA BlockHasEntry ==
  ASSUME NEW v \in Volume, NEW l \in LbaOf(v)
  PROVE  \E i \in 1 .. Entries(v) : InEntry(v, i, l)
<1> DEFINE m == Entries(v)
           S == {i \in 1 .. m : l < EndsAt(v, i) => \E j \in 1 .. m : InEntry(v, j, l)}
<1>1. m \in Nat /\ 1 <= m /\ 1 \in 1 .. m /\ l \in Nat /\ l < NumOfBlocks[v] /\ NumOfBlocks[v] \in Nat
  BY MapIs, FirstIs DEF LbaOf
<1>2. 1 \in S
  <2>1. WalkStart(v, 1) <= l
    BY <1>1, WalkIs
  <2> QED BY <1>1, <2>1 DEF InEntry
<1>3. ASSUME NEW i \in 1 .. m - 1, i \in S PROVE i + 1 \in S
  <2>1. i + 1 \in 2 .. m /\ i + 1 \in 1 .. m /\ i \in 1 .. m /\ (i + 1) - 1 = i
    BY <1>1
  <2>2. WalkStart(v, i + 1) = EndsAt(v, i) /\ EndsAt(v, i) \in Nat
    BY <2>1, WalkIs, MapIs DEF EndsAt
  <2>3. l < EndsAt(v, i) \/ WalkStart(v, i + 1) <= l
    BY <1>1, <2>2
  <2>4. ASSUME l < EndsAt(v, i + 1) PROVE \E j \in 1 .. m : InEntry(v, j, l)
    BY <1>3, <2>1, <2>3, <2>4 DEF InEntry
  <2> QED BY <2>1, <2>4
<1>4. m \in S
  <2>1. 1 \in Int /\ m \in Int /\ m \in 1 .. m
    BY <1>1
  <2> HIDE DEF m, S
  <2>2. 1 .. m \subseteq S
    BY <1>2, <1>3, <2>1, Upward
  <2> QED BY <2>1, <2>2
<1>5. l < EndsAt(v, m)
  BY <1>1, BlocksAre
<1> QED BY <1>4, <1>5

(* FvbGetLbaAddress finds the place of every block of the volume, and of   *)
(* no other.                                                               *)
LEMMA AddressIs ==
  ASSUME NEW v \in Volume, NEW l \in Nat
  PROVE  FvbGetLbaAddress(v, l) =
            IF l \in LbaOf(v) THEN {[address |-> First[v][l], length |-> Lengths[v][l + 1]]} ELSE {}
<1> DEFINE m == Entries(v)
           At(i) == [address |-> Base[v] + WalkOffset(v, i) + (l - WalkStart(v, i)) * BlockLength(v, i),
                     length |-> BlockLength(v, i)]
           Holding == {j \in 1 .. m : InEntry(v, j, l)}
<1>1. FvbGetLbaAddress(v, l) = {At(i) : i \in Holding}
  BY MapIs DEF FvbGetLbaAddress, WalkStart, WalkOffset, NumBlocks, BlockLength, InEntry, EndsAt
<1>2. ASSUME NEW i \in Holding
      PROVE  l \in LbaOf(v) /\ At(i) = [address |-> First[v][l], length |-> Lengths[v][l + 1]]
  <2> DEFINE k == l - WalkStart(v, i)
  <2>1. i \in 1 .. m /\ WalkStart(v, i) <= l /\ l < EndsAt(v, i) /\ NumBlocks(v, i) \in Nat
        /\ WalkStart(v, i) \in Nat /\ EndsAt(v, i) <= NumOfBlocks[v] /\ NumOfBlocks[v] \in Nat
    BY MapIs, WalkIs, BlocksAre, FirstIs DEF InEntry
  <2>2. /\ k \in 0 .. NumBlocks(v, i) /\ k + 1 \in 1 .. NumBlocks(v, i)
        /\ WalkStart(v, i) + k = l /\ WalkStart(v, i) + (k + 1) = l + 1
        /\ l \in LbaOf(v)
    BY <2>1 DEF EndsAt, LbaOf
  <2> HIDE DEF k
  <2>3. First[v][l] = Base[v] + WalkOffset(v, i) + k * BlockLength(v, i)
    BY <2>1, <2>2, EntryBegins, FirstFrom
  <2>4. Lengths[v][l + 1] = BlockLength(v, i)
    BY <2>1, <2>2, BlocksAre
  <2> QED BY <2>2, <2>3, <2>4 DEF k
<1>3. ASSUME l \in LbaOf(v) PROVE Holding # {}
  BY <1>3, BlockHasEntry
<1> HIDE DEF At, Holding
<1> QED BY <1>1, <1>2, <1>3

(* The blocks are side by side, and none is empty.                         *)
LEMMA FirstGrows ==
  ASSUME NEW v \in Volume, NEW l \in LbaOf(v), NEW k \in LbaOf(v), l < k
  PROVE  First[v][l] + Lengths[v][l + 1] <= First[v][k]
<1> DEFINE n == NumOfBlocks[v]
           S == {p \in l + 1 .. k : First[v][l + 1] <= First[v][p]}
<1>1. n \in Nat /\ l \in Nat /\ k \in Nat /\ l + 1 <= k /\ k < n
  BY FirstIs DEF LbaOf
<1>2. l + 1 \in S
  BY <1>1, FirstIs
<1>3. ASSUME NEW p \in l + 1 .. k - 1, p \in S PROVE p + 1 \in S
  <2>1. p \in 0 .. n /\ p + 1 \in 0 .. n /\ p + 1 \in 1 .. n /\ (p + 1) - 1 = p /\ p + 1 \in l + 1 .. k /\ l + 1 \in 0 .. n
    BY <1>1
  <2>2. First[v][p + 1] = First[v][p] + Lengths[v][p + 1] /\ Lengths[v][p + 1] \in Nat
        /\ First[v][p] \in Nat /\ First[v][l + 1] \in Nat
    BY <2>1, FirstIs
  <2>3. First[v][l + 1] <= First[v][p]
    BY <1>3
  <2> QED BY <2>1, <2>2, <2>3
<1>4. k \in S
  <2>1. l + 1 \in Int /\ k \in Int /\ k \in l + 1 .. k
    BY <1>1
  <2> HIDE DEF S
  <2>2. l + 1 .. k \subseteq S
    BY <1>2, <1>3, <2>1, Upward
  <2> QED BY <2>1, <2>2
<1>5. l + 1 \in 1 .. n /\ (l + 1) - 1 = l
  BY <1>1
<1>6. First[v][l + 1] = First[v][l] + Lengths[v][l + 1]
  BY <1>5, FirstIs
<1> QED BY <1>4, <1>6

LEMMA PlaceIs ==
  ASSUME NEW v \in Volume, NEW l \in LbaOf(v)
  PROVE  /\ First[v][l] \in Nat /\ Lengths[v][l + 1] \in Nat \ {0} /\ l \in Nat
         /\ Place[v][l] = First[v][l] .. First[v][l] + Lengths[v][l + 1] - 1
         /\ First[v][l] \in Place[v][l] /\ Place[v][l] \subseteq Flash
<1>1. l \in Nat /\ NumOfBlocks[v] \in Nat /\ l < NumOfBlocks[v]
  BY FirstIs DEF LbaOf
<1>2. l + 1 \in 1 .. NumOfBlocks[v] /\ l \in 0 .. NumOfBlocks[v]
  BY <1>1
<1>3. First[v][l] \in Nat /\ Lengths[v][l + 1] \in Nat \ {0}
  BY <1>2, FirstIs
<1>4. Place[v][l] = First[v][l] .. First[v][l] + Lengths[v][l + 1] - 1
  BY DEF Place, Bytes
<1>5. First[v][l] \in Place[v][l]
  BY <1>3, <1>4
<1>6. Place[v][l] \subseteq Extent(v)
  BY DEF Extent
<1> QED BY <1>1, <1>3, <1>4, <1>5, <1>6, LayoutAssumption

LEMMA PlacesApart ==
  ASSUME NEW v \in Volume, NEW w \in Volume, NEW l \in LbaOf(v), NEW k \in LbaOf(w),
         NEW a, a \in Place[v][l], a \in Place[w][k]
  PROVE  v = w /\ l = k
<1>1. a \in Extent(v) /\ a \in Extent(w)
  BY DEF Extent
<1>2. v = w
  BY <1>1, LayoutAssumption
<1> DEFINE x == First[v][l]
           y == First[v][k]
           b == Lengths[v][l + 1]
           c == Lengths[v][k + 1]
<1>6. a \in x .. x + b - 1 /\ a \in y .. y + c - 1
      /\ x \in Nat /\ y \in Nat /\ b \in Nat /\ c \in Nat
  BY <1>2, PlaceIs
<1>3. ~(l < k)
  <2> SUFFICES ASSUME l < k PROVE FALSE
    OBVIOUS
  <2>1. First[v][l] + Lengths[v][l + 1] <= First[v][k]
    BY <1>2, FirstGrows
  <2>2. x + b <= y
    BY <2>1
  <2> HIDE DEF x, y, b, c
  <2> QED BY <1>6, <2>2
<1>4. ~(k < l)
  <2> SUFFICES ASSUME k < l PROVE FALSE
    OBVIOUS
  <2>1. First[v][k] + Lengths[v][k + 1] <= First[v][l]
    BY <1>2, FirstGrows
  <2>2. y + c <= x
    BY <2>1
  <2> HIDE DEF x, y, b, c
  <2> QED BY <1>6, <2>2
<1>5. l \in Nat /\ k \in Nat
  BY PlaceIs
<1> QED BY <1>2, <1>3, <1>4, <1>5

LEMMA HasBlock == ASSUME NEW v \in Volume PROVE 0 \in LbaOf(v)
<1>1. NumOfBlocks[v] \in Nat /\ EndsAt(v, Entries(v)) = NumOfBlocks[v] /\ Entries(v) \in 1 .. Entries(v)
  BY FirstIs, BlocksAre, MapIs
<1>2. NumOfBlocks[v] # 0
  BY <1>1, MapIs, WalkIs DEF EndsAt
<1> QED BY <1>1, <1>2 DEF LbaOf

(* The jobs and settings of a call, told apart by the call.                *)
LEMMA CallIs ==
  ASSUME NEW x \in {Idle} \cup Job \cup Setting
  PROVE  /\ x = Idle => x.call = "idle"
         /\ x.call \in {"write", "erase"} <=> x \in Job
         /\ x.call = "set" <=> x \in Setting
BY DEF Idle, Job, Setting

LEMMA JobIs ==
  ASSUME NEW x \in Job
  PROVE  /\ x.volume \in Volume /\ x.byte \in Byte /\ x.todo \subseteq Flash /\ x.done \subseteq Flash
         /\ x.blocks \in Seq(Nat) /\ x.code \in {"SUCCESS", "BAD_BUFFER_SIZE"}
         /\ x.asked \in [lba : Nat, offset : Nat, n : Nat] \cup {Nil}
         /\ x = [call |-> x.call, volume |-> x.volume, byte |-> x.byte, todo |-> x.todo,
                 done |-> x.done, blocks |-> x.blocks, code |-> x.code, asked |-> x.asked]
BY DEF Job

(* What the checks of FvbWriteBlock and FvbReadBlock let pass.             *)
LEMMA AcceptedIs ==
  ASSUME NEW v \in Volume, NEW lba \in Nat, NEW offset \in Nat, NEW n \in Nat, NEW enabled,
         Refusal(v, lba, offset, n, enabled) = Nil,
         NEW p \in FvbGetLbaAddress(v, lba)
  PROVE  /\ enabled /\ n # 0 /\ lba \in LbaOf(v)
         /\ p.address = First[v][lba] /\ p.length = Lengths[v][lba + 1] /\ offset <= p.length
         /\ Clip(p.length, offset, n) \in Nat /\ offset + Clip(p.length, offset, n) <= p.length
<1>1. lba \in LbaOf(v) /\ p = [address |-> First[v][lba], length |-> Lengths[v][lba + 1]]
      /\ FvbGetLbaAddress(v, lba) = {p}
  BY AddressIs
<1>2. p.address = First[v][lba] /\ p.length = Lengths[v][lba + 1] /\ p.length \in Nat
  BY <1>1, PlaceIs
<1>3. n # 0 /\ enabled /\ ~(offset > p.length)
  <2>1. Nil # "INVALID_PARAMETER" /\ Nil # "ACCESS_DENIED"
    BY FlashAssumption
  <2> QED BY <1>1, <2>1 DEF Refusal
<1>4. Clip(p.length, offset, n) \in Nat /\ offset + Clip(p.length, offset, n) <= p.length
  BY <1>2, <1>3 DEF Clip
<1> QED BY <1>1, <1>2, <1>3, <1>4

LEMMA AskedIs == ASSUME NEW v \in Volume PROVE LbaAsked(v) \subseteq Nat
<1>1. NumOfBlocks[v] \in Nat
  BY FirstIs
<1>2. FarLba \subseteq Nat
  BY LimitAssumption
<1>3. 0 .. NumOfBlocks[v] \subseteq Nat
  BY <1>1
<1> DEFINE near == 0 .. NumOfBlocks[v]
<1>4. LbaAsked(v) = near \cup FarLba
  BY DEF LbaAsked
<1> HIDE DEF near
<1>5. near \subseteq Nat
  BY <1>3 DEF near
<1> QED BY <1>2, <1>4, <1>5
LEMMA BoundsAre == ASSUME NEW t \in Actor PROVE MaxBytes[t] \in Nat /\ MaxRanges[t] \in Nat
BY LimitAssumption DEF Actor

(* No block number that is asked for is so large that a range from it wraps*)
(* around the numbers of an EFI_LBA.                                       *)
Unwrapped == \A v \in Volume : \A l \in LbaAsked(v) : l + NumOfBlocks[v] < LbaLimit

(* The blocks a job has still to erase are blocks of its volume.           *)
Listed(x) == x \in Job => \A i \in DOMAIN x.blocks : x.blocks[i] \in LbaOf(x.volume)

(* What a step of actor t does: it ends its call, begins or goes on with   *)
(* the bytes of a block, puts one of them, or clears or stores the status. *)
Clean(outcome, job) ==
    /\ outcome # Nil
    /\ outcome.code = "INVALID_PARAMETER" => outcome.changed = {} \/ ~Listed(job)
EndsCall(t) ==
    /\ op' = [op EXCEPT ![t] = Idle] /\ UNCHANGED <<memory, attributes>>
    /\ op[t] \notin Setting /\ (op[t] \in Job => op[t].todo = {})
    /\ Clean(result', op[t]) \/ result' = Nil
TakesBlock(t, x) ==
    /\ op' = [op EXCEPT ![t] = x] /\ UNCHANGED <<memory, attributes>> /\ result' = Nil
    /\ op[t] \notin Setting /\ (op[t] \in Job => op[t].todo = {})
    /\ x.todo # {} => attributes[x.volume].write
    /\ \E l \in LbaOf(x.volume) : x.todo \subseteq Place[x.volume][l]
    /\ Unwrapped /\ Listed(op[t]) => Listed(x)
    /\ Clipped(x)
PutsByte(t, x, a) ==
    /\ op' = [op EXCEPT ![t] = x] /\ UNCHANGED attributes /\ result' = Nil
    /\ op[t] \in Job /\ a \in op[t].todo
    /\ x.volume = op[t].volume /\ x.todo = op[t].todo \ {a} /\ x.blocks = op[t].blocks
    /\ memory' = [memory EXCEPT ![a] = op[t].byte]
    /\ Clipped(op[t]) => Clipped(x)
ClearsStatus(t, v, s) ==
    /\ op' = [op EXCEPT ![t] = [call |-> "set", volume |-> v, status |-> s]]
    /\ op[t] = Idle /\ (t = "event" => "set" \in EventCalls) /\ Settled(v, s) /\ Allowed(v, s)
    /\ attributes' = [attributes EXCEPT ![v] = [read |-> FALSE, write |-> FALSE, lock |-> FALSE]]
    /\ result' = Nil /\ UNCHANGED memory
SetsBits(t, v, s) ==
    attributes' = [attributes EXCEPT ![v] =
        [read |-> @.read \/ s.read, write |-> @.write \/ s.write, lock |-> @.lock \/ s.lock]]
StoresStatus(t) ==
    /\ op' = [op EXCEPT ![t] = Idle] /\ op[t] \in Setting
    /\ SetsBits(t, op[t].volume, op[t].status)
    /\ Clean(result', op[t]) \/ result' = Nil
    /\ UNCHANGED memory
StepOf(t) ==
    \/ EndsCall(t) \/ (\E x \in Job : TakesBlock(t, x)) \/ (\E x \in Job : \E a \in Flash : PutsByte(t, x, a))
    \/ (\E v \in Volume : \E s \in Status : ClearsStatus(t, v, s)) \/ StoresStatus(t)

LEMMA CleanIs ==
  ASSUME NEW c, NEW job
  PROVE  Clean([code |-> c, changed |-> {}], job) \/ [code |-> c, changed |-> {}] = Nil
BY DEF Clean

LEMMA QueryIs == ASSUME NEW v \in Volume, NEW l \in LbaAsked(v), SmmQuery(v, l) PROVE EndsCall("main")
<1>1. /\ op["main"] = Idle /\ op' = [op EXCEPT !["main"] = Idle] /\ UNCHANGED <<memory, attributes>>
      /\ \/ (\E a : result' = [code |-> "SUCCESS", changed |-> {}, answer |-> a])
         \/ result' = [code |-> "INVALID_PARAMETER", changed |-> {}]
  BY DEF SmmQuery, Calls, Handler, Return
<1>2. Clean(result', op["main"]) \/ result' = Nil
  BY <1>1 DEF Clean
<1>3. Idle \notin Setting /\ Idle \notin Job
  BY CallIs DEF Idle, Setting, Job
<1> QED BY <1>1, <1>2, <1>3 DEF EndsCall

LEMMA ReadIs ==
  ASSUME NEW t \in Actor, NEW v \in Volume, NEW l, NEW offset, NEW n, Read(t, v, l, offset, n)
  PROVE  EndsCall(t)
<1>1. /\ op[t] = Idle /\ op' = [op EXCEPT ![t] = Idle] /\ UNCHANGED <<memory, attributes>>
      /\ \E c : result' = [code |-> c, changed |-> {}]
  BY DEF Read, Calls, Return
<1>2. Clean(result', op[t]) \/ result' = Nil
  BY <1>1, CleanIs
<1>3. Idle \notin Setting /\ Idle \notin Job
  BY CallIs DEF Idle, Setting, Job
<1> QED BY <1>1, <1>2, <1>3 DEF EndsCall

(* The clip of FvbWriteBlock leaves what lies in the block.                *)
LEMMA ClipIs ==
  ASSUME NEW f \in Nat, NEW e \in Nat, NEW offset \in Nat, NEW n \in Nat \ {0}, offset <= e
  PROVE  LET some == Clip(e, offset, n)
             block == f .. f + e - 1
             all == {f + i : i \in offset .. offset + n - 1}
         IN  Bytes(f + offset, some) = all \cap block /\ (some < n <=> ~(all \subseteq block))
<1> DEFINE some == Clip(e, offset, n)
           block == f .. f + e - 1
           all == {f + i : i \in offset .. offset + n - 1}
<1>1. \A a : a \in all <=> a \in f + offset .. f + offset + n - 1
  <2>1. ASSUME NEW a \in all PROVE a \in f + offset .. f + offset + n - 1
    <3>1. PICK i \in offset .. offset + n - 1 : a = f + i
      OBVIOUS
    <3> QED BY <3>1
  <2>2. ASSUME NEW a \in f + offset .. f + offset + n - 1 PROVE a \in all
    <3>1. a - f \in offset .. offset + n - 1 /\ a = f + (a - f)
      OBVIOUS
    <3> QED BY <3>1
  <2> QED BY <2>1, <2>2
<1>2. some \in Nat /\ (some < n <=> e < n + offset) /\ (e < n + offset => some = e - offset)
      /\ (~(e < n + offset) => some = n)
  BY DEF Clip
<1> HIDE DEF some, all
<1>3. Bytes(f + offset, some) = all \cap block
  <2>1. ASSUME NEW a PROVE a \in f + offset .. f + offset + some - 1
                           <=> a \in f + offset .. f + offset + n - 1 /\ a \in block
    BY <1>2
  <2> QED BY <1>1, <2>1 DEF Bytes
<1>4. some < n <=> ~(all \subseteq block)
  <2>1. CASE e < n + offset
    <3>1. f + offset + n - 1 \in all /\ f + offset + n - 1 \notin block
      BY <1>1, <2>1
    <3> QED BY <1>2, <2>1, <3>1
  <2>2. CASE ~(e < n + offset)
    <3>1. \A a \in f + offset .. f + offset + n - 1 : a \in block
      BY <2>2
    <3> QED BY <1>1, <1>2, <2>2, <3>1
  <2> QED BY <2>1, <2>2
<1> QED BY <1>3, <1>4 DEF some, all

LEMMA WriteIs ==
  ASSUME NEW t \in Actor, NEW v \in Volume, NEW l \in LbaAsked(v),
         NEW offset \in 0 .. MaxBytes[t], NEW n \in 0 .. MaxBytes[t], NEW b \in Byte,
         Write(t, v, l, offset, n, b)
  PROVE  EndsCall(t) \/ \E x \in Job : TakesBlock(t, x)
<1>1. op[t] = Idle /\ UNCHANGED <<memory, attributes>> /\ Idle \notin Setting /\ Idle \notin Job
  BY CallIs DEF Write, Calls, Idle, Setting, Job
<1> DEFINE refusal == Refusal(v, l, offset, n, attributes[v].write)
<1>2. CASE refusal # Nil
  <2>1. op' = [op EXCEPT ![t] = Idle] /\ result' = [code |-> refusal, changed |-> {}]
    BY <1>2 DEF Write, Return
  <2>2. Clean(result', op[t]) \/ result' = Nil
    BY <2>1, CleanIs
  <2> QED BY <1>1, <2>1, <2>2 DEF EndsCall
<1>3. CASE refusal = Nil
  <2> DEFINE Some(p) == Clip(p.length, offset, n)
             x(p) == [call |-> "write", volume |-> v, byte |-> b,
                      todo |-> Bytes(p.address + offset, Some(p)), done |-> {}, blocks |-> <<>>,
                      code |-> IF Some(p) < n THEN "BAD_BUFFER_SIZE" ELSE "SUCCESS",
                      asked |-> [lba |-> l, offset |-> offset, n |-> n]]
  <2>1. PICK p \in FvbGetLbaAddress(v, l) : op' = [op EXCEPT ![t] = x(p)] /\ result' = Nil
    BY <1>3 DEF Write
  <2>2. l \in Nat /\ offset \in Nat /\ n \in Nat
    BY AskedIs, BoundsAre
  <2>3. /\ attributes[v].write /\ l \in LbaOf(v)
        /\ p.address = First[v][l] /\ p.length = Lengths[v][l + 1]
        /\ Some(p) \in Nat /\ offset + Some(p) <= p.length
    BY <1>3, <2>2, AcceptedIs
  <2>4. Bytes(p.address + offset, Some(p)) \subseteq Place[v][l] /\ Place[v][l] \subseteq Flash
    <3> DEFINE w == Some(p)
               f == First[v][l]
               e == Lengths[v][l + 1]
    <3>1. w \in Nat /\ f \in Nat /\ e \in Nat /\ offset + w <= e /\ p.address = f
          /\ Place[v][l] = f .. f + e - 1 /\ Place[v][l] \subseteq Flash
      BY <2>3, PlaceIs
    <3> HIDE DEF w, f, e
    <3>2. Bytes(f + offset, w) \subseteq f .. f + e - 1
      BY <2>2, <3>1 DEF Bytes
    <3> QED BY <3>1, <3>2 DEF w
  <2>5. x(p) \in Job
    <3>1. Bytes(p.address + offset, Some(p)) \in SUBSET Flash /\ {} \in SUBSET Flash /\ <<>> \in Seq(Nat)
      BY <2>4
    <3>2. (IF Some(p) < n THEN "BAD_BUFFER_SIZE" ELSE "SUCCESS") \in {"SUCCESS", "BAD_BUFFER_SIZE"}
      OBVIOUS
    <3>3. [lba |-> l, offset |-> offset, n |-> n] \in [lba : Nat, offset : Nat, n : Nat]
      BY <2>2
    <3> HIDE DEF Some
    <3> QED BY <3>1, <3>2, <3>3 DEF Job
  <2>6. x(p).todo = Bytes(p.address + offset, Some(p)) /\ x(p).volume = v /\ x(p).blocks = <<>>
    OBVIOUS
  <2>10. Clipped(x(p))
    <3> DEFINE w == Some(p)
               f == First[v][l]
               e == Lengths[v][l + 1]
    <3>1. f \in Nat /\ e \in Nat /\ n \in Nat \ {0} /\ offset \in Nat /\ offset <= e /\ p.address = f
          /\ p.length = e /\ Place[v][l] = f .. f + e - 1
      BY <1>3, <2>2, <2>3, AcceptedIs, PlaceIs
    <3> DEFINE block == f .. f + e - 1
               all == {f + i : i \in offset .. offset + n - 1}
    <3> HIDE DEF f, e
    <3>2. w = Clip(e, offset, n)
      BY <3>1
    <3>3. Bytes(f + offset, w) = all \cap block /\ (w < n <=> ~(all \subseteq block))
      <4>1. LET some == Clip(e, offset, n)
            IN  /\ Bytes(f + offset, some) = {f + i : i \in offset .. offset + n - 1} \cap (f .. f + e - 1)
                /\ (some < n <=> ~({f + i : i \in offset .. offset + n - 1} \subseteq f .. f + e - 1))
        <5>1. f \in Nat /\ e \in Nat /\ n \in Nat \ {0} /\ offset \in Nat /\ offset <= e
          BY <3>1
        <5> HIDE DEF w
        <5> QED BY <5>1, ClipIs
      <4> HIDE DEF w
      <4> QED BY <3>2, <4>1
    <3> HIDE DEF w
    <3>4. LET asked == x(p).asked
          IN  /\ asked.lba = l /\ asked.offset = offset /\ asked.n = n
              /\ x(p).volume = v /\ x(p).todo = Bytes(p.address + offset, w) /\ x(p).done = {}
              /\ x(p).code = IF w < n THEN "BAD_BUFFER_SIZE" ELSE "SUCCESS"
      BY DEF w
    <3> HIDE DEF x, all, block
    <3>5. x(p).todo \cup x(p).done = all \cap block
      BY <3>1, <3>3, <3>4
    <3>6. x(p).code = "SUCCESS" <=> all \subseteq block
      BY <3>3, <3>4
    <3>7. Place[v][l] = block /\ all = {First[v][l] + i : i \in offset .. offset + n - 1}
      BY <3>1 DEF block, all, f
    <3> QED BY <3>4, <3>5, <3>6, <3>7 DEF Clipped
  <2> DEFINE y == x(p)
  <2>7. y.todo \subseteq Place[v][l] /\ y.volume = v /\ y.blocks = <<>> /\ op' = [op EXCEPT ![t] = y]
        /\ y \in Job /\ Clipped(y)
    BY <2>1, <2>4, <2>5, <2>6, <2>10
  <2> HIDE DEF y
  <2>8. Listed(y)
    BY <2>7 DEF Listed
  <2>9. TakesBlock(t, y)
    BY <1>1, <2>1, <2>3, <2>7, <2>8 DEF TakesBlock
  <2> QED BY <2>7, <2>9
<1> QED BY <1>2, <1>3

LEMMA FlattenIn == ASSUME NEW V, NEW s \in Seq(Seq(V)) PROVE FlattenSeq(s) \in Seq(V)
<1>1. CASE Len(s) = 0
  <2>1. s = <<>> /\ FlattenSeq(s) = s
    BY <1>1 DEF FlattenSeq
  <2>2. <<>> \in Seq(V)
    OBVIOUS
  <2> QED BY <2>1, <2>2
<1>2. CASE Len(s) # 0
  <2>1. PICK f \in [1 .. Len(s) -> Seq(V)] : FlattenSeq(s) = f[Len(s)]
    BY <1>2, FlattenIs
  <2>2. Len(s) \in 1 .. Len(s)
    BY <1>2
  <2> DEFINE W == Seq(V)
             n == Len(s)
  <2> HIDE DEF W, n
  <2>3. f \in [1 .. n -> W] /\ n \in 1 .. n /\ FlattenSeq(s) = f[n]
    BY <2>1, <2>2 DEF W, n
  <2>4. FlattenSeq(s) \in W
    BY <2>3
  <2> QED BY <2>4 DEF W
<1> QED BY <1>1, <1>2

(* The blocks of a list of ranges, one by one.                             *)
RangeBlocks(r) == [k \in 1 .. r.n |-> (r.start + k - 1) % LbaLimit]
BlocksOf(ranges) == FlattenSeq([i \in DOMAIN ranges |-> RangeBlocks(ranges[i])])
LEMMA RangesAre ==
  ASSUME NEW t \in Actor, NEW v \in Volume, NEW ranges \in Ranges(t, v)
  PROVE  \E k \in Nat : ranges \in [1 .. k -> [start : LbaAsked(v), n : 0 .. NumOfBlocks[v]]]
<1>1. PICK k \in 0 .. MaxRanges[t] : ranges \in [1 .. k -> [start : LbaAsked(v), n : 0 .. NumOfBlocks[v]]]
  BY DEF Ranges
<1>2. k \in Nat
  BY BoundsAre
<1> QED BY <1>1, <1>2

LEMMA BlocksOfIn ==
  ASSUME NEW k \in Nat, NEW R, NEW ranges \in [1 .. k -> R], NEW V,
         \A r \in R : RangeBlocks(r) \in Seq(V)
  PROVE  BlocksOf(ranges) \in Seq(V)
<1> DEFINE W == Seq(V)
           s == [i \in DOMAIN ranges |-> RangeBlocks(ranges[i])]
<1>1. \A r \in R : RangeBlocks(r) \in W
  OBVIOUS
<1>2. s \in Seq(W)
  <2> HIDE DEF W
  <2>1. s \in [1 .. k -> W]
    BY <1>1
  <2> HIDE DEF s
  <2> QED BY <2>1
<1> HIDE DEF s
<1>3. FlattenSeq(s) \in Seq(V)
  BY <1>2, FlattenIn
<1> QED BY <1>3 DEF s, BlocksOf

LEMMA RangeIn ==
  ASSUME NEW v \in Volume, NEW r \in [start : LbaAsked(v), n : 0 .. NumOfBlocks[v]]
  PROVE  /\ RangeBlocks(r) \in Seq(Nat)
         /\ Unwrapped /\ Exists(v, r.start, r.n) => RangeBlocks(r) \in Seq(LbaOf(v))
<1>1. /\ r.start \in Nat /\ r.n \in Nat /\ r.start \in LbaAsked(v) /\ r.n <= NumOfBlocks[v]
      /\ LbaLimit \in Nat \ {0} /\ NumOfBlocks[v] \in Nat
  <2>1. r.start \in LbaAsked(v) /\ r.n \in 0 .. NumOfBlocks[v]
    OBVIOUS
  <2> QED BY <2>1, AskedIs, FirstIs, LimitAssumption
<1> DEFINE a == r.start
           n == r.n
<1>2. \A k \in 1 .. n : (a + k - 1) % LbaLimit \in Nat
  BY <1>1
<1>3. RangeBlocks(r) \in Seq(Nat)
  <2> HIDE DEF a, n
  <2>1. n \in Nat
    BY <1>1 DEF n
  <2>2. [k \in 1 .. n |-> (a + k - 1) % LbaLimit] \in Seq(Nat)
    BY <1>2, <2>1
  <2> QED BY <2>2 DEF RangeBlocks, a, n
<1>4. ASSUME Unwrapped, Exists(v, a, n) PROVE RangeBlocks(r) \in Seq(LbaOf(v))
  <2>1. a + NumOfBlocks[v] < LbaLimit
    BY <1>1, <1>4 DEF Unwrapped
  <2>2. (a + n) % LbaLimit <= NumOfBlocks[v] /\ a + n \in 0 .. LbaLimit - 1
    BY <1>1, <1>4, <2>1 DEF Exists
  <2>3. \A i \in 0 .. LbaLimit - 1 : i % LbaLimit = i
    BY <1>1
  <2>4. a + n <= NumOfBlocks[v]
    BY <2>2, <2>3
  <2>5. ASSUME NEW k \in 1 .. n PROVE (a + k - 1) % LbaLimit \in LbaOf(v)
    <3>1. a + k - 1 \in 0 .. LbaLimit - 1 /\ a + k - 1 \in 0 .. NumOfBlocks[v] - 1
      BY <1>1, <2>1, <2>4
    <3> QED BY <2>3, <3>1 DEF LbaOf
  <2>6. n \in Nat
    BY <1>1
  <2> HIDE DEF a, n
  <2>7. [k \in 1 .. n |-> (a + k - 1) % LbaLimit] \in Seq(LbaOf(v))
    BY <2>5, <2>6
  <2> QED BY <2>7 DEF RangeBlocks, a, n
<1> QED BY <1>3, <1>4

LEMMA EraseBlocksIs ==
  ASSUME NEW t \in Actor, NEW v \in Volume, NEW ranges \in Ranges(t, v), EraseBlocks(t, v, ranges)
  PROVE  EndsCall(t) \/ \E x \in Job : TakesBlock(t, x)
<1>1. op[t] = Idle /\ UNCHANGED <<memory, attributes>> /\ Idle \notin Setting /\ Idle \notin Job
  BY CallIs DEF EraseBlocks, Calls, Idle, Setting, Job
<1> DEFINE ok == \A i \in DOMAIN ranges : Exists(v, ranges[i].start, ranges[i].n)
<1>2. CASE ~ok
  <2>1. op' = [op EXCEPT ![t] = Idle] /\ result' = [code |-> "INVALID_PARAMETER", changed |-> {}]
    BY <1>2 DEF EraseBlocks, Return
  <2>2. Clean(result', op[t]) \/ result' = Nil
    BY <2>1, CleanIs
  <2> QED BY <1>1, <2>1, <2>2 DEF EndsCall
<1>3. CASE ok
  <2> DEFINE q == BlocksOf(ranges)
             x == [call |-> "erase", volume |-> v, byte |-> Erased, todo |-> {}, done |-> {},
                   code |-> "SUCCESS", asked |-> Nil, blocks |-> q]
  <2>1. op' = [op EXCEPT ![t] = x] /\ result' = Nil
    BY <1>3 DEF EraseBlocks, BlocksOf, RangeBlocks
  <2>2. PICK k \in Nat : ranges \in [1 .. k -> [start : LbaAsked(v), n : 0 .. NumOfBlocks[v]]]
    BY RangesAre
  <2>3. q \in Seq(Nat)
    <3> DEFINE R == [start : LbaAsked(v), n : 0 .. NumOfBlocks[v]]
    <3>1. \A r \in R : RangeBlocks(r) \in Seq(Nat)
      BY RangeIn
    <3>2. ranges \in [1 .. k -> R]
      BY <2>2
    <3> HIDE DEF R
    <3> QED BY <3>1, <3>2, BlocksOfIn
  <2>4. ASSUME Unwrapped PROVE q \in Seq(LbaOf(v))
    <3> DEFINE R == {r \in [start : LbaAsked(v), n : 0 .. NumOfBlocks[v]] : Exists(v, r.start, r.n)}
    <3>1. \A r \in R : RangeBlocks(r) \in Seq(LbaOf(v))
      BY <2>4, RangeIn
    <3>2. ranges \in [1 .. k -> R]
      BY <1>3, <2>2
    <3> HIDE DEF R
    <3> QED BY <3>1, <3>2, BlocksOfIn
  <2> HIDE DEF q
  <2>5. x \in Job
    <3>1. Erased \in Byte /\ {} \in SUBSET Flash
      BY FlashAssumption
    <3> QED BY <2>3, <3>1 DEF Job
  <2>6. x.todo = {} /\ x.volume = v /\ x.blocks = q /\ x.call = "erase"
    OBVIOUS
  <2> HIDE DEF x
  <2>7. ASSUME Unwrapped PROVE Listed(x)
    <3> DEFINE L == LbaOf(v)
    <3> HIDE DEF L
    <3>1. q \in Seq(L)
      BY <2>4, <2>7 DEF L
    <3>2. \A i \in DOMAIN q : q[i] \in L
      BY <3>1
    <3> QED BY <2>6, <3>2 DEF Listed, L
  <2>8. \E l \in LbaOf(x.volume) : x.todo \subseteq Place[x.volume][l]
    BY <2>6, HasBlock
  <2>9. TakesBlock(t, x)
    BY <1>1, <2>1, <2>6, <2>7, <2>8 DEF TakesBlock, Clipped
  <2> QED BY <2>5, <2>9
<1> QED BY <1>2, <1>3

(* The job of a call, and how it goes on.                                  *)
LEMMA WorkingIs ==
  ASSUME FlashTypeOK, NEW t \in Actor
  PROVE  /\ op[t] \in {Idle} \cup Job \cup Setting
         /\ op[t].call \in {"write", "erase"} => op[t] \in Job /\ op[t] \notin Setting
         /\ op[t].call = "set" => op[t] \in Setting
<1>1. op[t] \in {Idle} \cup Job \cup Setting
  BY DEF FlashTypeOK
<1>2. op[t].call \in {"write", "erase"} => op[t].call # "set"
  OBVIOUS
<1> QED BY <1>1, <1>2, CallIs

(* A job with two of its fields changed.                                   *)
JobOf(c, v, b, t, d, q, o, k) ==
    [call |-> c, volume |-> v, byte |-> b, todo |-> t, done |-> d, blocks |-> q, code |-> o, asked |-> k]
LEMMA TodoIs ==
  ASSUME NEW c, NEW v, NEW b, NEW t, NEW d, NEW q, NEW o, NEW k, NEW new
  PROVE  [JobOf(c, v, b, t, d, q, o, k) EXCEPT !.todo = new] = JobOf(c, v, b, new, d, q, o, k)
BY DEF JobOf
LEMMA BlocksIs ==
  ASSUME NEW c, NEW v, NEW b, NEW t, NEW d, NEW q, NEW o, NEW k, NEW new
  PROVE  [JobOf(c, v, b, t, d, q, o, k) EXCEPT !.blocks = new] = JobOf(c, v, b, t, d, new, o, k)
BY DEF JobOf
LEMMA DoneIs ==
  ASSUME NEW c, NEW v, NEW b, NEW t, NEW d, NEW q, NEW o, NEW k, NEW new
  PROVE  [JobOf(c, v, b, t, d, q, o, k) EXCEPT !.done = new] = JobOf(c, v, b, t, new, q, o, k)
BY DEF JobOf
LEMMA BothAre ==
  ASSUME NEW e, NEW x, NEW y
  PROVE  /\ [e EXCEPT !.todo = x, !.blocks = y] = [[e EXCEPT !.todo = x] EXCEPT !.blocks = y]
         /\ [e EXCEPT !.todo = x, !.done = y] = [[e EXCEPT !.todo = x] EXCEPT !.done = y]
OBVIOUS
IsJob(e) == e = JobOf(e.call, e.volume, e.byte, e.todo, e.done, e.blocks, e.code, e.asked)
LEMMA Retaken ==
  ASSUME NEW e, IsJob(e), NEW x, NEW y
  PROVE  /\ [e EXCEPT !.todo = x, !.blocks = y]
              = JobOf(e.call, e.volume, e.byte, x, e.done, y, e.code, e.asked)
         /\ [e EXCEPT !.todo = x, !.done = y]
              = JobOf(e.call, e.volume, e.byte, x, y, e.blocks, e.code, e.asked)
<1> DEFINE c == e.call
           v == e.volume
           b == e.byte
           t == e.todo
           d == e.done
           q == e.blocks
           o == e.code
           k == e.asked
<1>0. e = JobOf(c, v, b, t, d, q, o, k)
  BY DEF IsJob
<1> HIDE DEF c, v, b, t, d, q, o, k
<1>1. [e EXCEPT !.todo = x] = JobOf(c, v, b, x, d, q, o, k)
  BY <1>0, TodoIs
<1>2. /\ [JobOf(c, v, b, x, d, q, o, k) EXCEPT !.blocks = y] = JobOf(c, v, b, x, d, y, o, k)
      /\ [JobOf(c, v, b, x, d, q, o, k) EXCEPT !.done = y] = JobOf(c, v, b, x, y, q, o, k)
  BY BlocksIs, DoneIs
<1>3. /\ [e EXCEPT !.todo = x, !.blocks = y] = JobOf(c, v, b, x, d, y, o, k)
      /\ [e EXCEPT !.todo = x, !.done = y] = JobOf(c, v, b, x, y, q, o, k)
  BY <1>1, <1>2, BothAre
<1> QED BY <1>3 DEF c, v, b, t, d, q, o, k

LEMMA EraseBlockIs ==
  ASSUME FlashTypeOK, NEW t \in Actor, EraseBlock(t)
  PROVE  EndsCall(t) \/ \E x \in Job : TakesBlock(t, x)
<1> DEFINE j == op[t]
           v == j.volume
           l == Head(j.blocks)
           place == FvbGetLbaAddress(v, l)
<1>1. /\ j.call = "erase" /\ j.todo = {} /\ j.blocks # <<>> /\ UNCHANGED <<memory, attributes>>
      /\ j \in Job /\ j \notin Setting /\ v \in Volume /\ j.blocks \in Seq(Nat)
      /\ j.done \subseteq Flash /\ j.byte \in Byte /\ j.code \in {"SUCCESS", "BAD_BUFFER_SIZE"}
      /\ j.asked \in [lba : Nat, offset : Nat, n : Nat] \cup {Nil}
  <2>1. j.call = "erase" /\ j.todo = {} /\ j.blocks # <<>> /\ UNCHANGED <<memory, attributes>>
    BY DEF EraseBlock
  <2>2. j \in Job /\ j \notin Setting
    BY <2>1, WorkingIs
  <2> HIDE DEF j
  <2> QED BY <2>1, <2>2, JobIs
<1>2. l \in Nat /\ Tail(j.blocks) \in Seq(Nat) /\ 1 \in DOMAIN j.blocks /\ l = j.blocks[1]
  <2> DEFINE q == j.blocks
  <2>1. q \in Seq(Nat) /\ q # <<>>
    BY <1>1
  <2> HIDE DEF q
  <2>2. Head(q) \in Nat /\ Tail(q) \in Seq(Nat) /\ 1 \in DOMAIN q /\ Head(q) = q[1]
    BY <2>1
  <2> QED BY <2>2 DEF q
<1>3. CASE ~attributes[v].write
  <2>1. op' = [op EXCEPT ![t] = Idle] /\ result' = [code |-> "ACCESS_DENIED", changed |-> j.done]
    BY <1>3 DEF EraseBlock, Return
  <2>2. Clean(result', op[t]) \/ result' = Nil
    BY <2>1 DEF Clean
  <2> QED BY <1>1, <2>1, <2>2 DEF EndsCall
<1>4. CASE attributes[v].write /\ place = {}
  <2>1. op' = [op EXCEPT ![t] = Idle] /\ result' = [code |-> "INVALID_PARAMETER", changed |-> j.done]
    BY <1>4 DEF EraseBlock, Return
  <2>2. l \notin LbaOf(v)
    <3>1. v \in Volume /\ l \in Nat /\ FvbGetLbaAddress(v, l) = {}
      BY <1>1, <1>2, <1>4
    <3> HIDE DEF v, l
    <3>2. l \in LbaOf(v) => FvbGetLbaAddress(v, l) # {}
      BY <3>1, AddressIs
    <3> QED BY <3>1, <3>2
  <2>3. ~Listed(j)
    BY <1>1, <1>2, <2>2 DEF Listed
  <2>4. Clean(result', op[t]) \/ result' = Nil
    BY <2>1, <2>3 DEF Clean
  <2> QED BY <1>1, <2>1, <2>4 DEF EndsCall
<1>5. CASE attributes[v].write /\ place # {}
  <2>1. PICK p \in place : /\ op' = [op EXCEPT ![t].todo = Bytes(p.address, p.length),
                                               ![t].blocks = Tail(@)]
                           /\ result' = Nil
    BY <1>5 DEF EraseBlock
  <2>2. l \in LbaOf(v) /\ p.address = First[v][l] /\ p.length = Lengths[v][l + 1]
    BY <1>1, <1>2, <2>1, AddressIs
  <2>3. Bytes(p.address, p.length) = Place[v][l]
    BY <1>1, <2>2, PlaceIs DEF Bytes
  <2> DEFINE x == [call |-> j.call, volume |-> j.volume, byte |-> j.byte, todo |-> Place[v][l],
                   done |-> j.done, blocks |-> Tail(j.blocks), code |-> j.code, asked |-> j.asked]
  <2>4. op' = [op EXCEPT ![t] = x]
    <3>1. j = [call |-> j.call, volume |-> j.volume, byte |-> j.byte, todo |-> j.todo,
               done |-> j.done, blocks |-> j.blocks, code |-> j.code, asked |-> j.asked]
      <4> HIDE DEF j
      <4> QED BY <1>1, JobIs
    <3>2. [j EXCEPT !.todo = Place[v][l], !.blocks = Tail(j.blocks)] = x
      <4> DEFINE n == Place[v][l]
                 q == Tail(j.blocks)
      <4>1. IsJob(j)
        BY <3>1 DEF IsJob, JobOf
      <4>2. x = JobOf(j.call, j.volume, j.byte, n, j.done, q, j.code, j.asked)
        BY DEF JobOf
      <4> HIDE DEF j, x, n, q
      <4>3. [j EXCEPT !.todo = n, !.blocks = q] = x
        BY <4>1, <4>2, Retaken
      <4> QED BY <4>3 DEF n, q
    <3>3. op' = [op EXCEPT ![t] = [j EXCEPT !.todo = Place[v][l], !.blocks = Tail(j.blocks)]]
      BY <2>1, <2>3
    <3> HIDE DEF x
    <3> QED BY <3>2, <3>3
  <2>5. x \in Job
    <3>1. Place[v][l] \in SUBSET Flash
      BY <1>1, <2>2, PlaceIs
    <3> HIDE DEF j
    <3> QED BY <1>1, <1>2, <3>1 DEF Job
  <2>6. x.todo = Place[v][l] /\ x.volume = v /\ x.blocks = Tail(j.blocks) /\ x.call = j.call
    OBVIOUS
  <2> HIDE DEF x
  <2>7. ASSUME Listed(j) PROVE Listed(x)
    <3> DEFINE q == j.blocks
               L == LbaOf(v)
    <3>1. q \in Seq(Nat) /\ q # <<>> /\ \A i \in DOMAIN q : q[i] \in L
      BY <1>1, <2>7 DEF Listed
    <3> HIDE DEF q, L
    <3>2. \A i \in DOMAIN Tail(q) : Tail(q)[i] = q[i + 1] /\ i + 1 \in DOMAIN q
      BY <3>1
    <3>3. \A i \in DOMAIN Tail(q) : Tail(q)[i] \in L
      BY <3>1, <3>2
    <3> QED BY <2>6, <3>3 DEF Listed, q, L
  <2>8. \E k \in LbaOf(x.volume) : x.todo \subseteq Place[x.volume][k]
    BY <2>2, <2>6
  <2>9. TakesBlock(t, x)
    BY <1>1, <1>5, <2>1, <2>4, <2>6, <2>7, <2>8 DEF TakesBlock, Clipped
  <2> QED BY <2>5, <2>9
<1> QED BY <1>3, <1>4, <1>5

LEMMA PutByteIs ==
  ASSUME FlashTypeOK, NEW t \in Actor, PutByte(t)
  PROVE  \E x \in Job : \E a \in Flash : PutsByte(t, x, a)
<1> DEFINE j == op[t]
<1>1. j.call \in {"write", "erase"} /\ UNCHANGED attributes /\ result' = Nil
  BY DEF PutByte
<1>2. j \in Job
  BY <1>1, WorkingIs
<1>3. PICK a \in j.todo : /\ memory' = [memory EXCEPT ![a] = j.byte]
                          /\ op' = [op EXCEPT ![t].todo = @ \ {a}, ![t].done = @ \cup {a}]
  BY DEF PutByte
<1>4. /\ j.todo \subseteq Flash /\ j.done \subseteq Flash /\ a \in Flash
      /\ j = [call |-> j.call, volume |-> j.volume, byte |-> j.byte, todo |-> j.todo,
              done |-> j.done, blocks |-> j.blocks, code |-> j.code, asked |-> j.asked]
      /\ j.volume \in Volume /\ j.blocks \in Seq(Nat) /\ j.byte \in Byte
      /\ j.code \in {"SUCCESS", "BAD_BUFFER_SIZE"}
      /\ j.asked \in [lba : Nat, offset : Nat, n : Nat] \cup {Nil}
  <2> HIDE DEF j
  <2> QED BY <1>2, <1>3, JobIs
<1> DEFINE x == [call |-> j.call, volume |-> j.volume, byte |-> j.byte, todo |-> j.todo \ {a},
                 done |-> j.done \cup {a}, blocks |-> j.blocks, code |-> j.code, asked |-> j.asked]
<1>5. op' = [op EXCEPT ![t] = x]
  <2>1. [j EXCEPT !.todo = j.todo \ {a}, !.done = j.done \cup {a}] = x
    <3> DEFINE n == j.todo \ {a}
               q == j.done \cup {a}
    <3>1. IsJob(j)
      BY <1>4 DEF IsJob, JobOf
    <3>2. x = JobOf(j.call, j.volume, j.byte, n, q, j.blocks, j.code, j.asked)
      BY DEF JobOf
    <3> HIDE DEF j, x, n, q
    <3>3. [j EXCEPT !.todo = n, !.done = q] = x
      BY <3>1, <3>2, Retaken
    <3> QED BY <3>3 DEF n, q
  <2>2. op' = [op EXCEPT ![t] = [j EXCEPT !.todo = j.todo \ {a}, !.done = j.done \cup {a}]]
    BY <1>3
  <2> HIDE DEF x
  <2> QED BY <2>1, <2>2
<1>6. x \in Job
  <2>1. j.todo \ {a} \in SUBSET Flash /\ j.done \cup {a} \in SUBSET Flash
    BY <1>4
  <2> HIDE DEF j
  <2> QED BY <1>1, <1>4, <2>1 DEF Job
<1>7. /\ x.todo = j.todo \ {a} /\ x.volume = j.volume /\ x.blocks = j.blocks
      /\ x.done = j.done \cup {a} /\ x.call = j.call /\ x.asked = j.asked /\ x.code = j.code
  OBVIOUS
<1> HIDE DEF x
<1>9. ASSUME Clipped(j) PROVE Clipped(x)
  <2>1. x.todo \cup x.done = j.todo \cup j.done
    BY <1>3, <1>7
  <2> HIDE DEF j
  <2> QED BY <1>7, <1>9, <2>1 DEF Clipped
<1>8. PutsByte(t, x, a)
  BY <1>1, <1>2, <1>3, <1>5, <1>7, <1>9 DEF PutsByte
<1> QED BY <1>4, <1>6, <1>8

LEMMA FinishIs == ASSUME FlashTypeOK, NEW t \in Actor, Finish(t) PROVE EndsCall(t)
<1> DEFINE j == op[t]
<1>1. /\ j.call \in {"write", "erase"} /\ j.todo = {} /\ UNCHANGED <<memory, attributes>>
      /\ op' = [op EXCEPT ![t] = Idle] /\ result' = [code |-> j.code, changed |-> j.done]
  BY DEF Finish, Return
<1>2. j \in Job /\ j \notin Setting
  BY <1>1, WorkingIs
<1>3. j.code # "INVALID_PARAMETER"
  <2> HIDE DEF j
  <2>1. j.code \in {"SUCCESS", "BAD_BUFFER_SIZE"}
    BY <1>2, JobIs
  <2> QED BY <2>1
<1>4. Clean(result', j) \/ result' = Nil
  BY <1>1, <1>3 DEF Clean
<1> QED BY <1>1, <1>2, <1>4 DEF EndsCall

LEMMA SetAttributesIs ==
  ASSUME FlashTypeOK, NEW t \in Actor, NEW v \in Volume, NEW s \in Status, SetAttributes(t, v, s)
  PROVE  EndsCall(t) \/ ClearsStatus(t, v, s)
<1>1. op[t] = Idle /\ UNCHANGED memory /\ (t = "event" => "set" \in EventCalls)
      /\ Idle \notin Setting /\ Idle \notin Job
  BY CallIs DEF SetAttributes, Calls, Idle, Setting, Job
<1>2. CASE Settled(v, s) /\ Allowed(v, s)
  BY <1>1, <1>2 DEF SetAttributes, ClearsStatus
<1>3. CASE ~(Settled(v, s) /\ Allowed(v, s))
  <2>1. /\ op' = [op EXCEPT ![t] = Idle] /\ UNCHANGED attributes
        /\ \E c : result' = [code |-> c, changed |-> {}]
    BY <1>3 DEF SetAttributes, Return
  <2>2. Clean(result', op[t]) \/ result' = Nil
    BY <2>1, CleanIs
  <2> QED BY <1>1, <2>1, <2>2 DEF EndsCall
<1> QED BY <1>2, <1>3

LEMMA StoreStatusIs == ASSUME FlashTypeOK, NEW t \in Actor, StoreStatus(t) PROVE StoresStatus(t)
<1>1. op[t].call = "set" /\ UNCHANGED memory /\ op' = [op EXCEPT ![t] = Idle]
      /\ result' = [code |-> "SUCCESS", changed |-> {}]
      /\ SetsBits(t, op[t].volume, op[t].status)
  BY DEF StoreStatus, Return, SetsBits
<1>2. op[t] \in Setting
  BY <1>1, WorkingIs
<1>3. Clean(result', op[t]) \/ result' = Nil
  BY <1>1, CleanIs
<1> QED BY <1>1, <1>2, <1>3 DEF StoresStatus

(* Every step of either driver is a step of one actor of the kinds above.  *)
LEMMA FlashStepIs == ASSUME FlashTypeOK, FlashNext PROVE \E t \in Actor : StepOf(t)
<1>1. PICK t \in Actor :
         \/ \E v \in Volume :
              \/ \E lba \in LbaAsked(v), offset, n \in 0 .. MaxBytes[t] :
                   \/ Read(t, v, lba, offset, n)
                   \/ \E b \in Byte : Write(t, v, lba, offset, n, b)
              \/ \E ranges \in Ranges(t, v) : EraseBlocks(t, v, ranges)
              \/ \E s \in Status : SetAttributes(t, v, s)
         \/ PutByte(t) \/ EraseBlock(t) \/ Finish(t) \/ StoreStatus(t)
  BY DEF FlashNext
<1>2. ASSUME NEW v \in Volume, NEW lba \in LbaAsked(v),
             NEW offset \in 0 .. MaxBytes[t], NEW n \in 0 .. MaxBytes[t],
             Read(t, v, lba, offset, n) \/ \E b \in Byte : Write(t, v, lba, offset, n, b)
      PROVE  StepOf(t)
  <2>1. CASE Read(t, v, lba, offset, n)
    BY <2>1, ReadIs DEF StepOf
  <2>2. ASSUME NEW b \in Byte, Write(t, v, lba, offset, n, b) PROVE StepOf(t)
    BY <2>2, WriteIs DEF StepOf
  <2> QED BY <1>2, <2>1, <2>2
<1>3. ASSUME NEW v \in Volume, NEW ranges \in Ranges(t, v), EraseBlocks(t, v, ranges)
      PROVE  StepOf(t)
  BY <1>3, EraseBlocksIs DEF StepOf
<1>4. ASSUME NEW v \in Volume, NEW s \in Status, SetAttributes(t, v, s) PROVE StepOf(t)
  BY <1>4, SetAttributesIs DEF StepOf
<1>5. CASE PutByte(t)
  BY <1>5, PutByteIs DEF StepOf
<1>6. CASE EraseBlock(t)
  BY <1>6, EraseBlockIs DEF StepOf
<1>7. CASE Finish(t)
  BY <1>7, FinishIs DEF StepOf
<1>8. CASE StoreStatus(t)
  BY <1>8, StoreStatusIs DEF StepOf
<1> QED BY <1>1, <1>2, <1>3, <1>4, <1>5, <1>6, <1>7, <1>8

LEMMA SmmStepIs == ASSUME FlashTypeOK, SmmNext PROVE StepOf("main")
<1> DEFINE t == "main"
<1>0. t \in Actor
  BY DEF Actor
<1>1. \/ \E v \in Volume :
           \/ \E lba \in LbaAsked(v) :
                \/ SmmQuery(v, lba)
                \/ \E offset, n \in 0 .. MaxBytes[t] :
                     \/ Read(t, v, lba, offset, n)
                     \/ \E b \in Byte : Write(t, v, lba, offset, n, b)
           \/ \E ranges \in Ranges(t, v) : EraseBlocks(t, v, ranges)
           \/ \E s \in Status : SetAttributes(t, v, s)
      \/ PutByte(t) \/ EraseBlock(t) \/ Finish(t) \/ StoreStatus(t)
  BY DEF SmmNext, Handler, SmmRead, SmmWrite, SmmEraseBlocks, SmmSetAttributes, SmmCopy,
         SmmEraseBlock, SmmReturn, SmmStoreStatus
<1>2. ASSUME NEW v \in Volume, NEW lba \in LbaAsked(v), SmmQuery(v, lba) PROVE StepOf(t)
  BY <1>2, QueryIs DEF StepOf
<1>3. ASSUME NEW v \in Volume, NEW lba \in LbaAsked(v),
             NEW offset \in 0 .. MaxBytes[t], NEW n \in 0 .. MaxBytes[t],
             Read(t, v, lba, offset, n) \/ \E b \in Byte : Write(t, v, lba, offset, n, b)
      PROVE  StepOf(t)
  <2>1. CASE Read(t, v, lba, offset, n)
    BY <1>0, <2>1, ReadIs DEF StepOf
  <2>2. ASSUME NEW b \in Byte, Write(t, v, lba, offset, n, b) PROVE StepOf(t)
    BY <1>0, <2>2, WriteIs DEF StepOf
  <2> QED BY <1>3, <2>1, <2>2
<1>4. ASSUME NEW v \in Volume, NEW ranges \in Ranges(t, v), EraseBlocks(t, v, ranges)
      PROVE  StepOf(t)
  BY <1>0, <1>4, EraseBlocksIs DEF StepOf
<1>5. ASSUME NEW v \in Volume, NEW s \in Status, SetAttributes(t, v, s) PROVE StepOf(t)
  BY <1>0, <1>5, SetAttributesIs DEF StepOf
<1>6. CASE PutByte(t)
  BY <1>0, <1>6, PutByteIs DEF StepOf
<1>7. CASE EraseBlock(t)
  BY <1>0, <1>7, EraseBlockIs DEF StepOf
<1>8. CASE Finish(t)
  BY <1>0, <1>8, FinishIs DEF StepOf
<1>9. CASE StoreStatus(t)
  BY <1>0, <1>9, StoreStatusIs DEF StepOf
<1> QED BY <1>1, <1>2, <1>3, <1>4, <1>5, <1>6, <1>7, <1>8, <1>9

LEMMA FvbStepIs ==
  ASSUME FlashTypeOK, [BuildNext]_buildVars
  PROVE  UNCHANGED flashVars \/ \E t \in Actor : StepOf(t)
<1>1. CASE FlashNext
  BY <1>1, FlashStepIs
<1>2. CASE SmmNext
  BY <1>2, SmmStepIs DEF Actor
<1>3. CASE UNCHANGED buildVars
  BY <1>3 DEF buildVars, flashVars
<1> QED BY <1>1, <1>2, <1>3 DEF BuildNext

(* The calls after a step of t; the other actor's is the same.             *)
LEMMA OpIs ==
  ASSUME FlashTypeOK, NEW t \in Actor, NEW x, op' = [op EXCEPT ![t] = x]
  PROVE  /\ op'[t] = x /\ \A u \in Actor : u # t => op'[u] = op[u]
         /\ x \in {Idle} \cup Job \cup Setting => op' \in [Actor -> {Idle} \cup Job \cup Setting]
<1> DEFINE C == {Idle} \cup Job \cup Setting
<1>1. op \in [Actor -> C]
  BY DEF FlashTypeOK
<1> HIDE DEF C
<1>2. op'[t] = x /\ (\A u \in Actor : u # t => op'[u] = op[u]) /\ (x \in C => op' \in [Actor -> C])
  BY <1>1
<1> QED BY <1>2 DEF C

InPlace(x) == x \in Job => \E lba \in LbaOf(x.volume) : x.todo \subseteq Place[x.volume][lba]

LEMMA CallsKept ==
  ASSUME FlashTypeOK, NEW t \in Actor, NEW x \in {Idle} \cup Job \cup Setting,
         op' = [op EXCEPT ![t] = x], InPlace(x),
         memory' \in [Flash -> Byte], attributes' \in [Volume -> Status]
  PROVE  FlashTypeOK'
<1>1. \A u \in Actor : InPlace(op[u])
  BY DEF FlashTypeOK, InPlace
<1>2. op'[t] = x /\ (\A u \in Actor : u # t => op'[u] = op[u])
      /\ op' \in [Actor -> {Idle} \cup Job \cup Setting]
  BY OpIs
<1>3. \A u \in Actor : InPlace(op'[u])
  BY <1>1, <1>2
<1>4. \A u \in Actor : op'[u] \in Job =>
         \E lba \in LbaOf(op'[u].volume) : op'[u].todo \subseteq Place[op'[u].volume][lba]
  BY <1>3 DEF InPlace
<1> QED BY <1>2, <1>4 DEF FlashTypeOK

LEMMA FlashTypesKept == ASSUME FlashTypeOK, NEW t \in Actor, StepOf(t) PROVE FlashTypeOK'
<1>0. memory \in [Flash -> Byte] /\ attributes \in [Volume -> Status]
  BY DEF FlashTypeOK
<1>1. Idle \in {Idle} \cup Job \cup Setting /\ Idle \notin Job
  BY CallIs DEF Idle, Job
<1>2. InPlace(Idle)
  BY <1>1 DEF InPlace
<1>3. CASE EndsCall(t)
  <2>1. op' = [op EXCEPT ![t] = Idle] /\ memory' = memory /\ attributes' = attributes
    BY <1>3 DEF EndsCall
  <2> QED BY <1>0, <1>1, <1>2, <2>1, CallsKept
<1>4. ASSUME NEW x \in Job, TakesBlock(t, x) PROVE FlashTypeOK'
  <2>1. op' = [op EXCEPT ![t] = x] /\ memory' = memory /\ attributes' = attributes
        /\ \E l \in LbaOf(x.volume) : x.todo \subseteq Place[x.volume][l]
    BY <1>4 DEF TakesBlock
  <2>2. InPlace(x) /\ x \in {Idle} \cup Job \cup Setting
    BY <2>1 DEF InPlace
  <2> QED BY <1>0, <2>1, <2>2, CallsKept
<1>5. ASSUME NEW x \in Job, NEW a \in Flash, PutsByte(t, x, a) PROVE FlashTypeOK'
  <2>1. /\ op' = [op EXCEPT ![t] = x] /\ attributes' = attributes /\ op[t] \in Job
        /\ x.volume = op[t].volume /\ x.todo = op[t].todo \ {a}
        /\ memory' = [memory EXCEPT ![a] = op[t].byte]
    BY <1>5 DEF PutsByte
  <2>2. op[t].byte \in Byte
    BY <2>1, JobIs
  <2>3. memory' \in [Flash -> Byte]
    BY <1>0, <2>1, <2>2
  <2>4. \E l \in LbaOf(op[t].volume) : op[t].todo \subseteq Place[op[t].volume][l]
    BY <2>1 DEF FlashTypeOK
  <2>5. InPlace(x) /\ x \in {Idle} \cup Job \cup Setting
    BY <2>1, <2>4 DEF InPlace
  <2>6. attributes' \in [Volume -> Status]
    BY <1>0, <2>1
  <2> QED BY <2>1, <2>3, <2>5, <2>6, CallsKept
<1>6. ASSUME NEW v \in Volume, NEW s \in Status, ClearsStatus(t, v, s) PROVE FlashTypeOK'
  <2> DEFINE x == [call |-> "set", volume |-> v, status |-> s]
             z == [read |-> FALSE, write |-> FALSE, lock |-> FALSE]
  <2>1. op' = [op EXCEPT ![t] = x] /\ memory' = memory /\ attributes' = [attributes EXCEPT ![v] = z]
    BY <1>6 DEF ClearsStatus
  <2>2. x \in Setting
    BY DEF Setting
  <2>3. z \in Status
    BY DEF Status
  <2> HIDE DEF x, z
  <2>4. attributes' \in [Volume -> Status] /\ memory' \in [Flash -> Byte]
    BY <1>0, <2>1, <2>3
  <2>5. x \notin Job
    BY <2>2, CallIs
  <2>6. InPlace(x) /\ x \in {Idle} \cup Job \cup Setting
    BY <2>2, <2>5 DEF InPlace
  <2> QED BY <2>1, <2>4, <2>6, CallsKept
<1>7. CASE StoresStatus(t)
  <2> DEFINE v == op[t].volume
             s == op[t].status
             c == attributes[v]
             y == [read |-> c.read \/ s.read, write |-> c.write \/ s.write, lock |-> c.lock \/ s.lock]
  <2>1. op' = [op EXCEPT ![t] = Idle] /\ memory' = memory /\ op[t] \in Setting
        /\ attributes' = [attributes EXCEPT ![v] = y]
    BY <1>7 DEF StoresStatus, SetsBits
  <2>2. v \in Volume
    BY <2>1 DEF Setting
  <2>3. y \in Status
    <3>1. /\ (c.read \/ s.read) \in BOOLEAN /\ (c.write \/ s.write) \in BOOLEAN
          /\ (c.lock \/ s.lock) \in BOOLEAN
      OBVIOUS
    <3> QED BY DEF Status
  <2> HIDE DEF y, v
  <2>4. attributes' \in [Volume -> Status] /\ memory' \in [Flash -> Byte]
    BY <1>0, <2>1, <2>2, <2>3
  <2> QED BY <1>1, <1>2, <2>1, <2>4, CallsKept
<1> QED BY <1>3, <1>4, <1>5, <1>6, <1>7 DEF StepOf

(* When no range wraps, the blocks listed are blocks of the volume, so     *)
(* that the second pass meets none that the first should have refused.     *)
AllListed == \A t \in Actor : Listed(op[t])

LEMMA ListedKept ==
  ASSUME Unwrapped, FlashTypeOK, AllListed, NEW t \in Actor, StepOf(t)
  PROVE  AllListed' /\ InvalidChangesNothing'
<1>1. \A u \in Actor : Listed(op[u])
  BY DEF AllListed
<1>2. ASSUME NEW x \in {Idle} \cup Job \cup Setting, op' = [op EXCEPT ![t] = x], Listed(x)
      PROVE  AllListed'
  <2>1. op'[t] = x /\ (\A u \in Actor : u # t => op'[u] = op[u])
    BY <1>2, OpIs
  <2>2. \A u \in Actor : Listed(op'[u])
    BY <1>1, <1>2, <2>1
  <2> QED BY <2>2 DEF AllListed, Listed
<1>3. \A c : Clean(c, op[t]) => (c.code = "INVALID_PARAMETER" => c.changed = {})
  BY <1>1 DEF Clean
<1>4. ASSUME Clean(result', op[t]) \/ result' = Nil PROVE InvalidChangesNothing'
  BY <1>3, <1>4 DEF InvalidChangesNothing
<1>5. ASSUME result' = Nil PROVE InvalidChangesNothing'
  BY <1>5 DEF InvalidChangesNothing
<1>6. Listed(Idle) /\ Idle \in {Idle} \cup Job \cup Setting
  BY CallIs DEF Listed, Idle, Job
<1>7. CASE EndsCall(t)
  <2>1. op' = [op EXCEPT ![t] = Idle] /\ (Clean(result', op[t]) \/ result' = Nil)
    BY <1>7 DEF EndsCall
  <2> QED BY <1>2, <1>4, <1>6, <2>1
<1>8. ASSUME NEW x \in Job, TakesBlock(t, x) PROVE AllListed' /\ InvalidChangesNothing'
  <2>1. op' = [op EXCEPT ![t] = x] /\ result' = Nil /\ Listed(x)
    BY <1>1, <1>8 DEF TakesBlock
  <2> QED BY <1>2, <1>5, <2>1
<1>9. ASSUME NEW x \in Job, NEW a \in Flash, PutsByte(t, x, a)
      PROVE  AllListed' /\ InvalidChangesNothing'
  <2>1. /\ op' = [op EXCEPT ![t] = x] /\ result' = Nil
        /\ op[t] \in Job /\ x.volume = op[t].volume /\ x.blocks = op[t].blocks
    BY <1>9 DEF PutsByte
  <2>2. Listed(x)
    BY <1>1, <2>1 DEF Listed
  <2> QED BY <1>2, <1>5, <2>1, <2>2
<1>10. ASSUME NEW v \in Volume, NEW s \in Status, ClearsStatus(t, v, s)
       PROVE  AllListed' /\ InvalidChangesNothing'
  <2> DEFINE x == [call |-> "set", volume |-> v, status |-> s]
  <2>1. op' = [op EXCEPT ![t] = x] /\ result' = Nil
    BY <1>10 DEF ClearsStatus
  <2>2. x \in Setting
    BY DEF Setting
  <2> HIDE DEF x
  <2>3. Listed(x)
    BY <2>2, CallIs DEF Listed
  <2> QED BY <1>2, <1>5, <2>1, <2>2, <2>3
<1>11. CASE StoresStatus(t)
  <2>1. op' = [op EXCEPT ![t] = Idle] /\ (Clean(result', op[t]) \/ result' = Nil)
    BY <1>11 DEF StoresStatus
  <2> QED BY <1>2, <1>4, <1>6, <2>1
<1> QED BY <1>7, <1>8, <1>9, <1>10, <1>11 DEF StepOf

LEMMA ClippedKept ==
  ASSUME FlashTypeOK, WriteIsClipped, NEW t \in Actor, StepOf(t)
  PROVE  WriteIsClipped'
<1>1. \A u \in Actor : Clipped(op[u])
  BY DEF WriteIsClipped
<1>2. ASSUME NEW x \in {Idle} \cup Job \cup Setting, op' = [op EXCEPT ![t] = x], Clipped(x)
      PROVE  WriteIsClipped'
  <2>1. op'[t] = x /\ (\A u \in Actor : u # t => op'[u] = op[u])
    BY <1>2, OpIs
  <2>2. \A u \in Actor : Clipped(op'[u])
    BY <1>1, <1>2, <2>1
  <2> QED BY <2>2 DEF WriteIsClipped, Clipped
<1>3. Clipped(Idle)
  BY DEF Idle, Clipped
<1>4. CASE EndsCall(t) \/ StoresStatus(t)
  <2>1. op' = [op EXCEPT ![t] = Idle]
    BY <1>4 DEF EndsCall, StoresStatus
  <2> QED BY <1>2, <1>3, <2>1
<1>5. ASSUME NEW x \in Job, TakesBlock(t, x) \/ \E a \in Flash : PutsByte(t, x, a)
      PROVE  WriteIsClipped'
  <2>1. op' = [op EXCEPT ![t] = x] /\ Clipped(x)
    BY <1>1, <1>5 DEF TakesBlock, PutsByte
  <2> QED BY <1>2, <2>1
<1>6. ASSUME NEW v \in Volume, NEW s \in Status, ClearsStatus(t, v, s) PROVE WriteIsClipped'
  <2> DEFINE x == [call |-> "set", volume |-> v, status |-> s]
  <2>1. op' = [op EXCEPT ![t] = x]
    BY <1>6 DEF ClearsStatus
  <2>2. x \in Setting /\ Clipped(x)
    BY DEF Setting, Clipped
  <2> HIDE DEF x
  <2> QED BY <1>2, <2>1, <2>2
<1> QED BY <1>4, <1>5, <1>6 DEF StepOf

(* While main stores a status, the bits of the volume are clear; a         *)
(* notification that may not set attributes is never seen to store one.    *)
NoBit == [read |-> FALSE, write |-> FALSE, lock |-> FALSE]
Settling ==
    /\ op["event"] \notin Setting
    /\ op["main"] \in Setting => attributes[op["main"].volume] = NoBit

LEMMA SettlingKept ==
  ASSUME "set" \notin EventCalls, FlashTypeOK, Settling, NEW t \in Actor, StepOf(t)
  PROVE  Settling'
<1>1. "event" \in Actor /\ "main" \in Actor /\ "event" # "main" /\ t \in {"main", "event"}
  BY DEF Actor
<1>2. ASSUME NEW x \in {Idle} \cup Job \cup Setting, op' = [op EXCEPT ![t] = x], x \notin Setting,
             attributes' = attributes \/ op[t] \in Setting
      PROVE  Settling'
  <2>1. op'[t] = x /\ (\A u \in Actor : u # t => op'[u] = op[u])
    BY <1>2, OpIs
  <2>2. CASE t = "main"
    <3>1. op'["main"] \notin Setting /\ op'["event"] = op["event"]
      BY <1>1, <1>2, <2>1, <2>2
    <3> QED BY <3>1 DEF Settling, Setting
  <2>3. CASE t = "event"
    <3>1. op'["event"] \notin Setting /\ op'["main"] = op["main"] /\ attributes' = attributes
      BY <1>1, <1>2, <2>1, <2>3 DEF Settling
    <3> QED BY <3>1 DEF Settling, Setting, NoBit
  <2> QED BY <1>1, <2>2, <2>3
<1>3. Idle \notin Setting
  BY CallIs DEF Idle, Setting
<1>4. CASE EndsCall(t)
  <2>1. op' = [op EXCEPT ![t] = Idle] /\ attributes' = attributes
    BY <1>4 DEF EndsCall
  <2> QED BY <1>2, <1>3, <2>1
<1>5. ASSUME NEW x \in Job, TakesBlock(t, x) \/ \E a \in Flash : PutsByte(t, x, a) PROVE Settling'
  <2>1. op' = [op EXCEPT ![t] = x] /\ attributes' = attributes
    BY <1>5 DEF TakesBlock, PutsByte
  <2>2. x \notin Setting
    <3>1. x.call \in {"write", "erase"}
      BY CallIs
    <3>2. x.call # "set"
      BY <3>1
    <3> QED BY <3>2, CallIs
  <2> QED BY <1>2, <2>1, <2>2
<1>6. ASSUME NEW v \in Volume, NEW s \in Status, ClearsStatus(t, v, s) PROVE Settling'
  <2> DEFINE x == [call |-> "set", volume |-> v, status |-> s]
  <2>1. op' = [op EXCEPT ![t] = x] /\ attributes' = [attributes EXCEPT ![v] = NoBit]
        /\ t # "event"
    BY <1>6 DEF ClearsStatus, NoBit
  <2>2. x.volume = v
    OBVIOUS
  <2> HIDE DEF x
  <2>3. t = "main" /\ op'["main"] = x /\ op'["event"] = op["event"]
    BY <1>1, <2>1, OpIs
  <2>4. attributes'[v] = NoBit
    <3>1. attributes \in [Volume -> Status]
      BY DEF FlashTypeOK
    <3> QED BY <2>1, <3>1
  <2>5. op'["event"] \notin Setting
    BY <2>3 DEF Settling
  <2> QED BY <2>2, <2>3, <2>4, <2>5 DEF Settling, NoBit
<1>7. CASE StoresStatus(t)
  <2>1. op' = [op EXCEPT ![t] = Idle] /\ op[t] \in Setting
    BY <1>7 DEF StoresStatus
  <2> QED BY <1>2, <1>3, <2>1
<1> QED BY <1>4, <1>5, <1>6, <1>7 DEF StepOf

(* Where it starts.                                                        *)
LEMMA FlashStarts ==
  ASSUME BuildInit
  PROVE  FlashTypeOK /\ AllListed /\ Settling /\ InvalidChangesNothing /\ WriteIsClipped /\ Promised!Init
<1>1. /\ memory \in [Flash -> {Erased}] /\ attributes = Initial
      /\ op = [t \in Actor |-> Idle] /\ result = Nil
  BY DEF BuildInit, FlashInit
<1>2. Idle \notin Job /\ Idle \notin Setting /\ Idle.call = "idle"
  BY CallIs DEF Idle, Job, Setting
<1>3. \A t \in Actor : op[t] = Idle
  BY <1>1
<1>4. "main" \in Actor /\ "event" \in Actor
  BY DEF Actor
<1>5. FlashTypeOK
  <2>1. memory \in [Flash -> Byte]
    BY <1>1, FlashAssumption
  <2>2. attributes \in [Volume -> Status]
    BY <1>1, VolumeAssumption
  <2>3. op \in [Actor -> {Idle} \cup Job \cup Setting]
    BY <1>1
  <2> QED BY <1>2, <1>3, <2>1, <2>2, <2>3 DEF FlashTypeOK
<1>6. AllListed
  BY <1>2, <1>3 DEF AllListed, Listed
<1>7. Settling
  BY <1>2, <1>3, <1>4 DEF Settling
<1>8. InvalidChangesNothing
  BY <1>1 DEF InvalidChangesNothing
<1>9. Admitted = {}
  BY <1>2, <1>3 DEF Admitted, Writes
<1>10. Promised!Init
  BY <1>9 DEF Promised!Init
<1>11. WriteIsClipped
  BY <1>2, <1>3 DEF WriteIsClipped, Clipped
<1> QED BY <1>5, <1>6, <1>7, <1>8, <1>10, <1>11

(* The bytes stay bytes of the flash and the calls calls of the driver.    *)
THEOREM FlashTypes == BuildSpec => []FlashTypeOK
<1>1. FlashTypeOK /\ [BuildNext]_buildVars => FlashTypeOK'
  <2> SUFFICES ASSUME FlashTypeOK, [BuildNext]_buildVars PROVE FlashTypeOK'
    OBVIOUS
  <2>1. CASE UNCHANGED flashVars
    BY <2>1 DEF flashVars, FlashTypeOK
  <2> QED BY <2>1, FvbStepIs, FlashTypesKept
<1> QED BY <1>1, FlashStarts, PTL DEF BuildSpec

(* A call that ends with INVALID_PARAMETER has changed nothing, as long as *)
(* no block number asked for makes start + n wrap around in the first pass *)
(* of FvbProtocolEraseBlocks.                                              *)
THEOREM InvalidIsClean == ASSUME Unwrapped PROVE BuildSpec => []InvalidChangesNothing
<1> DEFINE Inv == AllListed /\ InvalidChangesNothing
<1>1. BuildInit => Inv
  BY FlashStarts
<1>2. FlashTypeOK /\ Inv /\ [BuildNext]_buildVars => Inv'
  <2> SUFFICES ASSUME FlashTypeOK, Inv, [BuildNext]_buildVars PROVE Inv'
    OBVIOUS
  <2>1. CASE UNCHANGED flashVars
    BY <2>1 DEF flashVars, AllListed, Listed, InvalidChangesNothing
  <2>2. ASSUME NEW t \in Actor, StepOf(t) PROVE Inv'
    BY <2>2, ListedKept
  <2> QED BY <2>1, <2>2, FvbStepIs
<1> QED BY <1>1, <1>2, FlashTypes, PTL DEF BuildSpec

(* A write changes exactly the bytes asked for that lie in the block, and  *)
(* ends with SUCCESS if that is all of them.                               *)
THEOREM WritesAreClipped == BuildSpec => []WriteIsClipped
<1>1. FlashTypeOK /\ WriteIsClipped /\ [BuildNext]_buildVars => WriteIsClipped'
  <2> SUFFICES ASSUME FlashTypeOK, WriteIsClipped, [BuildNext]_buildVars PROVE WriteIsClipped'
    OBVIOUS
  <2>1. CASE UNCHANGED flashVars
    BY <2>1 DEF flashVars, WriteIsClipped, Clipped
  <2> QED BY <2>1, FvbStepIs, ClippedKept
<1> QED BY <1>1, FlashStarts, FlashTypes, PTL DEF BuildSpec

(* How a step of t appears to the callers of the volumes: what it does to  *)
(* the operations admitted, ...                                            *)
LEMMA AdmittedIs ==
  ASSUME FlashTypeOK, NEW t \in Actor, NEW x \in {Idle} \cup Job \cup Setting, op' = [op EXCEPT ![t] = x]
  PROVE  Admitted' = {v \in Volume : Writes(x, v) \/ \E u \in Actor \ {t} : Writes(op[u], v)}
<1>1. op'[t] = x /\ (\A u \in Actor : u # t => op'[u] = op[u])
  BY OpIs
<1>2. Admitted' = {v \in Volume : \E u \in Actor : Writes(op'[u], v)}
  BY DEF Admitted, Writes
<1>3. \A v \in Volume : (\E u \in Actor : Writes(op'[u], v))
                        <=> Writes(x, v) \/ \E u \in Actor \ {t} : Writes(op[u], v)
  BY <1>1
<1> QED BY <1>2, <1>3

LEMMA AdmittedSame ==
  ASSUME FlashTypeOK, NEW t \in Actor, NEW x \in {Idle} \cup Job \cup Setting, op' = [op EXCEPT ![t] = x],
         \A v \in Volume : Writes(x, v) <=> Writes(op[t], v)
  PROVE  Admitted' = Admitted
<1>1. Admitted' = {v \in Volume : Writes(x, v) \/ \E u \in Actor \ {t} : Writes(op[u], v)}
  BY AdmittedIs
<1> QED BY <1>1 DEF Admitted

(* ... to the statuses, when it is no step of FvbSetVolumeAttributes, ...  *)
LEMMA StatusSame ==
  ASSUME FlashTypeOK, NEW t \in Actor, NEW x \in {Idle} \cup Job, op' = [op EXCEPT ![t] = x],
         op[t] \notin Setting, attributes' = attributes
  PROVE  StatusStored' = StatusStored
<1>1. op'[t] = x /\ (\A u \in Actor : u # t => op'[u] = op[u])
  BY OpIs
<1>2. x.call # "set" /\ op[t].call # "set"
  <2>1. x \notin Setting /\ x \in {Idle} \cup Job \cup Setting
    BY CallIs DEF Idle, Job, Setting
  <2>2. op[t] \in {Idle} \cup Job \cup Setting
    BY DEF FlashTypeOK
  <2> QED BY <2>1, <2>2, CallIs
<1>3. "main" \in Actor
  BY DEF Actor
<1>4. CASE t = "main"
  <2>1. op'["main"].call # "set" /\ op["main"].call # "set"
    BY <1>1, <1>2, <1>4
  <2> QED BY <2>1 DEF StatusStored
<1>5. CASE t # "main"
  <2>1. op'["main"] = op["main"]
    BY <1>1, <1>3, <1>5
  <2> QED BY <2>1 DEF StatusStored
<1> QED BY <1>4, <1>5

(* ... and to the bytes.                                                   *)
LEMMA BytesSame == ASSUME memory' = memory PROVE Blocks' = Blocks /\ Rest' = Rest
BY DEF Blocks, Rest

LEMMA WriteIn ==
  ASSUME FlashTypeOK, NEW v \in Volume, NEW l \in LbaOf(v), NEW a \in Place[v][l], NEW b,
         memory' = [memory EXCEPT ![a] = b]
  PROVE  Rest' = Rest /\ Blocks' = [Blocks EXCEPT ![v][l] = Blocks'[v][l]] /\ l \in DOMAIN Blocks[v]
<1> DEFINE m == memory'
<1>0. a \in Flash /\ m = [memory EXCEPT ![a] = b] /\ memory \in [Flash -> Byte]
  BY PlaceIs DEF FlashTypeOK
<1>1. \A y \in Flash : y # a => m[y] = memory[y]
  BY <1>0
<1> HIDE DEF m
<1>2. Rest' = [y \in NotOwned |-> m[y]]
  BY DEF Rest, NotOwned, m
<1>3. \A y \in NotOwned : m[y] = memory[y]
  <2>1. a \in Extent(v)
    BY DEF Extent
  <2> QED BY <1>1, <2>1 DEF NotOwned
<1>4. Rest' = Rest
  BY <1>2, <1>3 DEF Rest
<1> DEFINE B(w, k) == [y \in Place[w][k] |-> m[y]]
           NewBlocks == [w \in Volume |-> [k \in LbaOf(w) |-> B(w, k)]]
<1>5. Blocks' = NewBlocks
  BY DEF Blocks, m
<1>6. ASSUME NEW w \in Volume, NEW k \in LbaOf(w), w # v \/ k # l
      PROVE  B(w, k) = Blocks[w][k]
  <2>1. a \notin Place[w][k]
    BY <1>6, PlacesApart
  <2>2. \A y \in Place[w][k] : m[y] = memory[y]
    BY <1>1, <2>1, PlaceIs
  <2>3. B(w, k) = [y \in Place[w][k] |-> memory[y]]
    BY <2>2
  <2>4. Blocks[w][k] = [y \in Place[w][k] |-> memory[y]]
    BY DEF Blocks
  <2> QED BY <2>3, <2>4
<1>7. Blocks = [w \in Volume |-> Blocks[w]] /\ \A w \in Volume : Blocks[w] = [k \in LbaOf(w) |-> Blocks[w][k]]
  BY DEF Blocks
<1> HIDE DEF B
<1>8. NewBlocks = [w \in Volume |-> IF w = v THEN [k \in LbaOf(w) |-> IF k = l THEN NewBlocks[v][l] ELSE Blocks[w][k]]
                                       ELSE Blocks[w]]
  <2>1. \A w \in Volume : w # v => [k \in LbaOf(w) |-> B(w, k)] = Blocks[w]
    BY <1>6, <1>7
  <2>2. [k \in LbaOf(v) |-> B(v, k)] = [k \in LbaOf(v) |-> IF k = l THEN B(v, l) ELSE Blocks[v][k]]
    BY <1>6
  <2>3. NewBlocks[v][l] = B(v, l)
    OBVIOUS
  <2> QED BY <2>1, <2>2, <2>3
<1> HIDE DEF NewBlocks
<1>9. [Blocks EXCEPT ![v][l] = NewBlocks[v][l]]
        = [w \in Volume |-> IF w = v THEN [k \in LbaOf(w) |-> IF k = l THEN NewBlocks[v][l] ELSE Blocks[w][k]]
                                     ELSE Blocks[w]]
  BY <1>7
<1>10. NewBlocks = [Blocks EXCEPT ![v][l] = NewBlocks[v][l]]
  BY <1>8, <1>9
<1>11. Blocks' = [Blocks EXCEPT ![v][l] = Blocks'[v][l]]
  BY <1>5, <1>10
<1>12. l \in DOMAIN Blocks[v]
  BY <1>7
<1> QED BY <1>4, <1>11, <1>12

LEMMA Quiet ==
  ASSUME Blocks' = Blocks, Rest' = Rest, StatusStored' = StatusStored, Admitted' = Admitted
  PROVE  UNCHANGED Promised!vars
BY DEF Promised!vars

LEMMA NoWrites ==
  ASSUME NEW x, x = Idle \/ x \in Setting \/ (x \in Job /\ x.todo = {})
  PROVE  \A v \in Volume : ~Writes(x, v)
<1>1. x = Idle => x.call = "idle"
  BY DEF Idle
<1>2. x \in Setting => x.call = "set"
  BY DEF Setting
<1> QED BY <1>1, <1>2 DEF Writes

LEMMA JobWrites ==
  ASSUME NEW x \in Job, NEW v
  PROVE  Writes(x, v) <=> x.volume = v /\ x.todo # {}
<1>1. x.call \in {"write", "erase"}
  BY CallIs
<1> QED BY <1>1 DEF Writes

LEMMA EndsCallMaps ==
  ASSUME FlashTypeOK, NEW t \in Actor, EndsCall(t) PROVE UNCHANGED Promised!vars
<1>1. /\ op' = [op EXCEPT ![t] = Idle] /\ memory' = memory /\ attributes' = attributes
      /\ op[t] \notin Setting /\ (op[t] \in Job => op[t].todo = {})
  BY DEF EndsCall
<1>2. op[t] \in {Idle} \cup Job \cup Setting
  BY DEF FlashTypeOK
<1>3. \A v \in Volume : ~Writes(Idle, v) /\ ~Writes(op[t], v)
  BY <1>1, <1>2, NoWrites
<1>4. Admitted' = Admitted
  BY <1>1, <1>3, AdmittedSame
<1>5. StatusStored' = StatusStored
  BY <1>1, StatusSame
<1> QED BY <1>1, <1>4, <1>5, BytesSame, Quiet

LEMMA TakesBlockMaps ==
  ASSUME FlashTypeOK, Settling, NEW t \in Actor, NEW x \in Job, TakesBlock(t, x)
  PROVE  [Promised!Next]_Promised!vars
<1>1. /\ op' = [op EXCEPT ![t] = x] /\ memory' = memory /\ attributes' = attributes
      /\ op[t] \notin Setting /\ (op[t] \in Job => op[t].todo = {})
      /\ x.todo # {} => attributes[x.volume].write
  BY DEF TakesBlock
<1>2. op[t] \in {Idle} \cup Job \cup Setting
  BY DEF FlashTypeOK
<1>3. \A v \in Volume : ~Writes(op[t], v)
  BY <1>1, <1>2, NoWrites
<1>4. StatusStored' = StatusStored /\ Blocks' = Blocks /\ Rest' = Rest
  BY <1>1, StatusSame, BytesSame
<1>5. CASE x.todo = {}
  <2>1. \A v \in Volume : ~Writes(x, v)
    BY <1>5, NoWrites
  <2>2. Admitted' = Admitted
    BY <1>1, <1>3, <2>1, AdmittedSame
  <2> QED BY <1>4, <2>2, Quiet
<1>6. CASE x.todo # {}
  <2> DEFINE v == x.volume
  <2>1. v \in Volume /\ attributes[v].write
    BY <1>1, <1>6, JobIs
  <2>2. \A w \in Volume : Writes(x, w) <=> w = v
    BY <1>6, JobWrites
  <2>3. Admitted' = Admitted \cup {v}
    <3>1. Admitted' = {w \in Volume : Writes(x, w) \/ \E u \in Actor \ {t} : Writes(op[u], w)}
      BY <1>1, AdmittedIs
    <3>2. Admitted = {w \in Volume : \E u \in Actor \ {t} : Writes(op[u], w)}
      BY <1>3 DEF Admitted
    <3> HIDE DEF v
    <3> QED BY <2>1, <2>2, <3>1, <3>2
  <2>4. StatusStored[v].write
    <3>1. op["main"].call = "set" => op["main"] \in Setting
      BY WorkingIs DEF Actor
    <3>2. ~(op["main"].call = "set" /\ op["main"].volume = v)
      <4>1. ~NoBit.write
        BY DEF NoBit
      <4> QED BY <2>1, <3>1, <4>1 DEF Settling
    <3> QED BY <2>1, <3>2 DEF StatusStored
  <2>5. Promised!Admit(v)
    BY <1>4, <2>3, <2>4 DEF Promised!Admit
  <2> QED BY <2>1, <2>5 DEF Promised!Next
<1> QED BY <1>5, <1>6

LEMMA PutsByteMaps ==
  ASSUME FlashTypeOK, NEW t \in Actor, NEW x \in Job, NEW a \in Flash, PutsByte(t, x, a)
  PROVE  [Promised!Next]_Promised!vars
<1> DEFINE j == op[t]
           v == j.volume
<1>1. /\ op' = [op EXCEPT ![t] = x] /\ attributes' = attributes
      /\ j \in Job /\ a \in j.todo /\ x.volume = v /\ x.todo = j.todo \ {a}
      /\ memory' = [memory EXCEPT ![a] = j.byte]
  BY DEF PutsByte
<1>2. PICK l \in LbaOf(v) : j.todo \subseteq Place[v][l]
  BY <1>1 DEF FlashTypeOK
<1>3. v \in Volume /\ j \notin Setting /\ j.todo # {}
  <2>1. j.call # "set"
    <3>1. j.call \in {"write", "erase"}
      <4> HIDE DEF j
      <4> QED BY <1>1, CallIs
    <3> QED BY <3>1
  <2> HIDE DEF j
  <2> QED BY <1>1, <2>1, CallIs, JobIs
<1>4. Rest' = Rest /\ Blocks' = [Blocks EXCEPT ![v][l] = Blocks'[v][l]] /\ l \in DOMAIN Blocks[v]
  <2> DEFINE b == j.byte
  <2>1. a \in Place[v][l] /\ memory' = [memory EXCEPT ![a] = b]
    BY <1>1, <1>2
  <2> HIDE DEF b, v
  <2> QED BY <1>2, <1>3, <2>1, WriteIn
<1>5. StatusStored' = StatusStored
  BY <1>1, <1>3, StatusSame
<1>6. \A w \in Volume : (Writes(j, w) <=> w = v) /\ (Writes(x, w) <=> w = v /\ x.todo # {})
  <2>1. \A w \in Volume : Writes(j, w) <=> j.volume = w /\ j.todo # {}
    BY <1>1, JobWrites
  <2>2. \A w \in Volume : Writes(x, w) <=> x.volume = w /\ x.todo # {}
    BY <1>1, JobWrites
  <2> QED BY <1>1, <1>3, <2>1, <2>2
<1>7. /\ Admitted' = {w \in Volume : Writes(x, w) \/ \E u \in Actor \ {t} : Writes(op[u], w)}
      /\ Admitted = {w \in Volume : Writes(j, w) \/ \E u \in Actor \ {t} : Writes(op[u], w)}
  <2>1. Admitted' = {w \in Volume : Writes(x, w) \/ \E u \in Actor \ {t} : Writes(op[u], w)}
    BY <1>1, AdmittedIs
  <2> QED BY <2>1 DEF Admitted
<1>8. v \in Admitted /\ Admitted' \in {Admitted, Admitted \ {v}}
  <2> DEFINE OtherVolumes == {w \in Volume : \E u \in Actor \ {t} : Writes(op[u], w)}
  <2>1. Admitted = OtherVolumes \cup {v}
    BY <1>3, <1>6, <1>7
  <2>2. Admitted' = OtherVolumes \/ Admitted' = OtherVolumes \cup {v}
    <3>1. CASE x.todo = {}
      BY <1>6, <1>7, <3>1
    <3>2. CASE x.todo # {}
      BY <1>3, <1>6, <1>7, <3>2
    <3> QED BY <3>1, <3>2
  <2> HIDE DEF OtherVolumes, v
  <2> QED BY <2>1, <2>2
<1>9. Promised!Put(v)
  BY <1>4, <1>5, <1>8 DEF Promised!Put
<1> QED BY <1>3, <1>9 DEF Promised!Next

LEMMA ClearsStatusMaps ==
  ASSUME "set" \notin EventCalls, FlashTypeOK, NEW t \in Actor,
         NEW v \in Volume, NEW s \in Status, ClearsStatus(t, v, s)
  PROVE  [Promised!Next]_Promised!vars
<1> DEFINE x == [call |-> "set", volume |-> v, status |-> s]
<1>1. /\ op' = [op EXCEPT ![t] = x] /\ memory' = memory /\ op[t] = Idle /\ t = "main"
      /\ Settled(v, s) /\ Allowed(v, s) /\ attributes' = [attributes EXCEPT ![v] = NoBit]
  BY DEF ClearsStatus, NoBit, Actor
<1>2. x \in Setting /\ x.volume = v /\ x.status = s /\ x.call = "set"
  BY DEF Setting
<1> HIDE DEF x
<1>3. \A w \in Volume : ~Writes(x, w) /\ ~Writes(op[t], w)
  BY <1>1, <1>2, NoWrites
<1>4. Admitted' = Admitted /\ Blocks' = Blocks /\ Rest' = Rest
  BY <1>1, <1>2, <1>3, AdmittedSame, BytesSame
<1>5. attributes \in [Volume -> Status] /\ op'["main"] = x /\ op["main"] = Idle
  <2>1. op'["main"] = x
    BY <1>1, OpIs
  <2> QED BY <1>1, <2>1 DEF FlashTypeOK
<1>6. StatusStored = attributes
  <2>1. op["main"].call # "set"
    BY <1>5 DEF Idle
  <2>2. StatusStored = [w \in Volume |-> attributes[w]]
    BY <2>1 DEF StatusStored
  <2> QED BY <1>5, <2>2
<1>7. StatusStored' = [w \in Volume |-> IF w = v THEN s ELSE attributes[w]]
  <2>1. StatusStored' = [w \in Volume |-> IF x.call = "set" /\ x.volume = w THEN x.status
                                                                            ELSE attributes'[w]]
    BY <1>5 DEF StatusStored
  <2>2. \A w \in Volume : w # v => attributes'[w] = attributes[w]
    BY <1>1, <1>5
  <2> QED BY <1>2, <2>1, <2>2
<1>8. StatusStored' = [StatusStored EXCEPT ![v] = s]
  BY <1>5, <1>6, <1>7
<1>9. CASE attributes[v].lock
  <2>1. s = attributes[v]
    BY <1>1, <1>9 DEF Settled
  <2>2. StatusStored' = StatusStored
    BY <1>5, <1>6, <1>8, <2>1
  <2> QED BY <1>4, <2>2, Quiet
<1>10. CASE ~attributes[v].lock
  <2>1. Promised!SetStatus(v, s)
    BY <1>1, <1>4, <1>6, <1>8, <1>10 DEF Promised!SetStatus
  <2> QED BY <2>1 DEF Promised!Next, Status
<1> QED BY <1>9, <1>10

LEMMA StoresStatusMaps ==
  ASSUME FlashTypeOK, Settling, NEW t \in Actor, StoresStatus(t)
  PROVE  UNCHANGED Promised!vars
<1> DEFINE j == op[t]
           v == j.volume
           s == j.status
<1>1. /\ op' = [op EXCEPT ![t] = Idle] /\ memory' = memory /\ j \in Setting /\ t = "main"
      /\ SetsBits(t, v, s) /\ attributes[v] = NoBit
  BY DEF StoresStatus, Settling, Actor
<1>2. v \in Volume /\ s \in Status /\ j.call = "set" /\ attributes \in [Volume -> Status]
  BY <1>1 DEF Setting, FlashTypeOK
<1>3. \A w \in Volume : ~Writes(Idle, w) /\ ~Writes(j, w)
  BY <1>1, NoWrites
<1>4. Admitted' = Admitted /\ Blocks' = Blocks /\ Rest' = Rest
  BY <1>1, <1>3, AdmittedSame, BytesSame
<1>5. attributes' = [attributes EXCEPT ![v] = s]
  <2> DEFINE c == attributes[v]
             z == [read |-> c.read \/ s.read, write |-> c.write \/ s.write, lock |-> c.lock \/ s.lock]
  <2>1. attributes' = [attributes EXCEPT ![v] = z]
    BY <1>1 DEF SetsBits
  <2>2. c.read = FALSE /\ c.write = FALSE /\ c.lock = FALSE
    BY <1>1 DEF NoBit
  <2>3. s = [read |-> s.read, write |-> s.write, lock |-> s.lock]
        /\ s.read \in BOOLEAN /\ s.write \in BOOLEAN /\ s.lock \in BOOLEAN
    <3> HIDE DEF s
    <3> QED BY <1>2 DEF Status
  <2>4. z = s
    <3>1. (c.read \/ s.read) = s.read /\ (c.write \/ s.write) = s.write /\ (c.lock \/ s.lock) = s.lock
      <4> HIDE DEF c, s
      <4> QED BY <2>2, <2>3
    <3> HIDE DEF s, c
    <3>2. z = [read |-> s.read, write |-> s.write, lock |-> s.lock]
      BY <3>1
    <3> HIDE DEF z
    <3> QED BY <2>3, <3>2
  <2> HIDE DEF z, s
  <2> QED BY <2>1, <2>4
<1>6. op'["main"] = Idle
  BY <1>1, OpIs
<1>7. StatusStored' = [w \in Volume |-> attributes'[w]]
  <2>1. op'["main"].call # "set"
    BY <1>6 DEF Idle
  <2> QED BY <2>1 DEF StatusStored
<1>8. StatusStored = [w \in Volume |-> IF w = v THEN s ELSE attributes[w]]
  BY <1>1, <1>2 DEF StatusStored
<1>9. \A w \in Volume : attributes'[w] = IF w = v THEN s ELSE attributes[w]
  BY <1>2, <1>5
<1>10. StatusStored' = StatusStored
  BY <1>7, <1>8, <1>9
<1> QED BY <1>4, <1>10, Quiet

(* Unless a notification sets attributes while a call is under way, both   *)
(* drivers implement BlockDevice: one step touches one block of one volume *)
(* whose writing was enabled when the operation was admitted, nothing else *)
(* of the flash, and the status of a locked volume is settled.             *)
THEOREM VolumesAreBlocks ==
  ASSUME "set" \notin EventCalls PROVE BuildSpec => ImplementsBlockDevice
<1>1. BuildInit => Settling /\ Promised!Init
  BY FlashStarts
<1>2. FlashTypeOK /\ Settling /\ [BuildNext]_buildVars => Settling'
  <2> SUFFICES ASSUME FlashTypeOK, Settling, [BuildNext]_buildVars PROVE Settling'
    OBVIOUS
  <2>1. CASE UNCHANGED flashVars
    BY <2>1 DEF flashVars, Settling, Setting, NoBit
  <2> QED BY <2>1, FvbStepIs, SettlingKept
<1>3. FlashTypeOK /\ Settling /\ [BuildNext]_buildVars => [Promised!Next]_Promised!vars
  <2> SUFFICES ASSUME FlashTypeOK, Settling, [BuildNext]_buildVars
               PROVE  [Promised!Next]_Promised!vars
    OBVIOUS
  <2>1. CASE UNCHANGED flashVars
    <3>1. Blocks' = Blocks /\ Rest' = Rest
      BY <2>1, BytesSame DEF flashVars
    <3>2. StatusStored' = StatusStored /\ Admitted' = Admitted
      BY <2>1 DEF flashVars, StatusStored, Admitted, Writes
    <3> QED BY <3>1, <3>2, Quiet
  <2>2. ASSUME NEW t \in Actor, StepOf(t) PROVE [Promised!Next]_Promised!vars
    <3>1. CASE EndsCall(t)
      BY <3>1, EndsCallMaps
    <3>2. ASSUME NEW x \in Job, TakesBlock(t, x) PROVE [Promised!Next]_Promised!vars
      BY <3>2, TakesBlockMaps
    <3>3. ASSUME NEW x \in Job, NEW a \in Flash, PutsByte(t, x, a)
          PROVE  [Promised!Next]_Promised!vars
      BY <3>3, PutsByteMaps
    <3>4. ASSUME NEW v \in Volume, NEW s \in Status, ClearsStatus(t, v, s)
          PROVE  [Promised!Next]_Promised!vars
      BY <3>4, ClearsStatusMaps
    <3>5. CASE StoresStatus(t)
      BY <3>5, StoresStatusMaps
    <3> QED BY <2>2, <3>1, <3>2, <3>3, <3>4, <3>5 DEF StepOf
  <2> QED BY <2>1, <2>2, FvbStepIs
<1> QED BY <1>1, <1>2, <1>3, FlashTypes, PTL DEF BuildSpec, ImplementsBlockDevice, Promised!Spec
=============================================================================
