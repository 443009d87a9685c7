------------------------- MODULE FileSystemProofs -------------------------
(***************************************************************************)
(* Proofs about FileSystem, of every number of objects, names, depth and   *)
(* size: no host handle is lost or shared, a handle is to the file of its  *)
(* object's name, a listing is complete, and a call changes its own file   *)
(* only.  They assume ~MovedReused: what was moved to another directory is *)
(* closed without another SetInfo or Open.                                 *)
(*                                                                         *)
(* FsInv is inductive: the host's entries are a tree; each handle is of an *)
(* object and one of its two fields, with a path in the tree; each object  *)
(* has just the handles that its fields name.  The stages of a call work   *)
(* on a world, of which each keeps it Good or at least Sound and leaves    *)
(* alone the handles of the others (Apart).  A move renames whole paths    *)
(* (Goes), of which the tree survives because no two become one.           *)
(***************************************************************************)
EXTENDS FileSystem, SequenceTheorems, FiniteSetTheorems, WellFoundedInduction, TLAPS

FileTree(h) ==
    /\ h \in [DOMAIN h -> Entry] /\ DOMAIN h \subseteq Seq(Name)
    /\ IsDirectory(h, Root)
    /\ \A p \in DOMAIN h, q \in Seq(Name) : IsPrefix(q, p) /\ q # p => IsDirectory(h, q)

(* Where a path is after a move, name by name, and what the host moves.    *)
Goes(p, old, new) ==
    IF IsPrefix(old, p) THEN new \o SubSeq(p, Len(old) + 1, Len(p)) ELSE p
Lands(g, p, old, new) ==
    /\ g \in Seq(Name) /\ Len(g) = Len(new) + Len(p) - Len(old)
    /\ \A i \in 1 .. Len(new) : g[i] = new[i]
    /\ \A i \in Len(old) + 1 .. Len(p) : g[i - Len(old) + Len(new)] = p[i]
Movable(h, old, new) ==
    /\ old \in DOMAIN h \ {Root} /\ new \in Seq(Name)
    /\ \/ new = old
       \/ new \notin DOMAIN h /\ ~IsPrefix(old, new) /\ IsDirectory(h, Front(new))

(* A handle is known by its object and field.                              *)
Field == {"L", "D"}
HandleOf(o, field) == <<o, field, 1>>
Id == {HandleOf(o, field) : o \in Object, field \in Field}
HandleRec == [path : Seq(Name), write : BOOLEAN, find : BOOLEAN, pos : Nat]
Objects ==
    [L : Id \cup {Invalid}, D : Id \cup {Invalid}, name : Seq(Name), path : Seq(Name),
     dir : BOOLEAN, read : BOOLEAN, valid : BOOLEAN, buf : Nat,
     pass : BOOLEAN, owed : SUBSET Name]

HandlesFit(h, hd) ==
    /\ hd \in [DOMAIN hd -> HandleRec] /\ DOMAIN hd \subseteq Id /\ IsFiniteSet(DOMAIN hd)
    /\ \A i \in DOMAIN hd :
         /\ hd[i].path \in DOMAIN h
         /\ hd[i].find => h[hd[i].path].dir

(* What an object has: handles under its name, in a directory one to list  *)
(* it, and a listing that is one entry ahead.                              *)
HasL(hd, o, f) ==
    \/ f.L = Invalid /\ HandleOf(o, "L") \notin DOMAIN hd
    \/ /\ f.L = HandleOf(o, "L") /\ f.L \in DOMAIN hd
       /\ hd[f.L].path = f.name /\ (f.dir => hd[f.L].find)
HasD(hd, o, f) ==
    \/ (f.dir => f.D = Invalid) /\ HandleOf(o, "D") \notin DOMAIN hd
    \/ /\ f.dir /\ f.D = HandleOf(o, "D") /\ f.D \in DOMAIN hd
       /\ hd[f.D].path = f.name
Lists(hd, f) ==
    /\ f.valid \/ f.pass => f.dir
    /\ f.valid => f.L # Invalid
    /\ f.pass => IF f.valid THEN f.buf = hd[f.L].pos /\ \A n \in f.owed : n >= f.buf
                            ELSE f.owed = {}
Has(hd, o, f) == HasL(hd, o, f) /\ HasD(hd, o, f) /\ Lists(hd, f)
HasNone(hd, o) == HandleOf(o, "L") \notin DOMAIN hd /\ HandleOf(o, "D") \notin DOMAIN hd
Owes(h, f) == f.dir => f.owed \subseteq Children(h, f.name)

FsInv ==
    /\ FileTree(host) /\ HandlesFit(host, handle)
    /\ DOMAIN file \subseteq Object /\ file \in [DOMAIN file -> Objects]
    /\ \A o \in DOMAIN file : Has(handle, o, file[o]) /\ Owes(host, file[o])
    /\ \A o \in Object \ DOMAIN file : HasNone(handle, o)

(* The stages of a call: a world in order, what the handles of the other   *)
(* objects are to another world, and what is left of the host's entries.   *)
IsWorld(w) ==
    /\ w \in [host : {w.host}, handle : {w.handle}, of : {w.of}, me : {w.me}, status : {w.status}]
    /\ w.of \in Object /\ w.me \in Objects
Sound(w) == IsWorld(w) /\ FileTree(w.host) /\ HandlesFit(w.host, w.handle)
Good(w) == Sound(w) /\ Has(w.handle, w.of, w.me)
Apart(old, hd, o) ==
    \A q \in Object \ {o}, field \in Field :
      /\ HandleOf(q, field) \in DOMAIN hd <=> HandleOf(q, field) \in DOMAIN old
      /\ HandleOf(q, field) \in DOMAIN hd =>
           hd[HandleOf(q, field)] = old[HandleOf(q, field)]
Touches(old, h, p) ==
    \A q \in DOMAIN old \cap DOMAIN h : old[q] # h[q] => IsPrefix(p, q)

(* Objects that differ in their handles only.                              *)
Alike(f, g) ==
    /\ g.name = f.name /\ g.path = f.path /\ g.dir = f.dir /\ g.read = f.read
    /\ g.valid = f.valid /\ g.buf = f.buf /\ g.pass = f.pass /\ g.owed = f.owed
(* A world after the host was asked for a handle to the object's file.     *)
Opens(w, v, field, other, find) ==
    LET i == HandleOf(w.of, field)
        j == HandleOf(w.of, other) IN
    /\ Sound(v) /\ v.host = w.host /\ v.of = w.of /\ v.status = w.status
    /\ Alike(w.me, v.me) /\ v.me[other] = w.me[other]
    /\ Apart(w.handle, v.handle, w.of)
    /\ j \in DOMAIN v.handle <=> j \in DOMAIN w.handle
    /\ j \in DOMAIN v.handle => v.handle[j] = w.handle[j]
    /\ \/ v.me[field] = Invalid /\ i \notin DOMAIN v.handle
       \/ /\ v.me[field] = i /\ i \in DOMAIN v.handle
          /\ v.handle[i].path = w.me.name /\ v.handle[i].find = find
          /\ v.handle[i].pos = 0

(* A stage that leaves the object's name, and changes its file at most.    *)
Stage(w, v) ==
    /\ Good(v) /\ v.of = w.of /\ v.me.name = w.me.name /\ Apart(w.handle, v.handle, w.of)
    /\ DOMAIN v.host = DOMAIN w.host /\ Touches(w.host, v.host, w.me.name)

(* A stage that may give the object, and its file, the name asked for.     *)
Names(w, v, new) ==
    /\ Good(v) /\ v.of = w.of /\ Apart(w.handle, v.handle, w.of)
    /\ Touches(w.host, v.host, w.me.name)
    /\ v.status = "GO" => /\ v.me.name = new /\ new \in DOMAIN v.host
                          /\ new = w.me.name \/ new \notin DOMAIN w.host

(* What Open has done when it ends: nothing, but perhaps a new entry, or   *)
(* an object with all it needs.                                            *)
Adds(old, h) == \A q \in DOMAIN old : q \in DOMAIN h /\ h[q] = old[q]
Opened(w, v) ==
    /\ Sound(v) /\ v.of = w.of /\ v.me.name = w.me.name /\ Apart(w.handle, v.handle, w.of)
    /\ Adds(w.host, v.host)
    /\ IF v.status = "SUCCESS" THEN Good(v) /\ v.me.name \in DOMAIN v.host
                               ELSE HasNone(v.handle, v.of)

(* What OnlyOwnFile says of a step.                                        *)
OwnFileStep ==
    LET f == IF reply'.call \in {"Open", "OpenVolume"} THEN file' ELSE file IN
    \A p \in DOMAIN host \cap DOMAIN host' :
      host[p] # host'[p] => IsPrefix(f[reply'.of].name, p)

----------------------------------------------------------------------------
(* Paths.                                                                  *)

LEMMA PrefixIs ==
  ASSUME NEW s \in Seq(Name), NEW t \in Seq(Name)
  PROVE  IsPrefix(s, t) <=> Len(s) <= Len(t) /\ \A i \in 1 .. Len(s) : s[i] = t[i]
<1>1. Len(s) \in Nat /\ Len(t) \in Nat
  BY LenProperties
<1>2. SubSeq(s, 1, Len(s)) = s
  BY SubSeqFull
<1>3. ASSUME Len(s) <= Len(t)
      PROVE  /\ SubSeq(t, 1, Len(s)) \in Seq(Name) /\ Len(SubSeq(t, 1, Len(s))) = Len(s)
             /\ \A i \in 1 .. Len(s) : SubSeq(t, 1, Len(s))[i] = t[i]
  <2>1. \A i \in 1 .. Len(s) : t[i] \in Name
    BY <1>1, <1>3, ElementOfSeq
  <2>2. /\ SubSeq(t, 1, Len(s)) \in Seq(Name)
        /\ Len(SubSeq(t, 1, Len(s))) = IF 1 <= Len(s) THEN Len(s) - 1 + 1 ELSE 0
        /\ \A i \in 1 .. Len(s) - 1 + 1 : SubSeq(t, 1, Len(s))[i] = t[1 + i - 1]
    BY <1>1, <2>1, SubSeqProperties
  <2> QED BY <1>1, <2>2
<1>4. ASSUME Len(s) <= Len(t), \A i \in 1 .. Len(s) : s[i] = t[i]
      PROVE  s = SubSeq(t, 1, Len(s))
  BY <1>3, <1>4, SeqEqual
<1> QED BY <1>2, <1>3, <1>4 DEF IsPrefix

LEMMA Front1 ==
  ASSUME NEW p \in Seq(Name), p # <<>>
  PROVE  /\ Front(p) \in Seq(Name) /\ Len(Front(p)) = Len(p) - 1 /\ Len(p) \in Nat \ {0}
         /\ \A i \in 1 .. Len(p) - 1 : Front(p)[i] = p[i]
<1>1. Len(p) \in Nat \ {0}
  BY EmptySeq
<1>2. \A i \in 1 .. Len(p) - 1 : p[i] \in Name
  BY <1>1, ElementOfSeq
<1>3. /\ SubSeq(p, 1, Len(p) - 1) \in Seq(Name)
      /\ Len(SubSeq(p, 1, Len(p) - 1)) = IF 1 <= Len(p) - 1 THEN Len(p) - 1 - 1 + 1 ELSE 0
      /\ \A i \in 1 .. Len(p) - 1 - 1 + 1 : SubSeq(p, 1, Len(p) - 1)[i] = p[1 + i - 1]
  BY <1>1, <1>2, SubSeqProperties
<1>4. Len(SubSeq(p, 1, Len(p) - 1)) = Len(p) - 1
  <2>1. \A n \in Nat \ {0} : (IF 1 <= n - 1 THEN n - 1 - 1 + 1 ELSE 0) = n - 1
    OBVIOUS
  <2> QED BY <1>1, <1>3, <2>1
<1>5. \A i \in 1 .. Len(p) - 1 : SubSeq(p, 1, Len(p) - 1)[i] = p[i]
  <2> TAKE i \in 1 .. Len(p) - 1
  <2>1. i \in 1 .. Len(p) - 1 - 1 + 1 /\ 1 + i - 1 = i
    BY <1>1
  <2> QED BY <1>3, <2>1
<1> QED BY <1>1, <1>3, <1>4, <1>5 DEF Front

(* What is before a path is the directory of it or before that.            *)
LEMMA BeforePath ==
  ASSUME NEW p \in Seq(Name), p # <<>>, NEW q \in Seq(Name)
  PROVE  /\ IsPrefix(q, p) /\ q # p => IsPrefix(q, Front(p))
         /\ IsPrefix(Front(p), p) /\ Front(p) # p
<1>1. /\ Front(p) \in Seq(Name) /\ Len(Front(p)) = Len(p) - 1 /\ Len(p) \in Nat \ {0}
      /\ \A i \in 1 .. Len(p) - 1 : Front(p)[i] = p[i]
  BY Front1
<1>2. Len(q) \in Nat
  BY LenProperties
<1>3. IsPrefix(Front(p), p)
  BY <1>1, PrefixIs
<1>4. Front(p) # p
  BY <1>1
<1>5. ASSUME IsPrefix(q, p), q # p PROVE IsPrefix(q, Front(p))
  <2>1. Len(q) <= Len(p) /\ \A i \in 1 .. Len(q) : q[i] = p[i]
    BY <1>5, PrefixIs
  <2>2. Len(q) # Len(p)
    BY <1>5, <2>1, SeqEqual
  <2>3. Len(q) <= Len(p) - 1
    BY <1>1, <1>2, <2>1, <2>2
  <2>4. \A i \in 1 .. Len(q) : q[i] = Front(p)[i]
    BY <1>1, <1>2, <2>1, <2>3
  <2> QED BY <1>1, <2>3, <2>4, PrefixIs
<1> QED BY <1>3, <1>4, <1>5

LEMMA PrefixTransitive ==
  ASSUME NEW p \in Seq(Name), NEW q \in Seq(Name), NEW r \in Seq(Name),
         IsPrefix(p, q), IsPrefix(q, r)
  PROVE  IsPrefix(p, r)
<1>1. Len(p) \in Nat /\ Len(q) \in Nat /\ Len(r) \in Nat
  BY LenProperties
<1>2. /\ Len(p) <= Len(q) /\ \A i \in 1 .. Len(p) : p[i] = q[i]
      /\ Len(q) <= Len(r) /\ \A i \in 1 .. Len(q) : q[i] = r[i]
  BY PrefixIs
<1>3. Len(p) <= Len(r) /\ \A i \in 1 .. Len(p) : p[i] = r[i]
  BY <1>1, <1>2
<1> QED BY <1>3, PrefixIs

LEMMA PrefixSelf == ASSUME NEW p \in Seq(Name) PROVE IsPrefix(p, p) /\ IsPrefix(Root, p)
<1>1. /\ Root \in Seq(Name) /\ Len(Root) = 0 /\ Len(p) \in Nat
  BY EmptySeq, LenProperties DEF Root
<1>2. Len(Root) <= Len(p) /\ \A i \in 1 .. Len(Root) : Root[i] = p[i]
  BY <1>1
<1>3. IsPrefix(Root, p)
  BY <1>1, <1>2, PrefixIs
<1>4. IsPrefix(p, p)
  BY <1>1, PrefixIs
<1> QED BY <1>3, <1>4

(* Whatever is before a path in a tree is there.                           *)
LEMMA TreeHas ==
  ASSUME NEW h, FileTree(h), NEW p \in DOMAIN h, NEW q \in Seq(Name), IsPrefix(q, p)
  PROVE  q \in DOMAIN h /\ (q # p => h[q].dir)
BY DEF FileTree, IsDirectory

(* Below what has no children there is nothing.                            *)
LEMMA ChildlessIsLeaf ==
  ASSUME NEW h, FileTree(h), NEW p \in Seq(Name), Children(h, p) = {},
         NEW q \in DOMAIN h, IsPrefix(p, q)
  PROVE  q = p
<1> SUFFICES ASSUME q # p PROVE FALSE
  OBVIOUS
<1>1. q \in Seq(Name) /\ Len(p) \in Nat /\ Len(q) \in Nat
  BY LenProperties DEF FileTree
<1>2. Len(p) <= Len(q) /\ \A i \in 1 .. Len(p) : p[i] = q[i]
  BY <1>1, PrefixIs
<1>3. Len(p) # Len(q)
  BY <1>1, <1>2, SeqEqual
<1>4. Len(p) + 1 \in 1 .. Len(q)
  BY <1>1, <1>2, <1>3
<1> DEFINE n == q[Len(p) + 1]
           c == Append(p, n)
<1>5. n \in Name
  BY <1>1, <1>4, ElementOfSeq
<1>6. /\ c \in Seq(Name) /\ Len(c) = Len(p) + 1
      /\ \A i \in 1 .. Len(p) : c[i] = p[i]
      /\ c[Len(p) + 1] = n
  BY <1>5, AppendProperties
<1>7. \A i \in 1 .. Len(c) : c[i] = q[i]
  <2> SUFFICES ASSUME NEW i \in 1 .. Len(p) + 1 PROVE c[i] = q[i]
    BY <1>6
  <2>1. CASE i \in 1 .. Len(p)
    BY <1>2, <1>6, <2>1
  <2>2. CASE i = Len(p) + 1
    BY <1>6, <2>2
  <2> QED BY <1>1, <2>1, <2>2
<1>8. IsPrefix(c, q)
  <2>1. Len(c) <= Len(q)
    BY <1>1, <1>4, <1>6
  <2> HIDE DEF c
  <2> QED BY <1>1, <1>6, <1>7, <2>1, PrefixIs
<1>9. c \in DOMAIN h
  BY <1>6, <1>8, TreeHas
<1> QED BY <1>5, <1>9 DEF Children

LEMMA GoesIs ==
  ASSUME NEW p \in Seq(Name), NEW old \in Seq(Name), NEW new \in Seq(Name), IsPrefix(old, p)
  PROVE  Lands(Goes(p, old, new), p, old, new)
<1> DEFINE m == Len(old)
           n == Len(p)
           k == Len(new)
           rest == SubSeq(p, m + 1, n)
<1>1. m \in Nat /\ n \in Nat /\ k \in Nat /\ m <= n
  BY LenProperties, PrefixIs
<1>2. \A i \in m + 1 .. n : p[i] \in Name
  <2>1. \A i \in m + 1 .. n : i \in 1 .. Len(p)
    BY <1>1
  <2> QED BY <2>1, ElementOfSeq
<1>3. /\ rest \in Seq(Name)
      /\ Len(rest) = IF m + 1 <= n THEN n - (m + 1) + 1 ELSE 0
      /\ \A i \in 1 .. n - (m + 1) + 1 : rest[i] = p[m + 1 + i - 1]
  BY <1>1, <1>2, SubSeqProperties
<1>4. Len(rest) = n - m
  <2>1. \A a, b \in Nat : a <= b => (IF a + 1 <= b THEN b - (a + 1) + 1 ELSE 0) = b - a
    OBVIOUS
  <2> QED BY <1>1, <1>3, <2>1
<1>5. /\ new \o rest \in Seq(Name) /\ Len(new \o rest) = k + Len(rest)
      /\ \A i \in 1 .. k + Len(rest) :
           (new \o rest)[i] = IF i <= k THEN new[i] ELSE rest[i - k]
  BY <1>3, ConcatProperties
<1>6. Goes(p, old, new) = new \o rest
  BY DEF Goes
<1> HIDE DEF m, n, k, rest
<1>7. Len(new \o rest) = k + n - m
  BY <1>1, <1>4, <1>5
<1>8. \A i \in 1 .. k : (new \o rest)[i] = new[i]
  BY <1>1, <1>4, <1>5
<1>9. \A i \in m + 1 .. n : (new \o rest)[i - m + k] = p[i]
  <2> TAKE i \in m + 1 .. n
  <2>1. /\ i - m + k \in 1 .. k + Len(rest) /\ ~(i - m + k <= k)
        /\ (i - m + k) - k = i - m /\ i - m \in 1 .. n - (m + 1) + 1
        /\ m + 1 + (i - m) - 1 = i
    BY <1>1, <1>4
  <2>2. (new \o rest)[i - m + k] = rest[i - m]
    BY <1>5, <2>1
  <2>3. rest[i - m] = p[m + 1 + (i - m) - 1]
    BY <1>3, <2>1
  <2> QED BY <2>1, <2>2, <2>3
<1> QED BY <1>5, <1>6, <1>7, <1>8, <1>9 DEF m, n, k, Lands

(* What is moved goes below the new name.                                  *)
LEMMA GoesBelow ==
  ASSUME NEW p \in Seq(Name), NEW old \in Seq(Name), NEW new \in Seq(Name), IsPrefix(old, p)
  PROVE  IsPrefix(new, Goes(p, old, new))
<1>1. Len(new) \in Nat /\ Len(p) \in Nat /\ Len(old) \in Nat /\ Len(old) <= Len(p)
  BY LenProperties, PrefixIs
<1>2. /\ Goes(p, old, new) \in Seq(Name)
      /\ Len(Goes(p, old, new)) = Len(new) + Len(p) - Len(old)
      /\ \A i \in 1 .. Len(new) : Goes(p, old, new)[i] = new[i]
  BY GoesIs DEF Lands
<1>3. Len(new) <= Len(Goes(p, old, new))
  BY <1>1, <1>2
<1> QED BY <1>2, <1>3, PrefixIs

LEMMA GoesApart ==
  ASSUME NEW old \in Seq(Name), NEW new \in Seq(Name),
         NEW p \in Seq(Name), IsPrefix(old, p), NEW q \in Seq(Name), IsPrefix(old, q),
         Goes(p, old, new) = Goes(q, old, new)
  PROVE  p = q
<1>1. Len(new) \in Nat /\ Len(p) \in Nat /\ Len(q) \in Nat /\ Len(old) \in Nat
  BY LenProperties
<1>2. /\ Len(Goes(p, old, new)) = Len(new) + Len(p) - Len(old)
      /\ \A i \in Len(old) + 1 .. Len(p) :
           Goes(p, old, new)[i - Len(old) + Len(new)] = p[i]
  BY GoesIs DEF Lands
<1>3. /\ Len(Goes(q, old, new)) = Len(new) + Len(q) - Len(old)
      /\ \A i \in Len(old) + 1 .. Len(q) :
           Goes(q, old, new)[i - Len(old) + Len(new)] = q[i]
  BY GoesIs DEF Lands
<1>4. Len(p) = Len(q)
  BY <1>1, <1>2, <1>3
<1>5. \A i \in 1 .. Len(old) : old[i] = p[i] /\ old[i] = q[i]
  BY PrefixIs
<1>6. \A i \in 1 .. Len(p) : p[i] = q[i]
  <2> TAKE i \in 1 .. Len(p)
  <2>1. CASE i \in 1 .. Len(old)
    BY <1>5, <2>1
  <2>2. CASE i \in Len(old) + 1 .. Len(p)
    BY <1>2, <1>3, <1>4, <2>2
  <2> QED BY <1>1, <2>1, <2>2
<1> QED BY <1>4, <1>6, SeqEqual

(* Nothing of a tree goes where something of it was or goes.               *)
LEMMA GoesInjective ==
  ASSUME NEW h, FileTree(h), NEW old, NEW new, Movable(h, old, new),
         NEW p \in DOMAIN h, NEW q \in DOMAIN h, Goes(p, old, new) = Goes(q, old, new)
  PROVE  p = q
<1>1. /\ p \in Seq(Name) /\ q \in Seq(Name) /\ old \in Seq(Name) /\ new \in Seq(Name)
  BY DEF FileTree, Movable
<1>2. CASE IsPrefix(old, p) /\ IsPrefix(old, q)
  BY <1>1, <1>2, GoesApart
<1>3. CASE ~IsPrefix(old, p) /\ ~IsPrefix(old, q)
  BY <1>3 DEF Goes
<1>4. ASSUME NEW r \in DOMAIN h, NEW s \in DOMAIN h, IsPrefix(old, r), ~IsPrefix(old, s),
             Goes(r, old, new) = s
      PROVE  FALSE
  <2>1. IsPrefix(new, s)
    BY <1>1, <1>4, GoesBelow DEF FileTree
  <2>2. new \in DOMAIN h
    BY <1>1, <2>1, TreeHas
  <2>3. new = old
    BY <2>2 DEF Movable
  <2> QED BY <1>4, <2>1, <2>3
<1>5. CASE IsPrefix(old, p) /\ ~IsPrefix(old, q)
  BY <1>4, <1>5 DEF Goes
<1>6. CASE ~IsPrefix(old, p) /\ IsPrefix(old, q)
  BY <1>4, <1>6 DEF Goes
<1> QED BY <1>2, <1>3, <1>5, <1>6

LEMMA GoesSame ==
  ASSUME NEW p \in Seq(Name), NEW old \in Seq(Name) PROVE Goes(p, old, old) = p
<1>1. CASE IsPrefix(old, p)
  <2>1. Lands(Goes(p, old, old), p, old, old)
    BY <1>1, GoesIs
  <2> DEFINE g == Goes(p, old, old)
             m == Len(old)
  <2>2. m \in Nat /\ Len(p) \in Nat /\ m <= Len(p) /\ \A i \in 1 .. m : old[i] = p[i]
    BY <1>1, LenProperties, PrefixIs
  <2>3. /\ g \in Seq(Name) /\ Len(g) = m + Len(p) - m
        /\ \A i \in 1 .. m : g[i] = old[i]
        /\ \A i \in m + 1 .. Len(p) : g[i - m + m] = p[i]
    BY <2>1 DEF Lands
  <2> HIDE DEF g, m
  <2>4. Len(g) = Len(p)
    BY <2>2, <2>3
  <2>5. \A i \in 1 .. Len(p) : g[i] = p[i]
    <3> TAKE i \in 1 .. Len(p)
    <3>1. CASE i \in 1 .. m
      BY <2>2, <2>3, <3>1
    <3>2. CASE i \in m + 1 .. Len(p)
      <4>1. i - m + m = i
        BY <2>2
      <4> QED BY <2>3, <3>2, <4>1
    <3> QED BY <2>2, <3>1, <3>2
  <2> QED BY <2>3, <2>4, <2>5, SeqEqual DEF g
<1>2. CASE ~IsPrefix(old, p)
  BY <1>2 DEF Goes
<1> QED BY <1>1, <1>2

(* A moved tree is the tree with each entry where it goes.                 *)
LEMMA MovedIs ==
  ASSUME NEW h, FileTree(h), NEW old, NEW new, Movable(h, old, new), NEW M, M = Moved(h, old, new)
  PROVE  /\ M = [q \in DOMAIN M |-> M[q]]
         /\ \A q \in DOMAIN M : \E p \in DOMAIN h : q = Goes(p, old, new)
         /\ \A p \in DOMAIN h :
              Goes(p, old, new) \in DOMAIN M /\ M[Goes(p, old, new)] = h[p]
<1> DEFINE G == {Goes(p, old, new) : p \in DOMAIN h}
           from(q) == h[CHOOSE p \in DOMAIN h : Goes(p, old, new) = q]
<1>1. M = [q \in G |-> from(q)]
  BY DEF Moved, Goes
<1>2. ASSUME NEW p \in DOMAIN h PROVE from(Goes(p, old, new)) = h[p]
  <2> DEFINE c == CHOOSE r \in DOMAIN h : Goes(r, old, new) = Goes(p, old, new)
  <2>1. c \in DOMAIN h /\ Goes(c, old, new) = Goes(p, old, new)
    BY Zenon
  <2>2. from(Goes(p, old, new)) = h[c]
    OBVIOUS
  <2> HIDE DEF c, from
  <2>3. c = p
    BY <2>1, GoesInjective
  <2> QED BY <2>2, <2>3
<1>3. \A q \in G : \E p \in DOMAIN h : q = Goes(p, old, new)
  OBVIOUS
<1>4. \A p \in DOMAIN h : Goes(p, old, new) \in G
  OBVIOUS
<1> HIDE DEF G, from
<1> QED BY <1>1, <1>2, <1>3, <1>4

LEMMA MovedKeeps ==
  ASSUME NEW h, FileTree(h), NEW old, NEW new, Movable(h, old, new), NEW M, M = Moved(h, old, new)
  PROVE  /\ \A p \in DOMAIN h : ~IsPrefix(old, p) => p \in DOMAIN M /\ M[p] = h[p]
         /\ new \in DOMAIN M /\ M[new] = h[old]
<1>1. \A p \in DOMAIN h : Goes(p, old, new) \in DOMAIN M /\ M[Goes(p, old, new)] = h[p]
  BY MovedIs
<1>2. \A p \in DOMAIN h : ~IsPrefix(old, p) => Goes(p, old, new) = p
  BY DEF Goes
<1>3. old \in DOMAIN h /\ old \in Seq(Name) /\ new \in Seq(Name)
  BY DEF Movable, FileTree
<1>4. Goes(old, old, new) = new
  <2>1. Len(old) \in Nat /\ IsPrefix(old, old)
    BY <1>3, LenProperties, PrefixSelf
  <2>2. SubSeq(old, Len(old) + 1, Len(old)) = <<>>
    BY <2>1, SubSeqEmpty
  <2>3. new \o <<>> = new
    BY <1>3, ConcatEmptySeq
  <2> QED BY <2>1, <2>2, <2>3 DEF Goes
<1> QED BY <1>1, <1>2, <1>3, <1>4

LEMMA MovedNowhere ==
  ASSUME NEW h, FileTree(h), NEW old, Movable(h, old, old) PROVE Moved(h, old, old) = h
<1> DEFINE M == Moved(h, old, old)
<1>1. M = M
  OBVIOUS
<1> HIDE DEF M
<1>2. /\ M = [q \in DOMAIN M |-> M[q]]
      /\ \A q \in DOMAIN M : \E p \in DOMAIN h : q = Goes(p, old, old)
      /\ \A p \in DOMAIN h : Goes(p, old, old) \in DOMAIN M /\ M[Goes(p, old, old)] = h[p]
  BY MovedIs DEF M
<1>3. h = [q \in DOMAIN h |-> h[q]] /\ \A p \in DOMAIN h : Goes(p, old, old) = p
  BY GoesSame DEF FileTree, Movable
<1>4. DOMAIN M = DOMAIN h /\ \A p \in DOMAIN h : M[p] = h[p]
  BY <1>2, <1>3
<1> QED BY <1>2, <1>3, <1>4 DEF M

LEMMA MovedInTree ==
  ASSUME NEW h, FileTree(h), NEW old, NEW new, Movable(h, old, new)
  PROVE  FileTree(Moved(h, old, new))
<1> SUFFICES ASSUME new # old PROVE FileTree(Moved(h, old, new))
  BY MovedNowhere
<1> DEFINE M == Moved(h, old, new)
<1>1. /\ M = [q \in DOMAIN M |-> M[q]]
      /\ \A q \in DOMAIN M : \E p \in DOMAIN h : q = Goes(p, old, new)
      /\ \A p \in DOMAIN h : Goes(p, old, new) \in DOMAIN M /\ M[Goes(p, old, new)] = h[p]
  <2> HIDE DEF M
  <2> QED BY MovedIs DEF M
<1>2. /\ \A p \in DOMAIN h : ~IsPrefix(old, p) => p \in DOMAIN M /\ M[p] = h[p]
      /\ new \in DOMAIN M /\ M[new] = h[old]
  <2> HIDE DEF M
  <2> QED BY MovedKeeps DEF M
<1> HIDE DEF M
<1>3. /\ h \in [DOMAIN h -> Entry] /\ DOMAIN h \subseteq Seq(Name) /\ Root \in DOMAIN h
      /\ h[Root].dir /\ old \in Seq(Name) /\ new \in Seq(Name) /\ old # Root
      /\ old \in DOMAIN h /\ Root \in Seq(Name)
  BY DEF FileTree, Movable, IsDirectory
<1>4. M \in [DOMAIN M -> Entry]
  <2>1. \A q \in DOMAIN M : M[q] \in Entry
    BY <1>1, <1>3
  <2> QED BY <1>1, <2>1
<1>5. DOMAIN M \subseteq Seq(Name)
  <2> SUFFICES ASSUME NEW p \in DOMAIN h PROVE Goes(p, old, new) \in Seq(Name)
    BY <1>1
  <2>1. CASE IsPrefix(old, p)
    BY <1>3, <2>1, GoesIs DEF Lands
  <2>2. CASE ~IsPrefix(old, p)
    BY <1>3, <2>2 DEF Goes
  <2> QED BY <2>1, <2>2
<1>6. IsDirectory(M, Root)
  <2>1. ~IsPrefix(old, Root)
    <3>1. Len(old) \in Nat \ {0} /\ Len(Root) = 0
      BY <1>3, EmptySeq DEF Root
    <3> QED BY <1>3, <3>1, PrefixIs
  <2> QED BY <1>2, <1>3, <2>1 DEF IsDirectory
<1>7. ASSUME NEW r \in DOMAIN M, NEW q \in Seq(Name), IsPrefix(q, r), q # r
      PROVE  IsDirectory(M, q)
  <2>1. PICK p \in DOMAIN h : Goes(p, old, new) = r
    BY <1>1
  <2>2. p \in Seq(Name)
    BY <1>3
  <2>3. ASSUME NEW s \in DOMAIN h, h[s].dir, ~IsPrefix(old, s) PROVE IsDirectory(M, s)
    BY <1>2, <2>3 DEF IsDirectory
  <2>4. CASE ~IsPrefix(old, p)
    <3>1. r = p
      BY <2>1, <2>4 DEF Goes
    <3>2. q \in DOMAIN h /\ h[q].dir
      BY <1>7, <2>2, <3>1, TreeHas
    <3>3. ~IsPrefix(old, q)
      BY <1>3, <1>7, <2>2, <2>4, <3>1, PrefixTransitive
    <3> QED BY <2>3, <3>2, <3>3
  <2>5. CASE IsPrefix(old, p)
    <3> DEFINE m == Len(old)
               k == Len(new)
    <3>1. /\ m \in Nat /\ k \in Nat /\ Len(p) \in Nat /\ Len(q) \in Nat /\ m <= Len(p)
          /\ \A i \in 1 .. m : old[i] = p[i]
      BY <1>3, <2>2, <2>5, LenProperties, PrefixIs
    <3>2. /\ r \in Seq(Name) /\ Len(r) = k + Len(p) - m
          /\ \A i \in 1 .. k : r[i] = new[i]
          /\ \A i \in m + 1 .. Len(p) : r[i - m + k] = p[i]
      <4>1. Lands(r, p, old, new)
        BY <1>3, <2>1, <2>2, <2>5, GoesIs
      <4> QED BY <4>1 DEF Lands
    <3>3. Len(q) <= Len(r) /\ \A i \in 1 .. Len(q) : q[i] = r[i]
      BY <1>7, <3>2, PrefixIs
    <3>4. new \notin DOMAIN h /\ ~IsPrefix(old, new) /\ IsDirectory(h, Front(new))
      BY <2>5 DEF Movable
    <3> HIDE DEF m, k
    <3>5. CASE Len(q) < k
      <4>1. new # Root
        BY <1>3, <3>4
      <4>2. /\ Front(new) \in Seq(Name) /\ IsPrefix(Front(new), new)
        BY <1>3, <4>1, Front1, BeforePath DEF Root
      <4>3. IsPrefix(q, new)
        <5>1. Len(q) <= Len(new) /\ \A i \in 1 .. Len(q) : q[i] = new[i]
          <6>1. Len(q) <= k /\ \A i \in 1 .. Len(q) : i \in 1 .. k
            BY <3>1, <3>5
          <6> QED BY <3>2, <3>3, <6>1 DEF k
        <5> QED BY <1>3, <5>1, PrefixIs
      <4>4. q # new
        BY <3>1, <3>5 DEF k
      <4>5. IsPrefix(q, Front(new))
        BY <1>3, <4>1, <4>3, <4>4, BeforePath DEF Root
      <4>6. q \in DOMAIN h /\ h[q].dir
        BY <3>4, <4>5, TreeHas DEF IsDirectory
      <4>7. ~IsPrefix(old, q)
        BY <1>3, <3>4, <4>3, PrefixTransitive
      <4> QED BY <2>3, <4>6, <4>7
    <3>6. CASE k <= Len(q)
      <4> DEFINE n == m + Len(q) - k
                 s == SubSeq(p, 1, n)
      <4>1. n \in Nat /\ m <= n /\ n <= Len(p)
        BY <3>1, <3>2, <3>3, <3>6
      <4> HIDE DEF n
      <4>2. /\ s \in Seq(Name) /\ Len(s) = n /\ \A i \in 1 .. n : s[i] = p[i]
        <5>1. \A i \in 1 .. n : p[i] \in Name
          <6>1. \A i \in 1 .. n : i \in 1 .. Len(p)
            BY <3>1, <4>1
          <6> QED BY <2>2, <6>1, ElementOfSeq
        <5>2. /\ s \in Seq(Name) /\ Len(s) = IF 1 <= n THEN n - 1 + 1 ELSE 0
              /\ \A i \in 1 .. n - 1 + 1 : s[i] = p[1 + i - 1]
          BY <4>1, <5>1, SubSeqProperties
        <5> HIDE DEF s
        <5> QED BY <4>1, <5>2
      <4> HIDE DEF s
      <4>3. IsPrefix(s, p)
        BY <2>2, <4>1, <4>2, PrefixIs
      <4>4. IsPrefix(old, s)
        <5>1. m <= n /\ \A i \in 1 .. m : old[i] = s[i]
          BY <3>1, <4>1, <4>2
        <5> QED BY <1>3, <4>2, <5>1, PrefixIs DEF m
      <4>5. Goes(s, old, new) = q
        <5> DEFINE g == Goes(s, old, new)
        <5>1. /\ g \in Seq(Name) /\ Len(g) = k + n - m
              /\ \A i \in 1 .. k : g[i] = new[i]
              /\ \A i \in m + 1 .. n : g[i - m + k] = s[i]
          <6>1. Lands(g, s, old, new)
            BY <1>3, <4>2, <4>4, GoesIs
          <6> HIDE DEF g
          <6> QED BY <4>2, <6>1 DEF m, k, Lands
        <5> HIDE DEF g
        <5>2. Len(g) = Len(q)
          BY <3>1, <5>1 DEF n
        <5>3. \A i \in 1 .. Len(q) : g[i] = q[i]
          <6> TAKE i \in 1 .. Len(q)
          <6>1. q[i] = r[i]
            BY <3>3
          <6>2. CASE i \in 1 .. k
            BY <3>2, <5>1, <6>1, <6>2
          <6>3. CASE i \in k + 1 .. Len(q)
            <7>1. /\ i + m - k \in m + 1 .. n /\ i + m - k \in 1 .. n
                  /\ i + m - k \in m + 1 .. Len(p)
                  /\ (i + m - k) - m + k = i
              BY <3>1, <4>1, <6>3 DEF n
            <7>2. g[i] = s[i + m - k]
              BY <5>1, <7>1
            <7>3. r[i] = p[i + m - k]
              BY <3>2, <7>1
            <7> QED BY <4>2, <6>1, <7>1, <7>2, <7>3
          <6> QED BY <3>1, <6>2, <6>3
        <5> QED BY <5>1, <5>2, <5>3, SeqEqual DEF g
      <4>6. s # p
        BY <1>7, <2>1, <4>5
      <4>7. s \in DOMAIN h /\ h[s].dir
        BY <4>2, <4>3, <4>6, TreeHas
      <4> QED BY <1>1, <4>5, <4>7 DEF IsDirectory
    <3> QED BY <3>1, <3>5, <3>6
  <2> QED BY <2>4, <2>5
<1> QED BY <1>4, <1>5, <1>6, <1>7 DEF FileTree, M

----------------------------------------------------------------------------
(* Trees.                                                                  *)

LEMMA TreeSet ==
  ASSUME NEW h, FileTree(h), NEW p \in DOMAIN h, NEW e \in Entry, e.dir = h[p].dir,
         NEW g, g = [h EXCEPT ![p] = e]
  PROVE  /\ FileTree(g) /\ DOMAIN g = DOMAIN h
         /\ \A q \in DOMAIN h : g[q].dir = h[q].dir /\ (q # p => g[q] = h[q])
<1>1. h \in [DOMAIN h -> Entry] /\ DOMAIN h \subseteq Seq(Name)
  BY DEF FileTree
<1>2. /\ DOMAIN g = DOMAIN h /\ g \in [DOMAIN g -> Entry]
      /\ \A q \in DOMAIN h : g[q].dir = h[q].dir /\ (q # p => g[q] = h[q])
  BY <1>1
<1> QED BY <1>1, <1>2 DEF FileTree, IsDirectory

LEMMA TreePut ==
  ASSUME NEW h, FileTree(h), NEW p \in Seq(Name), p \notin DOMAIN h,
         IsDirectory(h, DirectoryOf(p)), NEW e \in Entry, NEW g, g = Put(h, p, e)
  PROVE  /\ FileTree(g) /\ DOMAIN g = DOMAIN h \cup {p} /\ g[p] = e
         /\ \A q \in DOMAIN h : g[q] = h[q]
<1>1. h \in [DOMAIN h -> Entry] /\ DOMAIN h \subseteq Seq(Name) /\ IsDirectory(h, Root)
  BY DEF FileTree
<1>2. /\ DOMAIN g = DOMAIN h \cup {p} /\ g[p] = e /\ g \in [DOMAIN g -> Entry]
      /\ \A q \in DOMAIN h : g[q] = h[q]
  BY <1>1 DEF Put
<1>3. p # Root /\ Front(p) \in Seq(Name) /\ IsDirectory(h, Front(p))
  BY <1>1, Front1 DEF DirectoryOf, IsDirectory, Root
<1>4. ASSUME NEW r \in DOMAIN g, NEW q \in Seq(Name), IsPrefix(q, r), q # r
      PROVE  IsDirectory(h, q)
  <2>1. CASE r \in DOMAIN h
    BY <1>4, <2>1 DEF FileTree
  <2>2. CASE r = p
    <3>1. IsPrefix(q, Front(p))
      BY <1>3, <1>4, <2>2, BeforePath DEF Root
    <3> QED BY <1>3, <3>1, TreeHas DEF IsDirectory
  <2> QED BY <1>2, <2>1, <2>2
<1> QED BY <1>1, <1>2, <1>4 DEF FileTree, IsDirectory

LEMMA TreeCut ==
  ASSUME NEW h, FileTree(h), NEW p \in DOMAIN h, p # Root, Children(h, p) = {},
         NEW g, g = Restrict(h, DOMAIN h \ {p})
  PROVE  /\ FileTree(g) /\ DOMAIN g = DOMAIN h \ {p}
         /\ \A q \in DOMAIN g : g[q] = h[q]
<1>1. /\ h \in [DOMAIN h -> Entry] /\ DOMAIN h \subseteq Seq(Name) /\ IsDirectory(h, Root)
  BY DEF FileTree
<1>2. /\ DOMAIN g = DOMAIN h \ {p} /\ g \in [DOMAIN g -> Entry]
      /\ \A q \in DOMAIN g : g[q] = h[q]
  BY <1>1 DEF Restrict
<1>3. ASSUME NEW r \in DOMAIN g, NEW q \in Seq(Name), IsPrefix(q, r), q # r
      PROVE  IsDirectory(g, q)
  <2>1. IsDirectory(h, q)
    BY <1>2, <1>3 DEF FileTree
  <2>2. q # p
    BY <1>1, <1>2, <1>3, ChildlessIsLeaf
  <2> QED BY <1>2, <2>1, <2>2 DEF IsDirectory
<1> QED BY <1>1, <1>2, <1>3 DEF FileTree, IsDirectory

----------------------------------------------------------------------------
(* Objects and their handles.                                              *)

LEMMA IdsApart ==
  ASSUME NEW o \in Object, NEW q \in Object, NEW x \in Field, NEW y \in Field
  PROVE  /\ HandleOf(o, x) = HandleOf(q, y) => o = q /\ x = y
         /\ HandleOf(o, x) # Invalid /\ HandleOf(o, x) \in Id
BY DEF HandleOf, Invalid, Id

LEMMA StaysIs ==
  ASSUME NEW f \in Objects, NEW h, NEW g, g = Stays(f, h)
  PROVE  /\ g \in Objects /\ g.L = f.L /\ g.D = f.D /\ g.name = f.name /\ g.path = f.path
         /\ g.dir = f.dir /\ g.read = f.read /\ g.valid = f.valid /\ g.buf = f.buf
         /\ g.pass = f.pass /\ g.owed \subseteq f.owed /\ Owes(h, g)
<1>1. CASE f.dir
  BY <1>1 DEF Stays, Objects, Owes
<1>2. CASE ~f.dir
  BY <1>2 DEF Stays, Objects, Owes
<1> QED BY <1>1, <1>2

LEMMA StaysHas ==
  ASSUME NEW f \in Objects, NEW h, NEW hd, NEW o \in Object, Has(hd, o, f), NEW g, g = Stays(f, h)
  PROVE  Has(hd, o, g) /\ Owes(h, g) /\ g \in Objects
<1>1. /\ g \in Objects /\ g.L = f.L /\ g.D = f.D /\ g.name = f.name
      /\ g.dir = f.dir /\ g.valid = f.valid /\ g.buf = f.buf
      /\ g.pass = f.pass /\ g.owed \subseteq f.owed /\ Owes(h, g)
  BY StaysIs
<1>2. HasL(hd, o, g) /\ HasD(hd, o, g)
  BY <1>1 DEF Has, HasL, HasD
<1>3. Lists(hd, g)
  BY <1>1 DEF Has, Lists
<1> QED BY <1>1, <1>2, <1>3 DEF Has

(* An object has what it had when its handles are left alone.              *)
LEMMA ApartHas ==
  ASSUME NEW old, NEW hd, NEW o \in Object, Apart(old, hd, o),
         NEW q \in Object \ {o}, NEW f
  PROVE  Has(old, q, f) => Has(hd, q, f)
<1>1. \A field \in Field :
        /\ HandleOf(q, field) \in DOMAIN hd <=> HandleOf(q, field) \in DOMAIN old
        /\ HandleOf(q, field) \in DOMAIN hd => hd[HandleOf(q, field)] = old[HandleOf(q, field)]
  BY DEF Apart
<1>2. "L" \in Field /\ "D" \in Field
  BY DEF Field
<1> SUFFICES ASSUME Has(old, q, f) PROVE Has(hd, q, f)
  OBVIOUS
<1>3. HasL(hd, q, f) /\ HasD(hd, q, f)
  BY <1>1, <1>2 DEF Has, HasL, HasD
<1>4. f.L # Invalid => f.L = HandleOf(q, "L") /\ f.L \in DOMAIN old /\ hd[f.L] = old[f.L]
  BY <1>1, <1>2 DEF Has, HasL
<1>5. Lists(hd, f)
  BY <1>4 DEF Has, Lists
<1> QED BY <1>3, <1>5 DEF Has

LEMMA ApartNone ==
  ASSUME NEW old, NEW hd, NEW o \in Object, Apart(old, hd, o), NEW q \in Object \ {o}
  PROVE  HasNone(old, q) => HasNone(hd, q)
<1>1. "L" \in Field /\ "D" \in Field
  BY DEF Field
<1> QED BY <1>1 DEF Apart, HasNone

LEMMA ApartTransitive ==
  ASSUME NEW a, NEW b, NEW c, NEW o, Apart(a, b, o), Apart(b, c, o)
  PROVE  Apart(a, c, o)
BY DEF Apart

LEMMA ApartSelf == ASSUME NEW a, NEW o PROVE Apart(a, a, o)
BY DEF Apart

(* The ends of the calls.                                                  *)
LEMMA KeptKeeps ==
  ASSUME FsInv, NEW o \in Object, NEW w, Good(w), w.of = o, Apart(handle, w.handle, o), Kept(o, w)
  PROVE  FsInv'
<1>1. /\ host' = w.host /\ handle' = w.handle
      /\ file' = Put(Others(o, w.host), o, Stays(w.me, w.host))
  BY DEF Kept
<1>2. /\ w.me \in Objects /\ FileTree(w.host) /\ HandlesFit(w.host, w.handle)
      /\ Has(w.handle, o, w.me)
  BY DEF Good, Sound, IsWorld
<1>3. /\ DOMAIN file' = DOMAIN file \cup {o} /\ file'[o] = Stays(w.me, w.host)
      /\ \A q \in DOMAIN file \ {o} : file'[q] = Stays(file[q], w.host)
      /\ file' = [q \in DOMAIN file' |-> file'[q]]
  BY <1>1 DEF Put, Others
<1>4. Has(w.handle, o, file'[o]) /\ Owes(w.host, file'[o]) /\ file'[o] \in Objects
  BY <1>2, <1>3, StaysHas
<1>5. ASSUME NEW q \in DOMAIN file \ {o}
      PROVE  Has(w.handle, q, file'[q]) /\ Owes(w.host, file'[q]) /\ file'[q] \in Objects
  <2>1. file[q] \in Objects /\ q \in Object \ {o} /\ Has(handle, q, file[q])
    BY DEF FsInv
  <2>2. Has(w.handle, q, file[q])
    BY <2>1, ApartHas
  <2> QED BY <1>3, <2>1, <2>2, StaysHas
<1>6. ASSUME NEW q \in Object \ DOMAIN file' PROVE HasNone(w.handle, q)
  <2>1. q \in Object \ {o} /\ HasNone(handle, q)
    BY <1>3 DEF FsInv
  <2> QED BY <2>1, ApartNone
<1>7. DOMAIN file' \subseteq Object
  BY <1>3 DEF FsInv
<1>8. \A q \in DOMAIN file' :
        Has(w.handle, q, file'[q]) /\ Owes(w.host, file'[q]) /\ file'[q] \in Objects
  BY <1>3, <1>4, <1>5
<1>9. file' \in [DOMAIN file' -> Objects]
  BY <1>3, <1>8
<1> QED BY <1>1, <1>2, <1>6, <1>7, <1>8, <1>9 DEF FsInv

LEMMA FreedKeeps ==
  ASSUME FsInv, NEW o \in Object, NEW w, Sound(w), HasNone(w.handle, o),
         Apart(handle, w.handle, o), Freed(o, w)
  PROVE  FsInv'
<1>1. host' = w.host /\ handle' = w.handle /\ file' = Others(o, w.host)
  BY DEF Freed
<1>2. FileTree(w.host) /\ HandlesFit(w.host, w.handle)
  BY DEF Sound
<1>3. /\ DOMAIN file' = DOMAIN file \ {o}
      /\ \A q \in DOMAIN file \ {o} : file'[q] = Stays(file[q], w.host)
      /\ file' = [q \in DOMAIN file' |-> file'[q]]
  BY <1>1 DEF Others
<1>4. ASSUME NEW q \in DOMAIN file'
      PROVE  Has(w.handle, q, file'[q]) /\ Owes(w.host, file'[q]) /\ file'[q] \in Objects
  <2>1. file[q] \in Objects /\ q \in Object \ {o} /\ Has(handle, q, file[q])
    BY <1>3 DEF FsInv
  <2>2. Has(w.handle, q, file[q])
    BY <2>1, ApartHas
  <2> QED BY <1>3, <2>1, <2>2, StaysHas
<1>5. ASSUME NEW q \in Object \ DOMAIN file' PROVE HasNone(w.handle, q)
  <2>1. CASE q = o
    BY <2>1
  <2>2. CASE q # o
    <3>1. q \in Object \ {o} /\ HasNone(handle, q)
      BY <1>3, <2>2 DEF FsInv
    <3> QED BY <3>1, ApartNone
  <2> QED BY <2>1, <2>2
<1>6. DOMAIN file' \subseteq Object /\ file' \in [DOMAIN file' -> Objects]
  BY <1>3, <1>4 DEF FsInv
<1> QED BY <1>1, <1>2, <1>4, <1>5, <1>6 DEF FsInv

----------------------------------------------------------------------------
(* The host's handles.                                                     *)

LEMMA HandlesPut ==
  ASSUME NEW h, NEW hd, HandlesFit(h, hd), NEW i \in Id, NEW r \in HandleRec,
         r.path \in DOMAIN h, r.find => h[r.path].dir, NEW g, g = Put(hd, i, r)
  PROVE  /\ HandlesFit(h, g) /\ DOMAIN g = DOMAIN hd \cup {i} /\ g[i] = r
         /\ \A j \in DOMAIN hd : j # i => g[j] = hd[j]
<1>1. /\ DOMAIN g = DOMAIN hd \cup {i} /\ g[i] = r /\ g = [j \in DOMAIN g |-> g[j]]
      /\ \A j \in DOMAIN hd : j # i => g[j] = hd[j]
  BY DEF Put
<1>2. IsFiniteSet(DOMAIN g)
  BY <1>1, FS_AddElement DEF HandlesFit
<1>3. \A j \in DOMAIN g : g[j] \in HandleRec /\ g[j].path \in DOMAIN h
                          /\ (g[j].find => h[g[j].path].dir)
  BY <1>1 DEF HandlesFit
<1> QED BY <1>1, <1>2, <1>3 DEF HandlesFit

LEMMA HandlesCut ==
  ASSUME NEW h, NEW hd, HandlesFit(h, hd), NEW S, S \subseteq DOMAIN hd,
         NEW g, g = Restrict(hd, S)
  PROVE  /\ HandlesFit(h, g) /\ DOMAIN g = S
         /\ \A j \in DOMAIN g : g[j] = hd[j]
<1>1. /\ DOMAIN g = S /\ g = [j \in DOMAIN g |-> g[j]]
      /\ \A j \in DOMAIN g : g[j] = hd[j]
  BY DEF Restrict
<1>2. IsFiniteSet(DOMAIN g)
  BY <1>1, FS_Subset DEF HandlesFit
<1> QED BY <1>1, <1>2 DEF HandlesFit

LEMMA HandlesMove ==
  ASSUME NEW h, NEW hd, HandlesFit(h, hd), NEW i \in DOMAIN hd, NEW pos \in Nat,
         NEW g, g = [hd EXCEPT ![i].pos = pos]
  PROVE  /\ HandlesFit(h, g) /\ DOMAIN g = DOMAIN hd
         /\ \A j \in DOMAIN hd : j # i => g[j] = hd[j]
         /\ g[i].path = hd[i].path /\ g[i].write = hd[i].write /\ g[i].find = hd[i].find
         /\ g[i].pos = pos
<1>1. hd \in [DOMAIN hd -> HandleRec]
  BY DEF HandlesFit
<1>2. /\ DOMAIN g = DOMAIN hd /\ g = [j \in DOMAIN g |-> g[j]]
      /\ \A j \in DOMAIN hd : j # i => g[j] = hd[j]
      /\ g[i] = [hd[i] EXCEPT !.pos = pos]
  BY <1>1
<1>3. hd[i] \in HandleRec
  BY <1>1
<1>4. /\ g[i] \in HandleRec /\ g[i].path = hd[i].path /\ g[i].write = hd[i].write
      /\ g[i].find = hd[i].find /\ g[i].pos = pos
  BY <1>2, <1>3 DEF HandleRec
<1>5. \A j \in DOMAIN g : g[j] \in HandleRec /\ g[j].path \in DOMAIN h
                          /\ (g[j].find => h[g[j].path].dir)
  BY <1>2, <1>4 DEF HandlesFit
<1> QED BY <1>2, <1>4, <1>5 DEF HandlesFit

LEMMA EndedIs ==
  ASSUME NEW w, IsWorld(w), NEW s, NEW v, v = Ended(w, s)
  PROVE  /\ IsWorld(v) /\ v.host = w.host /\ v.handle = w.handle /\ v.of = w.of
         /\ v.me = w.me /\ v.status = s
BY DEF IsWorld, Ended

LEMMA EndedKeeps ==
  ASSUME NEW w, Sound(w), NEW s, NEW v, v = Ended(w, s)
  PROVE  /\ Sound(v) /\ v.host = w.host /\ v.handle = w.handle /\ v.of = w.of
         /\ v.me = w.me /\ v.status = s
         /\ Good(w) => Good(v)
<1>1. /\ IsWorld(v) /\ v.host = w.host /\ v.handle = w.handle /\ v.of = w.of
      /\ v.me = w.me /\ v.status = s
  BY EndedIs DEF Sound
<1> QED BY <1>1 DEF Sound, Good

LEMMA NewHandleIs ==
  ASSUME NEW w, Sound(w), NEW field \in Field,
         HandleOf(w.of, field) \notin DOMAIN w.handle
  PROVE  NewHandle(w, field) = HandleOf(w.of, field)
<1> DEFINE N == Cardinality(DOMAIN w.handle) + 1
           free == {k \in 1 .. N : <<w.of, field, k>> \notin DOMAIN w.handle}
<1>1. N \in Nat /\ 1 <= N
  BY FS_CardinalityType DEF Sound, HandlesFit
<1> HIDE DEF N
<1>2. 1 \in free /\ \A k \in free : k \in Nat /\ 1 <= k
  BY <1>1 DEF HandleOf
<1> HIDE DEF free
<1>3. \A k \in free : (\A j \in free : k <= j) => k = 1
  BY <1>2
<1>4. Min(free) \in free /\ \A j \in free : Min(free) <= j
  BY <1>2 DEF Min
<1>5. Min(free) = 1
  BY <1>3, <1>4
<1> QED BY <1>5 DEF NewHandle, HandleOf, free, N

LEMMA ObtainIs ==
  ASSUME NEW w, Sound(w), NEW field \in Field, NEW other \in Field, other # field,
         HandleOf(w.of, field) \notin DOMAIN w.handle, w.me.name \in DOMAIN w.host,
         NEW write \in BOOLEAN, NEW find \in BOOLEAN, find => w.host[w.me.name].dir,
         NEW v, v = Obtain(w, field, w.me.name, write, find)
  PROVE  /\ Opens(w, v, field, other, find)
         /\ v.me[field] # Invalid /\ v.handle[v.me[field]].write = write
<1> DEFINE i == HandleOf(w.of, field)
           j == HandleOf(w.of, other)
           r == [path |-> w.me.name, write |-> write, find |-> find, pos |-> 0]
           g == Put(w.handle, i, r)
<1>1. IsWorld(w) /\ FileTree(w.host) /\ HandlesFit(w.host, w.handle) /\ w.of \in Object /\ w.me \in Objects
  BY DEF Sound, IsWorld
<1>2. i \in Id /\ i # j /\ i # Invalid
  BY <1>1, IdsApart
<1>3. r \in HandleRec /\ r.path = w.me.name /\ r.find = find /\ r.pos = 0 /\ r.write = write
  BY <1>1 DEF HandleRec, Objects
<1>4. v = [w EXCEPT !.handle = g, !.me[field] = i]
  BY NewHandleIs DEF Obtain
<1> HIDE DEF i, j, r, g
<1>5. /\ HandlesFit(w.host, g) /\ DOMAIN g = DOMAIN w.handle \cup {i} /\ g[i] = r
      /\ \A k \in DOMAIN w.handle : k # i => g[k] = w.handle[k]
  <2>1. r.path \in DOMAIN w.host /\ (r.find => w.host[r.path].dir)
    BY DEF r
  <2>2. g = Put(w.handle, i, r)
    BY DEF g
  <2> QED BY <1>1, <1>2, <1>3, <2>1, <2>2, HandlesPut
<1>8. /\ IsWorld(v) /\ v.host = w.host /\ v.handle = g /\ v.of = w.of /\ v.status = w.status
      /\ Alike(w.me, v.me) /\ v.me[other] = w.me[other] /\ v.me[field] = i
  <2>1. CASE field = "L"
    <3>1. /\ IsWorld(v) /\ v.host = w.host /\ v.handle = g /\ v.of = w.of /\ v.status = w.status
          /\ v.me = [w.me EXCEPT !.L = i]
      <4>1. v = [w EXCEPT !.handle = g, !.me["L"] = i]
        BY <1>4, <2>1
      <4>2. [w.me EXCEPT !.L = i] \in Objects
        BY <1>1, <1>2 DEF Objects
      <4>3. /\ v.host = w.host /\ v.handle = g /\ v.of = w.of /\ v.status = w.status
            /\ v.me = [w.me EXCEPT !.L = i]
            /\ v \in [host : {v.host}, handle : {v.handle}, of : {v.of}, me : {v.me},
                     status : {v.status}]
        BY <1>1, <4>1 DEF IsWorld
      <4> QED BY <1>1, <4>2, <4>3 DEF IsWorld
    <3>2. Alike(w.me, v.me) /\ v.me["D"] = w.me["D"] /\ v.me["L"] = i
      BY <1>1, <3>1 DEF Alike, Objects
    <3>3. other = "D"
      BY <2>1 DEF Field
    <3> QED BY <2>1, <3>1, <3>2, <3>3
  <2>2. CASE field = "D"
    <3>1. /\ IsWorld(v) /\ v.host = w.host /\ v.handle = g /\ v.of = w.of /\ v.status = w.status
          /\ v.me = [w.me EXCEPT !.D = i]
      <4>1. v = [w EXCEPT !.handle = g, !.me["D"] = i]
        BY <1>4, <2>2
      <4>2. [w.me EXCEPT !.D = i] \in Objects
        BY <1>1, <1>2 DEF Objects
      <4>3. /\ v.host = w.host /\ v.handle = g /\ v.of = w.of /\ v.status = w.status
            /\ v.me = [w.me EXCEPT !.D = i]
            /\ v \in [host : {v.host}, handle : {v.handle}, of : {v.of}, me : {v.me},
                     status : {v.status}]
        BY <1>1, <4>1 DEF IsWorld
      <4> QED BY <1>1, <4>2, <4>3 DEF IsWorld
    <3>2. Alike(w.me, v.me) /\ v.me["L"] = w.me["L"] /\ v.me["D"] = i
      BY <1>1, <3>1 DEF Alike, Objects
    <3>3. other = "L"
      BY <2>2 DEF Field
    <3> QED BY <2>2, <3>1, <3>2, <3>3
  <2> QED BY <2>1, <2>2 DEF Field
<1>9. Sound(v)
  BY <1>1, <1>5, <1>8 DEF Sound
<1>10. Apart(w.handle, g, w.of)
  <2> SUFFICES ASSUME NEW q \in Object \ {w.of}, NEW x \in Field
               PROVE  /\ HandleOf(q, x) \in DOMAIN g <=> HandleOf(q, x) \in DOMAIN w.handle
                      /\ HandleOf(q, x) \in DOMAIN g => g[HandleOf(q, x)] = w.handle[HandleOf(q, x)]
    BY DEF Apart
  <2>1. HandleOf(q, x) # i
    BY <1>1, IdsApart DEF i
  <2> QED BY <1>5, <2>1
<1>11. /\ j \in DOMAIN g <=> j \in DOMAIN w.handle
       /\ j \in DOMAIN g => g[j] = w.handle[j]
  BY <1>2, <1>5
<1>12. i \in DOMAIN g /\ g[i].path = w.me.name /\ g[i].find = find /\ g[i].pos = 0 /\ g[i].write = write
  BY <1>3, <1>5
<1>13. Opens(w, v, field, other, find)
  BY <1>8, <1>9, <1>10, <1>11, <1>12 DEF Opens, i, j
<1> QED BY <1>2, <1>8, <1>12, <1>13

LEMMA WithoutIs ==
  ASSUME NEW w, Sound(w), NEW field \in Field, NEW other \in Field, other # field,
         HandleOf(w.of, field) \notin DOMAIN w.handle, NEW find,
         NEW v, v = Without(w, field)
  PROVE  Opens(w, v, field, other, find) /\ v.me[field] = Invalid
<1>1. IsWorld(w) /\ w.of \in Object /\ w.me \in Objects
  BY DEF Sound, IsWorld
<1>2. v = [w EXCEPT !.me[field] = Invalid]
  BY DEF Without
<1>3. /\ IsWorld(v) /\ v.host = w.host /\ v.handle = w.handle /\ v.of = w.of
      /\ v.status = w.status
      /\ Alike(w.me, v.me) /\ v.me[other] = w.me[other] /\ v.me[field] = Invalid
  <2>1. CASE field = "L"
    <3>1. [w.me EXCEPT !.L = Invalid] \in Objects
      BY <1>1 DEF Objects
    <3>2. /\ v.host = w.host /\ v.handle = w.handle /\ v.of = w.of /\ v.status = w.status
          /\ v.me = [w.me EXCEPT !.L = Invalid]
          /\ v \in [host : {v.host}, handle : {v.handle}, of : {v.of}, me : {v.me},
                   status : {v.status}]
      BY <1>1, <1>2, <2>1 DEF IsWorld
    <3>3. Alike(w.me, v.me) /\ v.me["D"] = w.me["D"] /\ v.me["L"] = Invalid
      BY <1>1, <3>2 DEF Alike, Objects
    <3>4. other = "D"
      BY <2>1 DEF Field
    <3> QED BY <1>1, <2>1, <3>1, <3>2, <3>3, <3>4 DEF IsWorld
  <2>2. CASE field = "D"
    <3>1. [w.me EXCEPT !.D = Invalid] \in Objects
      BY <1>1 DEF Objects
    <3>2. /\ v.host = w.host /\ v.handle = w.handle /\ v.of = w.of /\ v.status = w.status
          /\ v.me = [w.me EXCEPT !.D = Invalid]
          /\ v \in [host : {v.host}, handle : {v.handle}, of : {v.of}, me : {v.me},
                   status : {v.status}]
      BY <1>1, <1>2, <2>2 DEF IsWorld
    <3>3. Alike(w.me, v.me) /\ v.me["L"] = w.me["L"] /\ v.me["D"] = Invalid
      BY <1>1, <3>2 DEF Alike, Objects
    <3>4. other = "L"
      BY <2>2 DEF Field
    <3> QED BY <1>1, <2>2, <3>1, <3>2, <3>3, <3>4 DEF IsWorld
  <2> QED BY <2>1, <2>2 DEF Field
<1>4. Sound(v) /\ Apart(w.handle, v.handle, w.of)
  BY <1>3, ApartSelf DEF Sound
<1> QED BY <1>3, <1>4 DEF Opens

LEMMA CreateFileIs ==
  ASSUME NEW w, Sound(w), NEW field \in Field, NEW other \in Field, other # field,
         HandleOf(w.of, field) \notin DOMAIN w.handle,
         NEW write \in BOOLEAN, NEW backup \in BOOLEAN,
         NEW v, v = CreateFile(w, field, w.me.name, write, backup)
  PROVE  Opens(w, v, field, other, FALSE)
<1>1. CASE CanOpen(w, w.me.name, write, backup)
  <2>1. w.me.name \in DOMAIN w.host
    BY <1>1 DEF CanOpen
  <2>2. PICK find \in BOOLEAN : find = FALSE
    OBVIOUS
  <2>3. v = Obtain(w, field, w.me.name, write, find) /\ (find => w.host[w.me.name].dir)
    BY <1>1, <2>2 DEF CreateFile
  <2>4. Opens(w, v, field, other, find)
    BY <2>1, <2>3, ObtainIs
  <2> QED BY <2>2, <2>4
<1>2. CASE ~CanOpen(w, w.me.name, write, backup)
  <2>1. v = Without(w, field)
    BY <1>2 DEF CreateFile
  <2> QED BY <2>1, WithoutIs
<1> QED BY <1>1, <1>2

LEMMA FindFirstIs ==
  ASSUME NEW w, Sound(w), HandleOf(w.of, "L") \notin DOMAIN w.handle,
         NEW v, v = FindFirst(w, w.me.name)
  PROVE  /\ Opens(w, v, "L", "D", TRUE)
         /\ v.me.L # Invalid <=> IsDirectory(w.host, w.me.name)
<1>1. "L" \in Field /\ "D" \in Field /\ "L" # "D"
  BY DEF Field
<1>2. CASE IsDirectory(w.host, w.me.name)
  <2>1. w.me.name \in DOMAIN w.host /\ w.host[w.me.name].dir
    BY <1>2 DEF IsDirectory
  <2>2. v = Obtain(w, "L", w.me.name, FALSE, TRUE)
    BY <1>2 DEF FindFirst
  <2>3. Opens(w, v, "L", "D", TRUE) /\ v.me["L"] # Invalid
    <3>1. PICK write \in BOOLEAN, find \in BOOLEAN : ~write /\ find
      OBVIOUS
    <3>2. v = Obtain(w, "L", w.me.name, write, find) /\ (find => w.host[w.me.name].dir)
      <4>1. write = FALSE /\ find = TRUE
        BY <3>1
      <4> QED BY <2>1, <2>2, <4>1
    <3>3. Opens(w, v, "L", "D", find) /\ v.me["L"] # Invalid
      BY <1>1, <2>1, <3>2, ObtainIs
    <3>4. find = TRUE
      BY <3>1
    <3> QED BY <3>3, <3>4
  <2> QED BY <1>2, <2>3
<1>3. CASE ~IsDirectory(w.host, w.me.name)
  <2>1. v = Without(w, "L")
    BY <1>3 DEF FindFirst
  <2>2. Opens(w, v, "L", "D", TRUE) /\ v.me["L"] = Invalid
    BY <1>1, <2>1, WithoutIs
  <2> QED BY <1>3, <2>2
<1> QED BY <1>2, <1>3

(* A handle is closed: it is the object's or none.                         *)
LEMMA CloseHandleIs ==
  ASSUME NEW w, Sound(w), NEW field \in Field,
         w.me[field] \in {Invalid, HandleOf(w.of, field)},
         NEW v, v = CloseHandle(w, field)
  PROVE  /\ Sound(v) /\ v.host = w.host /\ v.of = w.of /\ v.me = w.me /\ v.status = w.status
         /\ Apart(w.handle, v.handle, w.of)
         /\ DOMAIN v.handle = DOMAIN w.handle \ {w.me[field]}
         /\ \A i \in DOMAIN v.handle : v.handle[i] = w.handle[i]
<1> DEFINE g == Restrict(w.handle, DOMAIN w.handle \ {w.me[field]})
<1>1. IsWorld(w) /\ FileTree(w.host) /\ HandlesFit(w.host, w.handle) /\ w.of \in Object
  BY DEF Sound, IsWorld
<1>2. v = [w EXCEPT !.handle = g]
  BY DEF CloseHandle
<1>3. /\ HandlesFit(w.host, g) /\ DOMAIN g = DOMAIN w.handle \ {w.me[field]}
      /\ \A i \in DOMAIN g : g[i] = w.handle[i]
  <2> DEFINE S == DOMAIN w.handle \ {w.me[field]}
  <2>1. g = Restrict(w.handle, S) /\ S \subseteq DOMAIN w.handle
    OBVIOUS
  <2>2. S = DOMAIN w.handle \ {w.me[field]}
    OBVIOUS
  <2> HIDE DEF g, S
  <2>3. HandlesFit(w.host, g) /\ DOMAIN g = S /\ \A i \in DOMAIN g : g[i] = w.handle[i]
    BY <1>1, <2>1, HandlesCut
  <2> QED BY <2>2, <2>3
<1> HIDE DEF g
<1>4. /\ IsWorld(v) /\ v.host = w.host /\ v.handle = g /\ v.of = w.of /\ v.me = w.me
      /\ v.status = w.status
  BY <1>1, <1>2 DEF IsWorld
<1>5. Apart(w.handle, g, w.of)
  <2> SUFFICES ASSUME NEW q \in Object \ {w.of}, NEW x \in Field
               PROVE  /\ HandleOf(q, x) \in DOMAIN g <=> HandleOf(q, x) \in DOMAIN w.handle
                      /\ HandleOf(q, x) \in DOMAIN g => g[HandleOf(q, x)] = w.handle[HandleOf(q, x)]
    BY DEF Apart
  <2>1. HandleOf(q, x) # w.me[field]
    BY <1>1, IdsApart
  <2> QED BY <1>3, <2>1
<1> QED BY <1>1, <1>3, <1>4, <1>5 DEF Sound

LEMMA ShutIs ==
  ASSUME NEW w, Sound(w), HasL(w.handle, w.of, w.me), HasD(w.handle, w.of, w.me),
         NEW v, v = Shut(w)
  PROVE  /\ Sound(v) /\ v.host = w.host /\ v.of = w.of /\ v.me = w.me /\ v.status = w.status
         /\ Apart(w.handle, v.handle, w.of) /\ HasNone(v.handle, w.of)
<1>1. "L" \in Field /\ "D" \in Field /\ w.of \in Object
  BY DEF Field, Sound, IsWorld
<1>2. w.me["L"] \in {Invalid, HandleOf(w.of, "L")} /\ (w.me.dir => w.me["D"] \in {Invalid, HandleOf(w.of, "D")})
  BY DEF HasL, HasD
<1> DEFINE l == CloseHandle(w, "L")
<1>3. /\ Sound(l) /\ l.host = w.host /\ l.of = w.of /\ l.me = w.me /\ l.status = w.status
      /\ Apart(w.handle, l.handle, w.of)
      /\ DOMAIN l.handle = DOMAIN w.handle \ {w.me["L"]}
      /\ \A i \in DOMAIN l.handle : l.handle[i] = w.handle[i]
  BY <1>1, <1>2, CloseHandleIs
<1>4. v = IF w.me.dir THEN CloseHandle(l, "D") ELSE l
  BY DEF Shut
<1> HIDE DEF l
<1>5. HandleOf(w.of, "L") \notin DOMAIN l.handle
  BY <1>3 DEF HasL
<1>6. CASE w.me.dir
  <2>1. v = CloseHandle(l, "D") /\ l.me["D"] \in {Invalid, HandleOf(l.of, "D")}
    BY <1>2, <1>3, <1>4, <1>6
  <2>2. /\ Sound(v) /\ v.host = l.host /\ v.of = l.of /\ v.me = l.me /\ v.status = l.status
        /\ Apart(l.handle, v.handle, l.of)
        /\ DOMAIN v.handle = DOMAIN l.handle \ {l.me["D"]}
    BY <1>1, <1>3, <2>1, CloseHandleIs
  <2>3. Apart(w.handle, v.handle, w.of)
    BY <1>3, <2>2, ApartTransitive
  <2>4. HandleOf(w.of, "D") \notin DOMAIN v.handle
    BY <1>3, <1>6, <2>2 DEF HasD
  <2> QED BY <1>3, <1>5, <2>2, <2>3, <2>4 DEF HasNone
<1>7. CASE ~w.me.dir
  BY <1>3, <1>4, <1>5, <1>7 DEF HasD, HasNone
<1> QED BY <1>6, <1>7

----------------------------------------------------------------------------
(* The stages of the calls.                                                *)

LEMMA OpensL ==
  ASSUME NEW w, NEW v, NEW find, Opens(w, v, "L", "D", find), w.me.dir => find
  PROVE  /\ HasL(v.handle, v.of, v.me)
         /\ HasD(w.handle, w.of, w.me) => HasD(v.handle, v.of, v.me)
<1>1. /\ v.me.name = w.me.name /\ v.me.dir = w.me.dir /\ v.me.D = w.me.D /\ v.of = w.of
      /\ HandleOf(w.of, "D") \in DOMAIN v.handle <=> HandleOf(w.of, "D") \in DOMAIN w.handle
      /\ HandleOf(w.of, "D") \in DOMAIN v.handle =>
           v.handle[HandleOf(w.of, "D")] = w.handle[HandleOf(w.of, "D")]
      /\ \/ v.me.L = Invalid /\ HandleOf(w.of, "L") \notin DOMAIN v.handle
         \/ /\ v.me.L = HandleOf(w.of, "L") /\ HandleOf(w.of, "L") \in DOMAIN v.handle
            /\ v.handle[HandleOf(w.of, "L")].path = w.me.name
            /\ v.handle[HandleOf(w.of, "L")].find = find
  BY DEF Opens, Alike
<1>2. HasL(v.handle, v.of, v.me)
  BY <1>1 DEF HasL
<1>3. HasD(w.handle, w.of, w.me) => HasD(v.handle, v.of, v.me)
  BY <1>1 DEF HasD
<1> QED BY <1>2, <1>3

LEMMA OpensD ==
  ASSUME NEW w, NEW v, NEW find, Opens(w, v, "D", "L", find), w.me.dir
  PROVE  /\ HasD(v.handle, v.of, v.me)
         /\ HandleOf(w.of, "L") \notin DOMAIN w.handle =>
              HandleOf(v.of, "L") \notin DOMAIN v.handle
<1>1. /\ v.me.name = w.me.name /\ v.me.dir = w.me.dir /\ v.of = w.of
      /\ HandleOf(w.of, "L") \in DOMAIN v.handle <=> HandleOf(w.of, "L") \in DOMAIN w.handle
      /\ \/ v.me.D = Invalid /\ HandleOf(w.of, "D") \notin DOMAIN v.handle
         \/ /\ v.me.D = HandleOf(w.of, "D") /\ HandleOf(w.of, "D") \in DOMAIN v.handle
            /\ v.handle[HandleOf(w.of, "D")].path = w.me.name
  BY DEF Opens, Alike
<1>2. HasD(v.handle, v.of, v.me)
  BY <1>1 DEF HasD
<1> QED BY <1>1, <1>2

LEMMA RewoundIs ==
  ASSUME NEW w, Sound(w), w.me.dir, HasD(w.handle, w.of, w.me),
         HandleOf(w.of, "L") \notin DOMAIN w.handle, NEW v, v = Rewound(w)
  PROVE  /\ Good(v) /\ v.host = w.host /\ v.of = w.of /\ v.status = w.status
         /\ v.me.name = w.me.name /\ v.me.dir /\ Apart(w.handle, v.handle, w.of)
<1> DEFINE found == FindFirst(w, w.me.name)
           all == Children(w.host, w.me.name)
<1>1. Opens(w, found, "L", "D", TRUE)
  BY FindFirstIs, Zenon
<1>2. PICK any \in BOOLEAN : any <=> found.me.L # Invalid
  OBVIOUS
<1>3. v = [found EXCEPT !.me.valid = any, !.me.buf = Here, !.me.pass = any, !.me.owed = all]
  BY <1>2 DEF Rewound
<1>4. all \in SUBSET Name /\ Here \in Nat
  BY DEF Children, Here
<1> HIDE DEF found, all
<1>5. /\ Sound(found) /\ found.host = w.host /\ found.of = w.of /\ found.status = w.status
      /\ Alike(w.me, found.me) /\ Apart(w.handle, found.handle, w.of)
      /\ HasL(found.handle, w.of, found.me) /\ HasD(found.handle, w.of, found.me)
      /\ found.me.L # Invalid => found.handle[found.me.L].pos = 0
  <2>1. HasL(found.handle, found.of, found.me) /\ HasD(found.handle, found.of, found.me)
    BY <1>1, OpensL
  <2> QED BY <1>1, <2>1 DEF Opens
<1>6. IsWorld(found) /\ found.me \in Objects
  BY <1>5 DEF Sound, IsWorld
<1> DEFINE f == [found.me EXCEPT !.valid = any, !.buf = Here, !.pass = any, !.owed = all]
<1>7. /\ f \in Objects /\ f.L = found.me.L /\ f.D = found.me.D /\ f.name = found.me.name
      /\ f.dir = found.me.dir /\ f.valid = any /\ f.buf = Here /\ f.pass = any /\ f.owed = all
  BY <1>4, <1>6 DEF Objects
<1>8. /\ v.host = found.host /\ v.handle = found.handle /\ v.of = found.of /\ v.me = f
      /\ v.status = found.status
      /\ v \in [host : {v.host}, handle : {v.handle}, of : {v.of}, me : {v.me},
               status : {v.status}]
  BY <1>3, <1>6 DEF IsWorld, Objects
<1> HIDE DEF f
<1>9. Sound(v)
  BY <1>5, <1>6, <1>7, <1>8 DEF Sound, IsWorld
<1>10. f.name = w.me.name /\ f.dir
  BY <1>5, <1>7 DEF Alike
<1>11. HasL(v.handle, v.of, v.me) /\ HasD(v.handle, v.of, v.me)
  BY <1>5, <1>7, <1>8 DEF HasL, HasD
<1>12. Lists(v.handle, v.me)
  <2>1. \A n \in all : n >= 0
    BY <1>4, NameAssumption
  <2> QED BY <1>2, <1>5, <1>7, <1>8, <1>10, <2>1 DEF Lists, Here
<1> QED BY <1>5, <1>8, <1>9, <1>10, <1>11, <1>12 DEF Good, Has

LEMMA ReacquiredIs ==
  ASSUME NEW w, Sound(w), HasNone(w.handle, w.of), w.me.valid \/ w.me.pass => w.me.dir,
         w.me.valid => IsDirectory(w.host, w.me.name),
         NEW v, v = Reacquired(w, w.me.name)
  PROVE  /\ Good(v) /\ v.host = w.host /\ v.of = w.of /\ v.status = w.status
         /\ v.me.name = w.me.name /\ v.me.dir = w.me.dir /\ v.me.read = w.me.read
         /\ Apart(w.handle, v.handle, w.of)
<1>1. "L" \in Field /\ "D" \in Field /\ "L" # "D" /\ w.me \in Objects
  BY DEF Field, Sound, IsWorld
<1>2. PICK write \in BOOLEAN : write <=> ~w.me.read
  OBVIOUS
<1>3. HandleOf(w.of, "L") \notin DOMAIN w.handle /\ HandleOf(w.of, "D") \notin DOMAIN w.handle
  BY DEF HasNone
<1>4. CASE w.me.dir
  <2> DEFINE d == CreateFile(w, "D", w.me.name, write, TRUE)
             l == FindFirst(d, d.me.name)
  <2>1. Opens(w, d, "D", "L", FALSE)
    <3>1. PICK backup \in BOOLEAN : backup
      OBVIOUS
    <3>2. d = CreateFile(w, "D", w.me.name, write, backup)
      BY <3>1
    <3> HIDE DEF d
    <3> QED BY <1>1, <1>3, <3>2, CreateFileIs
  <2>2. HasD(d.handle, d.of, d.me) /\ HandleOf(d.of, "L") \notin DOMAIN d.handle
    BY <1>3, <1>4, <2>1, OpensD
  <2>3. /\ Sound(d) /\ d.host = w.host /\ d.of = w.of /\ d.status = w.status
        /\ Alike(w.me, d.me) /\ Apart(w.handle, d.handle, w.of)
    BY <2>1 DEF Opens
  <2>4. v = [l EXCEPT !.me.pass = FALSE, !.me.owed = {}]
    <3>1. v = [FindFirst(CreateFile(w, "D", w.me.name, ~w.me.read, TRUE), w.me.name)
                 EXCEPT !.me.pass = FALSE, !.me.owed = {}]
      BY <1>4 DEF Reacquired
    <3>2. d = CreateFile(w, "D", w.me.name, ~w.me.read, TRUE)
      BY <1>2
    <3>3. d.me.name = w.me.name
      BY <2>3 DEF Alike
    <3> HIDE DEF d
    <3> QED BY <3>1, <3>2, <3>3
  <2> HIDE DEF d
  <2>5. Opens(d, l, "L", "D", TRUE) /\ (l.me.L # Invalid <=> IsDirectory(d.host, d.me.name))
    BY <2>2, <2>3, FindFirstIs, Zenon
  <2> HIDE DEF l
  <2>6. HasL(l.handle, l.of, l.me) /\ HasD(l.handle, l.of, l.me)
    BY <2>2, <2>5, OpensL
  <2>7. /\ Sound(l) /\ l.host = w.host /\ l.of = w.of /\ l.status = w.status
        /\ Alike(w.me, l.me) /\ Apart(w.handle, l.handle, w.of)
    <3>1. /\ Sound(l) /\ l.host = d.host /\ l.of = d.of /\ l.status = d.status
          /\ Alike(d.me, l.me) /\ Apart(d.handle, l.handle, d.of)
      BY <2>5 DEF Opens
    <3> QED BY <2>3, <3>1, ApartTransitive DEF Alike
  <2>8. IsWorld(l) /\ l.me \in Objects
    BY <2>7 DEF Sound, IsWorld
  <2> DEFINE f == [l.me EXCEPT !.pass = FALSE, !.owed = {}]
  <2>9. /\ f \in Objects /\ f.L = l.me.L /\ f.D = l.me.D /\ f.name = l.me.name
        /\ f.dir = l.me.dir /\ f.valid = l.me.valid /\ ~f.pass /\ f.read = l.me.read
    BY <2>8 DEF Objects
  <2>10. /\ v.host = l.host /\ v.handle = l.handle /\ v.of = l.of /\ v.me = f
         /\ v.status = l.status
         /\ v \in [host : {v.host}, handle : {v.handle}, of : {v.of}, me : {v.me},
                  status : {v.status}]
    BY <2>4, <2>8 DEF IsWorld, Objects
  <2> HIDE DEF f
  <2>11. Sound(v)
    BY <2>7, <2>8, <2>9, <2>10 DEF Sound, IsWorld
  <2>12. HasL(v.handle, v.of, v.me) /\ HasD(v.handle, v.of, v.me)
    BY <2>6, <2>9, <2>10 DEF HasL, HasD
  <2>13. Lists(v.handle, v.me)
    <3>1. w.me.valid => l.me.L # Invalid
      <4>1. d.host = w.host /\ d.me.name = w.me.name
        BY <2>3 DEF Alike
      <4> QED BY <2>5, <4>1
    <3> QED BY <1>4, <2>7, <2>9, <2>10, <3>1 DEF Lists, Alike
  <2> QED BY <2>7, <2>9, <2>10, <2>11, <2>12, <2>13 DEF Good, Has, Alike
<1>5. CASE ~w.me.dir
  <2>1. PICK backup \in BOOLEAN : ~backup
    OBVIOUS
  <2>2. v = CreateFile(w, "L", w.me.name, write, backup)
    <3>1. v = CreateFile(w, "L", w.me.name, ~w.me.read, FALSE)
      BY <1>5 DEF Reacquired
    <3>2. backup = FALSE
      BY <2>1
    <3> QED BY <1>2, <3>1, <3>2
  <2>3. Opens(w, v, "L", "D", FALSE)
    BY <1>1, <1>3, <2>2, CreateFileIs
  <2>4. HasL(v.handle, v.of, v.me) /\ HasD(v.handle, v.of, v.me)
    <3>1. HasD(w.handle, w.of, w.me)
      BY <1>3, <1>5 DEF HasD
    <3> QED BY <1>5, <2>3, <3>1, OpensL
  <2>5. /\ Sound(v) /\ v.host = w.host /\ v.of = w.of /\ v.status = w.status
        /\ Alike(w.me, v.me) /\ Apart(w.handle, v.handle, w.of)
    BY <2>3 DEF Opens
  <2>6. Lists(v.handle, v.me)
    BY <1>5, <2>5 DEF Lists, Alike
  <2> QED BY <2>4, <2>5, <2>6 DEF Good, Has, Alike
<1> QED BY <1>4, <1>5

LEMMA TouchesSelf == ASSUME NEW h, NEW p PROVE Touches(h, h, p)
BY DEF Touches

LEMMA StageTransitive ==
  ASSUME NEW u, NEW v, NEW w, Stage(u, v), Stage(v, w)
  PROVE  Stage(u, w)
<1>1. Apart(u.handle, w.handle, u.of)
  BY ApartTransitive DEF Stage
<1>2. Touches(u.host, w.host, u.me.name)
  BY DEF Stage, Touches
<1> QED BY <1>1, <1>2 DEF Stage

LEMMA StageSelf == ASSUME NEW w, Good(w) PROVE Stage(w, w)
BY ApartSelf, TouchesSelf DEF Stage

LEMMA EndedStage ==
  ASSUME NEW w, Good(w), NEW s, NEW v, v = Ended(w, s)
  PROVE  Stage(w, v) /\ v.host = w.host /\ v.handle = w.handle /\ v.me = w.me /\ v.status = s
<1>1. Sound(w)
  BY DEF Good
<1>2. /\ Good(v) /\ v.host = w.host /\ v.handle = w.handle /\ v.of = w.of
      /\ v.me = w.me /\ v.status = s
  BY <1>1, EndedKeeps
<1>3. Apart(w.handle, v.handle, w.of) /\ Touches(w.host, v.host, w.me.name)
  BY <1>2, ApartSelf, TouchesSelf
<1> QED BY <1>2, <1>3 DEF Stage

(* The file of the object changes.                                         *)
LEMMA HostStage ==
  ASSUME NEW w, Good(w), w.me.name \in DOMAIN w.host,
         NEW e \in Entry, e.dir = w.host[w.me.name].dir, NEW v, IsWorld(v),
         v.host = [w.host EXCEPT ![w.me.name] = e],
         v.handle = w.handle, v.of = w.of, v.me = w.me
  PROVE  Stage(w, v)
<1> DEFINE p == w.me.name
           h == w.host
           g == v.host
<1>1. FileTree(h) /\ HandlesFit(h, w.handle) /\ p \in Seq(Name)
  BY DEF Good, Sound, IsWorld, Objects
<1>2. g = [h EXCEPT ![p] = e] /\ p \in DOMAIN h /\ e.dir = h[p].dir
  OBVIOUS
<1> HIDE DEF p, h, g
<1>3. /\ FileTree(g) /\ DOMAIN g = DOMAIN h
      /\ \A q \in DOMAIN h : g[q].dir = h[q].dir /\ (q # p => g[q] = h[q])
  BY <1>1, <1>2, TreeSet
<1>4. HandlesFit(g, w.handle)
  BY <1>1, <1>3 DEF HandlesFit
<1>5. Touches(h, g, p)
  BY <1>1, <1>3, PrefixSelf DEF Touches
<1>6. Good(v)
  BY <1>3, <1>4 DEF Good, Sound, g
<1>7. Apart(w.handle, v.handle, w.of)
  BY ApartSelf
<1> QED BY <1>3, <1>5, <1>6, <1>7 DEF Stage, p, h, g

(* The handle is on the file of the object.                                *)
LEMMA HandleIsOn ==
  ASSUME NEW w, Good(w), w.me.L # Invalid
  PROVE  /\ w.me.L = HandleOf(w.of, "L") /\ w.me.L \in DOMAIN w.handle
         /\ w.handle[w.me.L] \in HandleRec /\ w.handle[w.me.L].path = w.me.name
         /\ w.me.name \in DOMAIN w.host /\ w.host[w.me.name] \in Entry
         /\ w.me.dir => w.host[w.me.name].dir
BY DEF Good, Sound, Has, HasL, HandlesFit, FileTree

LEMMA MoveToIs ==
  ASSUME NEW w, Good(w), w.me.L # Invalid, NEW pos \in Nat, NEW v, v = MoveTo(w, pos)
  PROVE  /\ Sound(v) /\ v.host = w.host /\ v.of = w.of /\ v.me = w.me /\ v.status = w.status
         /\ Apart(w.handle, v.handle, w.of) /\ HasL(v.handle, v.of, v.me)
         /\ HasD(v.handle, v.of, v.me) /\ v.handle[v.me.L].pos = pos
<1> DEFINE i == w.me.L
           g == [w.handle EXCEPT ![i].pos = pos]
<1>1. /\ IsWorld(w) /\ FileTree(w.host) /\ HandlesFit(w.host, w.handle) /\ w.of \in Object
      /\ i = HandleOf(w.of, "L") /\ i \in DOMAIN w.handle
      /\ HasL(w.handle, w.of, w.me) /\ HasD(w.handle, w.of, w.me)
  BY HandleIsOn DEF Good, Sound, IsWorld, Has
<1>2. v = [w EXCEPT !.handle = g]
  BY <1>1 DEF MoveTo, IsWorld
<1>3. g = [w.handle EXCEPT ![i].pos = pos]
  OBVIOUS
<1>4. i = w.me.L
  OBVIOUS
<1> HIDE DEF g, i
<1>5. /\ HandlesFit(w.host, g) /\ DOMAIN g = DOMAIN w.handle
      /\ \A j \in DOMAIN w.handle : j # i => g[j] = w.handle[j]
      /\ g[i].path = w.handle[i].path /\ g[i].find = w.handle[i].find /\ g[i].pos = pos
  BY <1>1, <1>3, HandlesMove
<1>6. /\ IsWorld(v) /\ v.host = w.host /\ v.handle = g /\ v.of = w.of /\ v.me = w.me
      /\ v.status = w.status
  BY <1>1, <1>2 DEF IsWorld
<1>7. Apart(w.handle, g, w.of)
  <2> SUFFICES ASSUME NEW q \in Object \ {w.of}, NEW x \in Field
               PROVE  /\ HandleOf(q, x) \in DOMAIN g <=> HandleOf(q, x) \in DOMAIN w.handle
                      /\ HandleOf(q, x) \in DOMAIN g => g[HandleOf(q, x)] = w.handle[HandleOf(q, x)]
    BY DEF Apart
  <2>1. HandleOf(q, x) # i
    BY <1>1, IdsApart DEF Field
  <2> QED BY <1>5, <2>1
<1>8. HasL(g, w.of, w.me)
  BY <1>1, <1>4, <1>5 DEF HasL
<1>9. HasD(g, w.of, w.me)
  <2>1. HandleOf(w.of, "D") # i
    BY <1>1, IdsApart DEF Field
  <2> QED BY <1>1, <1>5, <2>1 DEF HasD
<1> QED BY <1>1, <1>4, <1>5, <1>6, <1>7, <1>8, <1>9 DEF Sound

LEMMA MoveToStage ==
  ASSUME NEW w, Good(w), w.me.L # Invalid, ~w.me.dir, NEW pos \in Nat, NEW v, v = MoveTo(w, pos)
  PROVE  Stage(w, v) /\ v.host = w.host /\ v.me = w.me /\ v.status = w.status
<1>1. /\ Sound(v) /\ v.host = w.host /\ v.of = w.of /\ v.me = w.me /\ v.status = w.status
      /\ Apart(w.handle, v.handle, w.of) /\ HasL(v.handle, v.of, v.me)
      /\ HasD(v.handle, v.of, v.me)
  BY MoveToIs
<1>2. Lists(v.handle, v.me)
  BY <1>1 DEF Good, Has, Lists
<1>3. Touches(w.host, v.host, w.me.name)
  BY <1>1, TouchesSelf
<1> QED BY <1>1, <1>2, <1>3 DEF Stage, Good, Has

LEMMA SetFilePointerStage ==
  ASSUME NEW w, Good(w), ~w.me.dir, NEW pos \in Nat, NEW v, v = SetFilePointer(w, pos)
  PROVE  Stage(w, v) /\ v.host = w.host /\ v.me = w.me
<1>1. CASE w.me.L = Invalid
  BY <1>1, EndedStage DEF SetFilePointer
<1>2. CASE w.me.L # Invalid
  <2> DEFINE m == MoveTo(w, pos)
  <2>1. v \in {m, Ended(m, "DEVICE_ERROR")}
    BY <1>2 DEF SetFilePointer
  <2>2. m = MoveTo(w, pos)
    OBVIOUS
  <2> HIDE DEF m
  <2>3. Stage(w, m) /\ m.host = w.host /\ m.me = w.me
    BY <1>2, <2>2, MoveToStage
  <2>4. ASSUME v = Ended(m, "DEVICE_ERROR") PROVE Stage(w, v) /\ v.host = w.host /\ v.me = w.me
    <3>1. Stage(m, v) /\ v.host = m.host /\ v.me = m.me
      BY <2>3, <2>4, EndedStage DEF Stage
    <3> QED BY <2>3, <3>1, StageTransitive
  <2> QED BY <2>1, <2>3, <2>4
<1> QED BY <1>1, <1>2

LEMMA GetPositionStage ==
  ASSUME NEW w, Good(w), NEW v, v = GetPosition(w)
  PROVE  Stage(w, v) /\ v.host = w.host /\ v.me = w.me /\ (v.status = "GO" => w.me.L # Invalid)
<1>1. CASE w.me.L = Invalid \/ Hidden(Pos(w))
  <2>1. v = Ended(w, "DEVICE_ERROR")
    BY <1>1 DEF GetPosition
  <2> QED BY <2>1, EndedStage
<1>2. CASE ~(w.me.L = Invalid \/ Hidden(Pos(w)))
  BY <1>2, StageSelf DEF GetPosition
<1> QED BY <1>1, <1>2

LEMMA TwoNumbers ==
  ASSUME NEW a \in Nat, NEW b \in Nat
  PROVE  Min({a, b}) \in {a, b} /\ Max({a, b}) \in {a, b}
<1>1. \E x \in {a, b} : \A y \in {a, b} : x =< y
  OBVIOUS
<1>2. \E x \in {a, b} : \A y \in {a, b} : x >= y
  OBVIOUS
<1> QED BY <1>1, <1>2 DEF Min, Max

LEMMA ReadFileStage ==
  ASSUME NEW w, Good(w), ~w.me.dir, NEW n \in Nat, NEW v, v = ReadFile(w, n)
  PROVE  Stage(w, v)
<1> DEFINE got == GetPosition(w)
<1>1. got = GetPosition(w)
  OBVIOUS
<1>2. CASE got.status # "GO"
  <2>1. v = got
    BY <1>2 DEF ReadFile
  <2> HIDE DEF got
  <2> QED BY <1>1, <2>1, GetPositionStage
<1>3. CASE got.status = "GO"
  <2> DEFINE to == Min({Pos(w) + n, Size(w)})
             m == MoveTo(w, to)
  <2>1. v \in {Ended(w, "DEVICE_ERROR"), Ended(w, "SUCCESS"), Ended(m, "SUCCESS")}
    BY <1>3 DEF ReadFile
  <2> HIDE DEF got
  <2>2. w.me.L # Invalid
    BY <1>1, <1>3, GetPositionStage
  <2>3. Pos(w) \in Nat /\ Size(w) \in Nat
    <3>1. /\ w.handle[w.me.L] \in HandleRec /\ w.handle[w.me.L].path = w.me.name
          /\ w.host[w.me.name] \in Entry
      BY <2>2, HandleIsOn
    <3> QED BY <3>1, BoundAssumption DEF Pos, Size, HandleRec, Entry
  <2>4. to \in Nat
    <3>1. Pos(w) + n \in Nat
      BY <2>3
    <3> QED BY <2>3, <3>1, TwoNumbers
  <2>5. m = MoveTo(w, to)
    OBVIOUS
  <2> HIDE DEF m, to
  <2>6. Stage(w, m)
    BY <2>2, <2>4, <2>5, MoveToStage
  <2>7. v = Ended(m, "SUCCESS") => Stage(m, v)
    BY <2>6, EndedStage DEF Stage
  <2>8. v = Ended(w, "DEVICE_ERROR") \/ v = Ended(w, "SUCCESS") => Stage(w, v)
    BY EndedStage
  <2> QED BY <2>1, <2>6, <2>7, <2>8, StageTransitive
<1> QED BY <1>2, <1>3

LEMMA Least == ASSUME NEW S, S \subseteq Nat, S # {} PROVE Min(S) \in S /\ \A n \in S : Min(S) <= n
<1> DEFINE R == OpToRel(<, Nat)
<1>1. IsWellFoundedOn(R, Nat)
  BY NatLessThanWellFounded
<1>2. \A m, n \in Nat : m < n => <<m, n>> \in R
  BY DEF OpToRel
<1> HIDE DEF R
<1>3. PICK m \in S : \A n \in S : ~(<<n, m>> \in R)
  BY <1>1, WFMin
<1>4. \A n \in S : ~(n < m)
  <2>1. m \in Nat /\ \A n \in S : n \in Nat
    OBVIOUS
  <2> QED BY <1>2, <1>3, <2>1
<1>5. \A n \in S : m <= n
  BY <1>4
<1> QED BY <1>5 DEF Min

LEMMA ReadEntryStage ==
  ASSUME NEW w, Good(w), w.me.dir, w.me.L # Invalid, Owes(w.host, w.me), NEW v, v = ReadEntry(w)
  PROVE  Stage(w, v)
<1> DEFINE next == FindNext(w)
           less == w.me.owed \ {w.me.buf}
           given == [w EXCEPT !.me.owed = less, !.status = "SUCCESS"]
           x == Min(next)
           to == MoveTo(given, x)
<1>1. /\ IsWorld(w) /\ w.me \in Objects /\ Sound(w) /\ w.of \in Object
      /\ HasL(w.handle, w.of, w.me) /\ HasD(w.handle, w.of, w.me) /\ Lists(w.handle, w.me)
  BY DEF Good, Has, Sound, IsWorld
<1>2. w.handle[w.me.L] \in HandleRec /\ w.handle[w.me.L].path = w.me.name
  BY HandleIsOn
<1>3. CASE ~w.me.valid
  <2>1. v = Ended(w, "SUCCESS")
    BY <1>3 DEF ReadEntry
  <2> QED BY <2>1, EndedStage
<1>4. CASE w.me.valid
  <2> DEFINE f == [w.me EXCEPT !.owed = less]
  <2>1. less \in SUBSET Name
    BY <1>1 DEF Objects
  <2>2. next \subseteq Name /\ Name \subseteq Nat
    BY NameAssumption DEF FindNext, Children
  <2>3. \A n \in Children(w.host, w.me.name) : n > w.handle[w.me.L].pos => n \in next
    BY <1>2 DEF FindNext, Pos
  <2>4. w.me.pass => /\ w.me.buf = w.handle[w.me.L].pos /\ \A n \in w.me.owed : n >= w.me.buf
                     /\ \A n \in less : n \in next
    <3> SUFFICES ASSUME w.me.pass
                 PROVE  /\ w.me.buf = w.handle[w.me.L].pos /\ \A n \in w.me.owed : n >= w.me.buf
                        /\ \A n \in less : n \in next
      OBVIOUS
    <3>1. w.me.buf = w.handle[w.me.L].pos /\ \A n \in w.me.owed : n >= w.me.buf
      BY <1>1, <1>4 DEF Lists
    <3>2. w.me.owed \subseteq Children(w.host, w.me.name) /\ w.me.buf \in Nat /\ w.me.owed \subseteq Name
      BY <1>1 DEF Owes, Objects
    <3>3. \A n \in less : n > w.handle[w.me.L].pos
      <4> TAKE n \in less
      <4>1. n \in Nat /\ w.me.buf \in Nat /\ n >= w.me.buf /\ n # w.me.buf
        BY <2>2, <3>1, <3>2
      <4>2. n > w.me.buf
        BY <4>1
      <4> QED BY <3>1, <4>2
    <3> QED BY <2>3, <3>1, <3>2, <3>3
  <2> HIDE DEF less, next
  <2>5. /\ f \in Objects /\ f.L = w.me.L /\ f.D = w.me.D /\ f.name = w.me.name /\ f.dir = w.me.dir
        /\ f.valid = w.me.valid /\ f.buf = w.me.buf /\ f.pass = w.me.pass /\ f.owed = less
    BY <1>1, <2>1 DEF Objects
  <2>6. /\ given.host = w.host /\ given.handle = w.handle /\ given.of = w.of /\ given.me = f
        /\ given.status = "SUCCESS"
        /\ given \in [host : {given.host}, handle : {given.handle}, of : {given.of},
                     me : {given.me}, status : {given.status}]
    BY <1>1 DEF IsWorld, Objects
  <2> HIDE DEF f, given
  <2>7. \A n \in less : n \in w.me.owed
    BY DEF less
  <2>8. Sound(given) /\ HasL(given.handle, given.of, given.me) /\ HasD(given.handle, given.of, given.me)
    BY <1>1, <2>5, <2>6 DEF Sound, IsWorld, HasL, HasD
  <2>9. Good(given)
    <3>1. Lists(given.handle, given.me)
      BY <1>1, <2>4, <2>5, <2>6, <2>7 DEF Lists
    <3> QED BY <2>8, <3>1 DEF Good, Has
  <2>10. CASE next = {}
    <3> DEFINE e == [f EXCEPT !.valid = FALSE, !.buf = Here]
    <3>1. v = [given EXCEPT !.me.valid = FALSE, !.me.buf = Here]
      BY <1>4, <2>10 DEF ReadEntry, given, next, less
    <3>2. /\ e \in Objects /\ e.L = f.L /\ e.D = f.D /\ e.name = f.name /\ e.dir = f.dir
          /\ ~e.valid /\ e.pass = f.pass /\ e.owed = f.owed
      BY <2>5 DEF Objects, Here
    <3>3. /\ v.host = given.host /\ v.handle = given.handle /\ v.of = given.of /\ v.me = e
          /\ v.status = given.status
          /\ v \in [host : {v.host}, handle : {v.handle}, of : {v.of}, me : {v.me},
                   status : {v.status}]
      BY <2>5, <2>6, <3>1 DEF Objects
    <3> HIDE DEF e
    <3>4. Sound(v) /\ HasL(v.handle, v.of, v.me) /\ HasD(v.handle, v.of, v.me)
      BY <2>6, <2>8, <3>2, <3>3 DEF Sound, IsWorld, HasL, HasD
    <3>5. Lists(v.handle, v.me)
      <4>1. w.me.pass => less = {}
        BY <2>4, <2>10
      <4> QED BY <2>5, <3>2, <3>3, <4>1 DEF Lists
    <3>6. Apart(w.handle, v.handle, w.of) /\ Touches(w.host, v.host, w.me.name)
      BY <2>6, <3>3, ApartSelf, TouchesSelf
    <3> QED BY <2>5, <2>6, <3>2, <3>3, <3>4, <3>5, <3>6 DEF Stage, Good, Has
  <2>11. CASE next # {}
    <3>1. x \in next /\ \A n \in next : x <= n
      <4>1. next \subseteq Nat
        BY <2>2
      <4> QED BY <2>11, <4>1, Least
    <3>2. v = [to EXCEPT !.me.buf = x]
      BY <1>4, <2>11 DEF ReadEntry, given, next, less
    <3>3. x \in Nat
      BY <2>2, <3>1
    <3>4. to = MoveTo(given, x)
      OBVIOUS
    <3> HIDE DEF x, to
    <3>5. given.me.L # Invalid
      BY <2>5, <2>6
    <3>6. /\ Sound(to) /\ to.host = given.host /\ to.of = given.of /\ to.me = given.me
          /\ to.status = given.status
          /\ Apart(given.handle, to.handle, given.of) /\ HasL(to.handle, to.of, to.me)
          /\ HasD(to.handle, to.of, to.me) /\ to.handle[to.me.L].pos = x
      BY <2>9, <3>3, <3>4, <3>5, MoveToIs
    <3>7. IsWorld(to) /\ to.me = f
      BY <2>6, <3>6 DEF Sound
    <3> DEFINE e == [f EXCEPT !.buf = x]
    <3>8. /\ e \in Objects /\ e.L = f.L /\ e.D = f.D /\ e.name = f.name /\ e.dir = f.dir
          /\ e.valid = f.valid /\ e.pass = f.pass /\ e.owed = f.owed /\ e.buf = x
      BY <2>5, <3>3 DEF Objects
    <3>9. /\ v.host = to.host /\ v.handle = to.handle /\ v.of = to.of /\ v.me = e
          /\ v.status = to.status
          /\ v \in [host : {v.host}, handle : {v.handle}, of : {v.of}, me : {v.me},
                   status : {v.status}]
      BY <2>5, <3>2, <3>7 DEF IsWorld, Objects
    <3> HIDE DEF e
    <3>10. Sound(v) /\ HasL(v.handle, v.of, v.me) /\ HasD(v.handle, v.of, v.me)
      BY <3>6, <3>7, <3>8, <3>9 DEF Sound, IsWorld, HasL, HasD
    <3>11. Lists(v.handle, v.me)
      <4>1. w.me.pass => \A n \in less : n >= x
        BY <2>2, <2>4, <3>1
      <4>2. v.me.valid /\ v.me.dir /\ v.me.L # Invalid /\ v.me.buf = x /\ v.me.owed = less
        BY <1>4, <2>5, <3>8, <3>9
      <4>3. v.handle[v.me.L].pos = x /\ (v.me.pass <=> w.me.pass)
        BY <2>5, <3>6, <3>7, <3>8, <3>9
      <4> QED BY <4>1, <4>2, <4>3 DEF Lists
    <3>12. Apart(w.handle, v.handle, w.of) /\ Touches(w.host, v.host, w.me.name)
      BY <2>6, <3>6, <3>9, TouchesSelf
    <3> QED BY <2>5, <2>6, <3>6, <3>8, <3>9, <3>10, <3>11, <3>12 DEF Stage, Good, Has
  <2> QED BY <2>10, <2>11
<1> QED BY <1>3, <1>4

LEMMA WriteFileStage ==
  ASSUME NEW w, Good(w), ~w.me.dir, w.me.L # Invalid, NEW n \in Nat, Pos(w) + n <= MaxSize,
         NEW v, v = WriteFile(w, n)
  PROVE  Stage(w, v)
<1> DEFINE i == w.me.L
           p == w.me.name
           end == w.handle[i].pos + n
           e == [w.host[p] EXCEPT !.size = Max({w.host[p].size, end})]
           m == MoveTo(w, end)
<1>1. /\ w.handle[i] \in HandleRec /\ w.handle[i].path = p /\ i \in DOMAIN w.handle
      /\ p \in DOMAIN w.host /\ w.host[p] \in Entry
  BY HandleIsOn
<1>2. end \in 0 .. MaxSize
  BY <1>1, BoundAssumption DEF HandleRec, Pos
<1>3. e \in Entry /\ e.dir = w.host[p].dir
  <2>1. w.host[p].size \in Nat /\ end \in Nat /\ w.host[p].size \in 0 .. MaxSize
    BY <1>1, <1>2, BoundAssumption DEF Entry
  <2>2. Max({w.host[p].size, end}) \in 0 .. MaxSize
    BY <1>2, <2>1, TwoNumbers
  <2> QED BY <1>1, <2>2 DEF Entry
<1>4. m = MoveTo(w, end) /\ end \in Nat
  BY <1>2
<1>5. /\ v.host = [w.host EXCEPT ![p] = e] /\ v.handle = [w.handle EXCEPT ![i].pos = end]
      /\ v.of = w.of /\ v.me = w.me /\ v.status = "SUCCESS"
      /\ v \in [host : {v.host}, handle : {v.handle}, of : {v.of}, me : {v.me},
               status : {v.status}]
  BY <1>1 DEF WriteFile, Good, Sound, IsWorld
<1>6. m.handle = [w.handle EXCEPT ![i].pos = end]
  BY <1>1 DEF MoveTo, Good, Sound, IsWorld
<1> HIDE DEF m, e, end
<1>7. Stage(w, m) /\ m.host = w.host /\ m.me = w.me
  BY <1>4, MoveToStage
<1>8. IsWorld(v)
  BY <1>5 DEF Good, Sound, IsWorld
<1>9. Good(m) /\ m.of = w.of
  BY <1>7 DEF Stage
<1>10. Stage(m, v)
  <2>1. /\ m.me.name \in DOMAIN m.host /\ e.dir = m.host[m.me.name].dir
        /\ v.host = [m.host EXCEPT ![m.me.name] = e]
        /\ v.handle = m.handle /\ v.of = m.of /\ v.me = m.me
    BY <1>1, <1>3, <1>5, <1>6, <1>7, <1>9
  <2> QED BY <1>3, <1>8, <1>9, <2>1, HostStage
<1> QED BY <1>7, <1>10, StageTransitive

LEMMA ResizedStage ==
  ASSUME NEW w, Good(w), NEW size \in 0 .. MaxSize, NEW ro, NEW v, v = Resized(w, size, ro)
  PROVE  Stage(w, v)
<1> DEFINE got == GetPosition(w)
           there == SetFilePointer(w, size)
           p == w.me.name
           e == [w.host[p] EXCEPT !.size = size]
<1>1. got = GetPosition(w) /\ there = SetFilePointer(w, size) /\ size \in Nat
  BY BoundAssumption
<1>2. \/ \E s \in {"UNSUPPORTED", "ACCESS_DENIED"} : v = Ended(w, s)
      \/ v = got
      \/ ~w.me.dir /\ (v = there \/ v = Ended(there, "DEVICE_ERROR"))
      \/ /\ got.status = "GO"
         /\ v = [w EXCEPT !.host[w.handle[w.me.L].path].size = size]
  BY DEF Resized
<1> HIDE DEF got, there, e
<1>3. ASSUME NEW s, v = Ended(w, s) PROVE Stage(w, v)
  BY <1>3, EndedStage
<1>4. CASE v = got
  BY <1>1, <1>4, GetPositionStage
<1>5. CASE ~w.me.dir /\ (v = there \/ v = Ended(there, "DEVICE_ERROR"))
  <2>1. Stage(w, there)
    BY <1>1, <1>5, SetFilePointerStage
  <2>2. v = Ended(there, "DEVICE_ERROR") => Stage(there, v)
    BY <2>1, EndedStage DEF Stage
  <2> QED BY <1>5, <2>1, <2>2, StageTransitive
<1>6. CASE got.status = "GO" /\ v = [w EXCEPT !.host[w.handle[w.me.L].path].size = size]
  <2>1. w.me.L # Invalid
    BY <1>1, <1>6, GetPositionStage
  <2>2. w.handle[w.me.L].path = p /\ p \in DOMAIN w.host /\ w.host[p] \in Entry
    BY <2>1, HandleIsOn
  <2>3. e \in Entry /\ e.dir = w.host[p].dir
    BY <2>2 DEF Entry, e
  <2>4. /\ v.host = [w.host EXCEPT ![p] = e] /\ v.handle = w.handle /\ v.of = w.of /\ v.me = w.me
        /\ v \in [host : {v.host}, handle : {v.handle}, of : {v.of}, me : {v.me},
                 status : {v.status}]
    BY <1>6, <2>2 DEF Good, Sound, IsWorld, e
  <2>5. IsWorld(v)
    BY <2>4 DEF Good, Sound, IsWorld
  <2> QED BY <2>2, <2>3, <2>4, <2>5, HostStage
<1> QED BY <1>2, <1>3, <1>4, <1>5, <1>6

LEMMA StampedStage ==
  ASSUME NEW w, Good(w), NEW stamp \in {"none", "some", "all"}, NEW v, v = Stamped(w, stamp)
  PROVE  Stage(w, v) /\ v.host = w.host /\ v.me = w.me
<1>1. v = w \/ v = Ended(w, "SUCCESS") \/ v = Ended(w, "DEVICE_ERROR")
  <2>1. CASE stamp = "none"
    BY <2>1 DEF Stamped
  <2>2. CASE stamp = "some"
    BY <2>2 DEF Stamped
  <2>3. CASE stamp = "all"
    BY <2>3 DEF Stamped
  <2> QED BY <2>1, <2>2, <2>3
<1> QED BY <1>1, EndedStage, StageSelf

LEMMA AttributedStage ==
  ASSUME NEW w, Good(w), NEW old, NEW new, new = w.me.name,
         new \in DOMAIN w.host \/ old \notin DOMAIN w.host, NEW ro \in BOOLEAN,
         NEW v, v = Attributed(w, old, new, ro)
  PROVE  Stage(w, v)
<1>1. CASE new \in DOMAIN w.host
  <2> DEFINE e == [w.host[new] EXCEPT !.ro = ro]
  <2>1. v = [w EXCEPT !.host[new].ro = ro, !.status = "SUCCESS"]
    BY <1>1 DEF Attributed
  <2>2. w.host[new] \in Entry
    BY <1>1 DEF Good, Sound, FileTree
  <2>3. e \in Entry /\ e.dir = w.host[new].dir
    BY <2>2 DEF Entry
  <2>4. /\ v.host = [w.host EXCEPT ![new] = e] /\ v.handle = w.handle /\ v.of = w.of /\ v.me = w.me
        /\ v \in [host : {v.host}, handle : {v.handle}, of : {v.of}, me : {v.me},
                 status : {v.status}]
    BY <2>1 DEF Good, Sound, IsWorld
  <2>5. IsWorld(v)
    BY <2>4 DEF Good, Sound, IsWorld
  <2> HIDE DEF e
  <2> QED BY <1>1, <2>3, <2>4, <2>5, HostStage
<1>2. CASE new \notin DOMAIN w.host
  <2>1. v = Ended(w, "DEVICE_ERROR")
    BY <1>2 DEF Attributed, Reopen
  <2> QED BY <2>1, EndedStage
<1> QED BY <1>1, <1>2

LEMMA ShutForMoveIs ==
  ASSUME NEW w, Good(w), NEW v, v = ShutForMove(w)
  PROVE  /\ Sound(v) /\ v.host = w.host /\ v.of = w.of /\ v.status = w.status
         /\ Alike(w.me, v.me) /\ Apart(w.handle, v.handle, w.of) /\ HasNone(v.handle, w.of)
         /\ IF w.me.dir THEN v.me.D = Invalid /\ v.me.L = w.me.L ELSE v.me.L = Invalid
<1> DEFINE s == Shut(w)
           f == IF w.me.dir THEN [w.me EXCEPT !.D = Invalid] ELSE [w.me EXCEPT !.L = Invalid]
<1>1. /\ Sound(s) /\ s.host = w.host /\ s.of = w.of /\ s.me = w.me /\ s.status = w.status
      /\ Apart(w.handle, s.handle, w.of) /\ HasNone(s.handle, w.of)
  BY ShutIs DEF Good, Has
<1>2. v = IF w.me.dir THEN [s EXCEPT !.me.D = Invalid] ELSE [s EXCEPT !.me.L = Invalid]
  BY DEF ShutForMove
<1> HIDE DEF s
<1>3. IsWorld(s) /\ w.me \in Objects
  BY <1>1 DEF Sound, IsWorld
<1>4. /\ f \in Objects /\ Alike(w.me, f)
      /\ IF w.me.dir THEN f.D = Invalid /\ f.L = w.me.L ELSE f.L = Invalid
  <2>1. CASE w.me.dir
    BY <1>3, <2>1 DEF Objects, Alike
  <2>2. CASE ~w.me.dir
    BY <1>3, <2>2 DEF Objects, Alike
  <2> QED BY <2>1, <2>2
<1>5. /\ v.host = s.host /\ v.handle = s.handle /\ v.of = s.of /\ v.me = f /\ v.status = s.status
      /\ v \in [host : {v.host}, handle : {v.handle}, of : {v.of}, me : {v.me},
               status : {v.status}]
  <2>1. CASE w.me.dir
    BY <1>1, <1>2, <1>3, <2>1 DEF IsWorld
  <2>2. CASE ~w.me.dir
    BY <1>1, <1>2, <1>3, <2>2 DEF IsWorld
  <2> QED BY <2>1, <2>2
<1> HIDE DEF f
<1>6. Sound(v)
  BY <1>1, <1>3, <1>4, <1>5 DEF Sound, IsWorld
<1> QED BY <1>1, <1>4, <1>5, <1>6

(* What had a listing is a directory that is there.                        *)
LEMMA ListedIsThere ==
  ASSUME NEW w, Good(w)
  PROVE  /\ w.me.valid => IsDirectory(w.host, w.me.name)
         /\ w.me.valid \/ w.me.pass => w.me.dir
<1>1. w.me.valid => w.me.L # Invalid /\ w.me.dir
  BY DEF Good, Has, Lists
<1>2. w.me.L # Invalid => w.me.name \in DOMAIN w.host /\ (w.me.dir => w.host[w.me.name].dir)
  BY HandleIsOn
<1> QED BY <1>1, <1>2 DEF Good, Has, Lists, IsDirectory

LEMMA ReopenIs ==
  ASSUME NEW w, Good(w), NEW s, s = ShutForMove(w), NEW status, status # "GO",
         NEW new, NEW v, v = Reopen(s, w.me.name, status)
  PROVE  Names(w, v, new)
<1>1. /\ Sound(s) /\ s.host = w.host /\ s.of = w.of
      /\ Alike(w.me, s.me) /\ Apart(w.handle, s.handle, w.of) /\ HasNone(s.handle, s.of)
      /\ IF w.me.dir THEN s.me.D = Invalid /\ s.me.L = w.me.L ELSE s.me.L = Invalid
  BY ShutForMoveIs
<1>2. /\ w.me.valid => IsDirectory(w.host, w.me.name)
      /\ w.me.valid \/ w.me.pass => w.me.dir
  BY ListedIsThere
<1>3. s.me.name = w.me.name
  BY <1>1 DEF Alike
<1> DEFINE u == IF w.me.name \in DOMAIN s.host THEN Reacquired(s, s.me.name) ELSE s
<1>4. v = Ended(u, status)
  BY <1>3 DEF Reopen
<1>5. Good(u) /\ u.host = w.host /\ u.of = w.of /\ Apart(w.handle, u.handle, w.of)
  <2>1. CASE w.me.name \in DOMAIN s.host
    <3>1. u = Reacquired(s, s.me.name)
      BY <2>1
    <3>2. /\ s.me.valid \/ s.me.pass => s.me.dir
          /\ s.me.valid => IsDirectory(s.host, s.me.name)
      BY <1>1, <1>2 DEF Alike
    <3> HIDE DEF u
    <3>3. Good(u) /\ u.host = s.host /\ u.of = s.of /\ Apart(s.handle, u.handle, s.of)
      BY <1>1, <3>1, <3>2, ReacquiredIs
    <3> QED BY <1>1, <3>3, ApartTransitive
  <2>2. CASE w.me.name \notin DOMAIN s.host
    <3>1. u = s
      BY <2>2
    <3>2. w.me.L = Invalid
      BY <1>1, <2>2, HandleIsOn
    <3>3. HasL(s.handle, s.of, s.me) /\ HasD(s.handle, s.of, s.me)
      BY <1>1, <3>2 DEF HasNone, HasL, HasD, Alike
    <3>4. Lists(s.handle, s.me)
      <4>1. ~w.me.valid
        BY <3>2 DEF Good, Has, Lists
      <4> QED BY <1>1, <4>1 DEF Good, Has, Lists, Alike
    <3> QED BY <1>1, <3>1, <3>3, <3>4 DEF Good, Has
  <2> QED BY <2>1, <2>2
<1> HIDE DEF u
<1>6. /\ Good(v) /\ v.host = u.host /\ v.of = u.of /\ v.handle = u.handle /\ v.status = status
  <2>1. Sound(u)
    BY <1>5 DEF Good
  <2> QED BY <1>4, <1>5, <2>1, EndedKeeps
<1>7. Touches(w.host, v.host, w.me.name)
  BY <1>5, <1>6, TouchesSelf
<1> QED BY <1>5, <1>6, <1>7 DEF Names

LEMMA CarriedIs ==
  ASSUME NEW w, Good(w), NEW s, s = ShutForMove(w), NEW new \in Seq(Name),
         CanMove(s, w.me.name, new), NEW v, v = Reacquired(Carried(s, new), new)
  PROVE  /\ Names(w, v, new) /\ v.status = w.status
         /\ v.me.name = new /\ new \in DOMAIN v.host
<1> DEFINE old == w.me.name
           M == Moved(w.host, old, new)
           c == Carried(s, new)
           f == [s.me EXCEPT !.name = new]
<1>1. /\ Sound(s) /\ s.host = w.host /\ s.of = w.of /\ s.status = w.status
      /\ Alike(w.me, s.me) /\ Apart(w.handle, s.handle, w.of) /\ HasNone(s.handle, w.of)
  BY ShutForMoveIs
<1>2. /\ w.me.valid => IsDirectory(w.host, old)
      /\ w.me.valid \/ w.me.pass => w.me.dir
  BY ListedIsThere
<1>3. /\ IsWorld(s) /\ s.me \in Objects /\ s.of \in Object /\ HandlesFit(w.host, s.handle)
      /\ FileTree(w.host) /\ s.me.name = old
  BY <1>1 DEF Sound, IsWorld, Alike
<1>4. /\ Movable(w.host, old, new) /\ Unused(s, old)
      /\ new = old \/ new \notin DOMAIN w.host
  BY <1>1 DEF CanMove, Movable
<1>5. /\ FileTree(M)
      /\ \A p \in DOMAIN w.host : ~IsPrefix(old, p) => p \in DOMAIN M /\ M[p] = w.host[p]
      /\ new \in DOMAIN M /\ M[new] = w.host[old]
  <2>1. M = Moved(w.host, old, new)
    OBVIOUS
  <2> HIDE DEF M
  <2>2. FileTree(M)
    BY <1>3, <1>4, <2>1, MovedInTree
  <2> QED BY <1>3, <1>4, <2>1, <2>2, MovedKeeps
<1>6. /\ f \in Objects /\ f.name = new /\ f.valid = s.me.valid /\ f.pass = s.me.pass /\ f.dir = s.me.dir
  BY <1>3 DEF Objects
<1>7. c = [s EXCEPT !.host = M, !.me.name = new]
  BY <1>1, <1>3 DEF Carried
<1> HIDE DEF c
<1>8. /\ c.host = M /\ c.handle = s.handle /\ c.of = s.of /\ c.me = f /\ c.status = s.status
      /\ c \in [host : {c.host}, handle : {c.handle}, of : {c.of}, me : {c.me},
               status : {c.status}]
  <2> HIDE DEF M
  <2> QED BY <1>3, <1>7 DEF IsWorld
<1> HIDE DEF M, f
<1>9. HandlesFit(M, s.handle)
  <2> SUFFICES ASSUME NEW i \in DOMAIN s.handle
               PROVE  /\ s.handle[i].path \in DOMAIN M
                      /\ M[s.handle[i].path] = w.host[s.handle[i].path]
    BY <1>3 DEF HandlesFit
  <2>1. s.handle[i].path \in DOMAIN w.host /\ ~IsPrefix(old, s.handle[i].path)
    BY <1>3, <1>4 DEF HandlesFit, Unused
  <2> QED BY <1>5, <2>1
<1>10. Sound(c)
  BY <1>3, <1>5, <1>6, <1>8, <1>9 DEF Sound, IsWorld
<1>11. HasNone(c.handle, c.of) /\ c.me.name = new
  BY <1>1, <1>6, <1>8
<1>12. /\ c.me.valid \/ c.me.pass => c.me.dir
       /\ c.me.valid => IsDirectory(c.host, c.me.name)
  BY <1>1, <1>2, <1>5, <1>6, <1>8 DEF Alike, IsDirectory
<1>13. v = Reacquired(c, c.me.name)
  BY <1>11 DEF c
<1>14. /\ Good(v) /\ v.host = M /\ v.of = w.of /\ v.status = w.status /\ v.me.name = new
       /\ Apart(c.handle, v.handle, c.of)
  <2>1. /\ Good(v) /\ v.host = c.host /\ v.of = c.of /\ v.status = c.status
        /\ v.me.name = c.me.name /\ Apart(c.handle, v.handle, c.of)
    BY <1>10, <1>11, <1>12, <1>13, ReacquiredIs
  <2> QED BY <1>1, <1>8, <1>11, <2>1
<1>15. Apart(w.handle, v.handle, w.of)
  BY <1>1, <1>8, <1>14, ApartTransitive
<1>16. Touches(w.host, v.host, old)
  BY <1>5, <1>14 DEF Touches
<1> QED BY <1>4, <1>5, <1>14, <1>15, <1>16 DEF Names

LEMMA RenamedIs ==
  ASSUME NEW w, Good(w), NEW new \in Seq(Name), NEW v, v = Renamed(w, new)
  PROVE  Names(w, v, new)
<1> DEFINE s == ShutForMove(w)
           back == Reacquired(Carried(s, new), new)
<1>1. s = ShutForMove(w) /\ back = Reacquired(Carried(s, new), new)
  OBVIOUS
<1>2. \/ v = Ended(w, "ACCESS_DENIED")
      \/ v = Reopen(s, w.me.name, "ACCESS_DENIED")
      \/ CanMove(s, w.me.name, new) /\ (v = back \/ v = Ended(back, "DEVICE_ERROR"))
  BY DEF Renamed
<1> HIDE DEF s, back
<1>3. CASE v = Ended(w, "ACCESS_DENIED")
  <2>1. Stage(w, v) /\ v.status = "ACCESS_DENIED"
    BY <1>3, EndedStage
  <2> QED BY <2>1 DEF Stage, Names
<1>4. CASE v = Reopen(s, w.me.name, "ACCESS_DENIED")
  BY <1>1, <1>4, ReopenIs
<1>5. CASE CanMove(s, w.me.name, new) /\ (v = back \/ v = Ended(back, "DEVICE_ERROR"))
  <2>1. Names(w, back, new)
    BY <1>1, <1>5, CarriedIs
  <2>2. ASSUME v = Ended(back, "DEVICE_ERROR") PROVE Names(w, v, new)
    <3>1. /\ Good(v) /\ v.host = back.host /\ v.handle = back.handle /\ v.of = back.of
          /\ v.status = "DEVICE_ERROR"
      BY <2>1, <2>2, EndedKeeps DEF Names, Good
    <3> QED BY <2>1, <3>1 DEF Names
  <2> QED BY <1>5, <2>1, <2>2
<1> QED BY <1>2, <1>3, <1>4, <1>5

----------------------------------------------------------------------------
(* Opening.                                                                *)

LEMMA WorldIs ==
  ASSUME FsInv, NEW o \in Object, NEW f \in Objects, NEW w, w = World(o, f)
  PROVE  /\ Sound(w) /\ w.host = host /\ w.handle = handle /\ w.of = o /\ w.me = f
         /\ w.status = "GO"
BY DEF FsInv, Sound, IsWorld, World

LEMMA MadeIs ==
  ASSUME NEW w, Sound(w), NEW dir \in BOOLEAN, NEW v, v = Made(w, w.me.name, dir)
  PROVE  /\ Sound(v) /\ v.handle = w.handle /\ v.of = w.of /\ v.me = w.me /\ v.status = w.status
         /\ Adds(w.host, v.host)
<1> DEFINE p == w.me.name
           e == [dir |-> dir, ro |-> FALSE, size |-> 0]
           g == Put(w.host, p, e)
<1>1. /\ IsWorld(w) /\ FileTree(w.host) /\ HandlesFit(w.host, w.handle) /\ p \in Seq(Name)
  BY DEF Sound, IsWorld, Objects
<1>2. CASE p \notin DOMAIN w.host /\ IsDirectory(w.host, DirectoryOf(p))
  <2>1. v = [w EXCEPT !.host = g]
    BY <1>2 DEF Made
  <2>2. e \in Entry
    BY BoundAssumption DEF Entry
  <2>3. g = Put(w.host, p, e)
    OBVIOUS
  <2> HIDE DEF g, e, p
  <2>4. /\ FileTree(g) /\ DOMAIN g = DOMAIN w.host \cup {p}
        /\ \A q \in DOMAIN w.host : g[q] = w.host[q]
    <3>1. FileTree(w.host) /\ p \in Seq(Name) /\ p \notin DOMAIN w.host
      BY <1>1, <1>2
    <3>2. IsDirectory(w.host, DirectoryOf(p))
      BY <1>2
    <3>3. FileTree(g)
      BY <2>2, <2>3, <3>1, <3>2, TreePut
    <3>4. DOMAIN g = DOMAIN w.host \cup {p} /\ \A q \in DOMAIN w.host : g[q] = w.host[q]
      BY <2>3, <3>1 DEF Put
    <3> QED BY <3>3, <3>4
  <2>5. /\ IsWorld(v) /\ v.host = g /\ v.handle = w.handle /\ v.of = w.of /\ v.me = w.me
        /\ v.status = w.status
    BY <1>1, <2>1 DEF IsWorld
  <2>6. HandlesFit(g, w.handle)
    BY <1>1, <2>4 DEF HandlesFit
  <2> QED BY <1>1, <2>4, <2>5, <2>6 DEF Sound, Adds
<1>3. CASE ~(p \notin DOMAIN w.host /\ IsDirectory(w.host, DirectoryOf(p)))
  <2>1. v = w
    BY <1>3 DEF Made
  <2> QED BY <2>1 DEF Adds
<1> QED BY <1>2, <1>3

LEMMA OpenDirectoryIs ==
  ASSUME NEW w, Sound(w), w.me.dir, HasNone(w.handle, w.of), NEW mode,
         NEW v, v = OpenDirectory(w, mode)
  PROVE  Opened(w, v)
<1> DEFINE m == IF mode = "create" THEN Made(w, w.me.name, TRUE) ELSE w
           d == CreateFile(m, "D", w.me.name, ~w.me.read, TRUE)
           r == Rewound(d)
<1>1. "L" \in Field /\ "D" \in Field /\ "L" # "D"
  BY DEF Field
<1>2. PICK write \in BOOLEAN, backup \in BOOLEAN : (write <=> ~w.me.read) /\ backup
  OBVIOUS
<1>3. /\ Sound(m) /\ m.handle = w.handle /\ m.of = w.of /\ m.me = w.me
      /\ Adds(w.host, m.host)
  <2>1. CASE mode = "create"
    <3>1. m = Made(w, w.me.name, backup)
      BY <1>2, <2>1
    <3> HIDE DEF m
    <3> QED BY <3>1, MadeIs
  <2>2. CASE mode # "create"
    BY <2>2 DEF Adds
  <2> QED BY <2>1, <2>2
<1>4. \/ \E s \in {"ACCESS_DENIED", "NOT_FOUND"} : v = Ended(m, s)
      \/ d.me.D # Invalid /\ v = Ended(r, "SUCCESS")
  BY <1>3 DEF OpenDirectory
<1> HIDE DEF m
<1>5. d = CreateFile(m, "D", m.me.name, write, backup)
  <2>1. write = ~w.me.read /\ backup = TRUE
    BY <1>2
  <2> QED BY <1>3, <2>1
<1>6. r = Rewound(d)
  OBVIOUS
<1> HIDE DEF d, r
<1>7. /\ HandleOf(m.of, "D") \notin DOMAIN m.handle
      /\ HandleOf(m.of, "L") \notin DOMAIN m.handle
  BY <1>3 DEF HasNone
<1>8. Opens(m, d, "D", "L", FALSE)
  BY <1>1, <1>3, <1>5, <1>7, CreateFileIs
<1>9. HasD(d.handle, d.of, d.me) /\ HandleOf(d.of, "L") \notin DOMAIN d.handle
  BY <1>3, <1>7, <1>8, OpensD
<1>10. /\ Sound(d) /\ d.host = m.host /\ d.of = w.of /\ d.me.name = w.me.name /\ d.me.dir
       /\ Apart(w.handle, d.handle, w.of)
  BY <1>3, <1>8 DEF Opens, Alike
<1>11. /\ Good(r) /\ r.host = d.host /\ r.of = d.of /\ r.me.name = d.me.name
       /\ Apart(d.handle, r.handle, d.of)
  BY <1>6, <1>9, <1>10, RewoundIs
<1>12. ASSUME NEW s \in {"ACCESS_DENIED", "NOT_FOUND"}, v = Ended(m, s) PROVE Opened(w, v)
  <2>1. /\ Sound(v) /\ v.host = m.host /\ v.handle = m.handle /\ v.of = m.of
        /\ v.me = m.me /\ v.status = s
    BY <1>3, <1>12, EndedKeeps
  <2> QED BY <1>3, <2>1, ApartSelf DEF Opened
<1>13. ASSUME d.me.D # Invalid, v = Ended(r, "SUCCESS") PROVE Opened(w, v)
  <2>1. /\ Sound(v) /\ v.host = r.host /\ v.handle = r.handle /\ v.of = r.of
        /\ v.me = r.me /\ v.status = "SUCCESS" /\ Good(v)
    <3>1. Sound(r)
      BY <1>11 DEF Good
    <3> QED BY <1>11, <1>13, <3>1, EndedKeeps
  <2>2. Apart(w.handle, r.handle, w.of)
    BY <1>10, <1>11, ApartTransitive
  <2>3. w.me.name \in DOMAIN d.host
    BY <1>9, <1>10, <1>13 DEF HasD, Sound, HandlesFit
  <2> QED BY <1>3, <1>10, <1>11, <2>1, <2>2, <2>3 DEF Opened
<1> QED BY <1>4, <1>12, <1>13

LEMMA OpenFileIs ==
  ASSUME NEW w, Sound(w), ~w.me.dir, ~w.me.valid, ~w.me.pass, HasNone(w.handle, w.of), NEW mode,
         NEW v, v = OpenFile(w, mode)
  PROVE  Opened(w, v)
<1> DEFINE m == IF mode = "create" THEN Made(w, w.me.name, FALSE) ELSE w
           d == CreateFile(m, "L", w.me.name, ~w.me.read, FALSE)
<1>1. "L" \in Field /\ "D" \in Field /\ "L" # "D"
  BY DEF Field
<1>2. PICK write \in BOOLEAN, no \in BOOLEAN : (write <=> ~w.me.read) /\ ~no
  OBVIOUS
<1>3. /\ Sound(m) /\ m.handle = w.handle /\ m.of = w.of /\ m.me = w.me
      /\ Adds(w.host, m.host)
  <2>1. CASE mode = "create"
    <3>1. m = Made(w, w.me.name, no)
      <4>1. no = FALSE
        BY <1>2
      <4> QED BY <2>1, <4>1
    <3> HIDE DEF m
    <3> QED BY <3>1, MadeIs
  <2>2. CASE mode # "create"
    BY <2>2 DEF Adds
  <2> QED BY <2>1, <2>2
<1>4. \/ \E s \in {"ACCESS_DENIED", "NOT_FOUND"} : v = Ended(m, s)
      \/ d.me.L # Invalid /\ v = Ended(d, "SUCCESS")
  BY <1>3 DEF OpenFile
<1> HIDE DEF m
<1>5. d = CreateFile(m, "L", m.me.name, write, no)
  <2>1. write = ~w.me.read /\ no = FALSE
    BY <1>2
  <2> QED BY <1>3, <2>1
<1> HIDE DEF d
<1>6. /\ HandleOf(m.of, "D") \notin DOMAIN m.handle
      /\ HandleOf(m.of, "L") \notin DOMAIN m.handle
  BY <1>3 DEF HasNone
<1>7. Opens(m, d, "L", "D", FALSE)
  BY <1>1, <1>3, <1>5, <1>6, CreateFileIs
<1>8. HasL(d.handle, d.of, d.me) /\ HasD(d.handle, d.of, d.me)
  <2>1. HasD(m.handle, m.of, m.me)
    BY <1>3, <1>6 DEF HasD
  <2> QED BY <1>3, <1>7, <2>1, OpensL
<1>9. /\ Sound(d) /\ d.host = m.host /\ d.of = w.of /\ Alike(w.me, d.me)
      /\ Apart(w.handle, d.handle, w.of)
  BY <1>3, <1>7 DEF Opens
<1>10. Good(d) /\ d.me.name = w.me.name
  <2>1. Lists(d.handle, d.me)
    BY <1>9 DEF Lists, Alike
  <2> QED BY <1>8, <1>9, <2>1 DEF Good, Has, Alike
<1>11. ASSUME NEW s \in {"ACCESS_DENIED", "NOT_FOUND"}, v = Ended(m, s) PROVE Opened(w, v)
  <2>1. /\ Sound(v) /\ v.host = m.host /\ v.handle = m.handle /\ v.of = m.of
        /\ v.me = m.me /\ v.status = s
    BY <1>3, <1>11, EndedKeeps
  <2> QED BY <1>3, <2>1, ApartSelf DEF Opened
<1>12. ASSUME d.me.L # Invalid, v = Ended(d, "SUCCESS") PROVE Opened(w, v)
  <2>1. /\ Sound(v) /\ v.host = d.host /\ v.handle = d.handle /\ v.of = d.of
        /\ v.me = d.me /\ v.status = "SUCCESS" /\ Good(v)
    BY <1>9, <1>10, <1>12, EndedKeeps
  <2>2. w.me.name \in DOMAIN d.host
    BY <1>10, <1>12, HandleIsOn
  <2> QED BY <1>3, <1>9, <1>10, <2>1, <2>2 DEF Opened
<1> QED BY <1>4, <1>11, <1>12

LEMMA WritableIs ==
  ASSUME NEW w, NEW u, Opened(w, u), NEW mode, NEW v, v = Writable(u, mode)
  PROVE  /\ Sound(v) /\ v.of = w.of /\ v.me = u.me /\ v.me.name = w.me.name
         /\ Apart(w.handle, v.handle, w.of) /\ v.status = u.status
         /\ IF v.status = "SUCCESS" THEN Good(v) /\ Touches(w.host, v.host, w.me.name)
                                    ELSE HasNone(v.handle, v.of) /\ Adds(w.host, v.host)
<1>1. CASE mode = "create" /\ u.status = "SUCCESS"
  <2> DEFINE p == u.me.name
             e == [u.host[p] EXCEPT !.ro = FALSE]
  <2>1. Good(u) /\ p \in DOMAIN u.host /\ u.host[p] \in Entry /\ IsWorld(u)
    BY <1>1 DEF Opened, Sound, FileTree
  <2>2. v = [u EXCEPT !.host[p].ro = FALSE]
    BY <1>1 DEF Writable
  <2>3. e \in Entry /\ e.dir = u.host[p].dir
    BY <2>1 DEF Entry
  <2>4. /\ v.host = [u.host EXCEPT ![p] = e] /\ v.handle = u.handle /\ v.of = u.of /\ v.me = u.me
        /\ v.status = u.status
        /\ v \in [host : {v.host}, handle : {v.handle}, of : {v.of}, me : {v.me},
                 status : {v.status}]
    BY <2>1, <2>2 DEF IsWorld
  <2>5. IsWorld(v)
    BY <2>1, <2>4 DEF IsWorld
  <2> HIDE DEF e
  <2>6. Stage(u, v)
    BY <2>1, <2>3, <2>4, <2>5, HostStage
  <2>7. Touches(w.host, v.host, w.me.name)
    BY <2>6 DEF Stage, Touches, Opened, Adds
  <2> QED BY <1>1, <2>4, <2>6, <2>7 DEF Stage, Good, Opened
<1>2. CASE ~(mode = "create" /\ u.status = "SUCCESS")
  <2>1. v = u
    BY <1>2 DEF Writable
  <2>2. Touches(w.host, v.host, w.me.name)
    BY <2>1 DEF Touches, Opened, Adds
  <2> QED BY <2>1, <2>2 DEF Opened
<1> QED BY <1>1, <1>2

----------------------------------------------------------------------------
(* The calls.                                                              *)

LEMMA HostAlone == ASSUME host' = host PROVE OwnFileStep
BY DEF OwnFileStep

LEMMA ObjectIs ==
  ASSUME FsInv, NEW o \in DOMAIN file, NEW w, w = World(o, file[o])
  PROVE  /\ Good(w) /\ w.host = host /\ w.handle = handle /\ w.of = o /\ w.me = file[o]
         /\ w.status = "GO" /\ Owes(w.host, w.me) /\ o \in Object /\ file[o] \in Objects
<1>1. o \in Object /\ file[o] \in Objects /\ Has(handle, o, file[o]) /\ Owes(host, file[o])
  BY DEF FsInv
<1>2. /\ Sound(w) /\ w.host = host /\ w.handle = handle /\ w.of = o /\ w.me = file[o]
      /\ w.status = "GO"
  BY <1>1, WorldIs
<1> QED BY <1>1, <1>2 DEF Good

LEMMA StageKeeps ==
  ASSUME FsInv, NEW o \in DOMAIN file, NEW w, w = World(o, file[o]), NEW v, Stage(w, v),
         Kept(o, v), reply'.of = o, reply'.call \notin {"Open", "OpenVolume"}
  PROVE  FsInv' /\ OwnFileStep
<1>1. /\ w.host = host /\ w.handle = handle /\ w.of = o /\ w.me = file[o] /\ o \in Object
  BY ObjectIs
<1>2. Good(v) /\ v.of = o /\ Apart(handle, v.handle, o) /\ Touches(host, v.host, file[o].name)
  BY <1>1 DEF Stage
<1>3. FsInv'
  BY <1>1, <1>2, KeptKeeps
<1>4. host' = v.host
  BY DEF Kept
<1> QED BY <1>2, <1>3, <1>4 DEF OwnFileStep, Touches

LEMMA BlankIs == Blank \in Objects /\ Blank.name = Root /\ Blank.dir /\ ~Blank.valid
<1>1. Root \in Seq(Name)
  BY EmptySeq DEF Root
<1> QED BY <1>1 DEF Blank, Objects, Here

LEMMA OpenVolumeKeeps ==
  ASSUME FsInv, NEW o \in Object, OpenVolume(o) PROVE FsInv' /\ OwnFileStep
<1> DEFINE w == World(o, Blank)
           d == CreateFile(w, "D", Root, FALSE, TRUE)
           r == Rewound(d)
<1>1. "L" \in Field /\ "D" \in Field /\ "L" # "D"
  BY DEF Field
<1>2. Kept(o, r) /\ o \notin DOMAIN file
  BY DEF OpenVolume
<1>3. w = World(o, Blank) /\ r = Rewound(d)
  OBVIOUS
<1>4. PICK write \in BOOLEAN, backup \in BOOLEAN : ~write /\ backup
  OBVIOUS
<1>5. d = CreateFile(w, "D", Root, write, backup)
  <2>1. write = FALSE /\ backup = TRUE
    BY <1>4
  <2> QED BY <2>1
<1> HIDE DEF w, d, r
<1>6. /\ Sound(w) /\ w.host = host /\ w.handle = handle /\ w.of = o /\ w.me = Blank
  BY <1>3, BlankIs, WorldIs
<1>7. d = CreateFile(w, "D", w.me.name, write, backup)
  BY <1>5, <1>6, BlankIs
<1>8. HandleOf(w.of, "L") \notin DOMAIN w.handle /\ HandleOf(w.of, "D") \notin DOMAIN w.handle
  BY <1>2, <1>6 DEF FsInv, HasNone
<1>9. Opens(w, d, "D", "L", FALSE)
  BY <1>1, <1>6, <1>7, <1>8, CreateFileIs
<1>10. HasD(d.handle, d.of, d.me) /\ HandleOf(d.of, "L") \notin DOMAIN d.handle
  BY <1>6, <1>8, <1>9, BlankIs, OpensD
<1>11. /\ Sound(d) /\ d.host = host /\ d.of = o /\ d.me.dir /\ Apart(handle, d.handle, o)
  BY <1>6, <1>9, BlankIs DEF Opens, Alike
<1>12. Good(r) /\ r.host = host /\ r.of = o /\ Apart(d.handle, r.handle, o)
  BY <1>3, <1>10, <1>11, RewoundIs
<1>13. Apart(handle, r.handle, o)
  BY <1>11, <1>12, ApartTransitive
<1>14. FsInv'
  BY <1>2, <1>12, <1>13, KeptKeeps
<1>15. host' = host
  BY <1>2, <1>12 DEF Kept
<1> QED BY <1>14, <1>15, HostAlone

LEMMA CopiedIs ==
  ASSUME NEW f \in Objects, NEW p \in Seq(Name), NEW mode, NEW dir \in BOOLEAN,
         NEW g, g = Copied(f, p, mode, dir)
  PROVE  g \in Objects /\ g.name = p /\ ~g.valid /\ ~g.pass
<1>1. DirectoryOf(p) \in Seq(Name)
  BY Front1, EmptySeq DEF DirectoryOf, Root
<1>2. PICK read \in BOOLEAN, kind \in BOOLEAN :
        /\ read <=> mode = "read"
        /\ kind <=> IF mode = "create" THEN dir
                    ELSE ~CanOpen([host |-> host], p, FALSE, FALSE)
  OBVIOUS
<1>3. PICK l \in Id \cup {Invalid} : l = IF mode = "create" THEN f.L ELSE Invalid
  BY DEF Objects
<1>4. g = [f EXCEPT !.name = p, !.path = DirectoryOf(p), !.read = read, !.valid = FALSE,
                    !.buf = Here, !.pass = FALSE, !.owed = {}, !.L = l, !.dir = kind]
  <2>1. read = (mode = "read")
    BY <1>2
  <2>2. kind = IF mode = "create" THEN dir ELSE ~CanOpen([host |-> host], p, FALSE, FALSE)
    BY <1>2
  <2> QED BY <1>3, <2>1, <2>2 DEF Copied
<1>5. read \in BOOLEAN /\ kind \in BOOLEAN /\ l \in Id \cup {Invalid} /\ Here \in Nat
  BY <1>2, <1>3 DEF Here
<1>6. g \in Objects
  BY <1>1, <1>4, <1>5 DEF Objects
<1>7. g.name = p /\ g.valid = FALSE /\ g.pass = FALSE
  BY <1>4 DEF Objects
<1> QED BY <1>6, <1>7

LEMMA OpenKeeps ==
  ASSUME FsInv, NEW this \in Object, NEW o \in Object, NEW way \in Way, Open(this, o, way)
  PROVE  FsInv' /\ OwnFileStep
<1> DEFINE spelled == Spelled(file[this], way.to)
           p == IF IsFileNameValid(spelled) THEN Cut(spelled) ELSE Root
           f == Copied(file[this], p, way.mode, way.dir)
           new == World(o, f)
           u == IF new.me.dir THEN OpenDirectory(new, way.mode) ELSE OpenFile(new, way.mode)
           v == Writable(u, way.mode)
           w == IF way.mode = "other" THEN Ended(new, "INVALID_PARAMETER")
                ELSE IF ~IsFileNameValid(spelled) THEN Ended(new, "NOT_FOUND") ELSE v
<1>1. /\ this \in DOMAIN file /\ o \notin DOMAIN file /\ p \in BoundedSeq(Name, MaxDepth)
      /\ IF w.status = "SUCCESS" THEN Kept(o, w) ELSE Freed(o, w)
      /\ reply' = [call |-> "Open", of |-> o, status |-> w.status,
                   meant |-> Base(file[this]), spelled |-> way.to]
  BY DEF Open
<1>2. w \in {Ended(new, "INVALID_PARAMETER"), Ended(new, "NOT_FOUND"), v}
  OBVIOUS
<1>3. f = Copied(file[this], p, way.mode, way.dir) /\ new = World(o, f) /\ v = Writable(u, way.mode)
  OBVIOUS
<1>4. IF new.me.dir THEN u = OpenDirectory(new, way.mode) ELSE u = OpenFile(new, way.mode)
  OBVIOUS
<1> HIDE DEF spelled, p, f, new, u, v, w
<1>5. p \in Seq(Name)
  <2>1. p \in UNION {[1 .. m -> Name] : m \in 0 .. MaxDepth}
    BY <1>1 DEF BoundedSeq, SeqOf
  <2>2. PICK m \in 0 .. MaxDepth : p \in [1 .. m -> Name]
    BY <2>1
  <2>3. m \in Nat
    BY <2>2, BoundAssumption
  <2> QED BY <2>2, <2>3, SeqDef
<1>6. f \in Objects /\ f.name = p /\ ~f.valid /\ ~f.pass
  <2>1. file[this] \in Objects /\ way.dir \in BOOLEAN
    BY <1>1, RequestAssumption DEF FsInv
  <2> QED BY <1>3, <1>5, <2>1, CopiedIs
<1>7. /\ Sound(new) /\ new.host = host /\ new.handle = handle /\ new.of = o /\ new.me = f
  BY <1>3, <1>6, WorldIs
<1>8. HasNone(new.handle, new.of)
  BY <1>1, <1>7 DEF FsInv
<1>9. Opened(new, u)
  BY <1>4, <1>6, <1>7, <1>8, OpenDirectoryIs, OpenFileIs
<1>10. /\ Sound(v) /\ v.of = o /\ v.me.name = p /\ Apart(handle, v.handle, o)
       /\ IF v.status = "SUCCESS" THEN Good(v) /\ Touches(host, v.host, p)
                                 ELSE HasNone(v.handle, o) /\ Adds(host, v.host)
  <2>1. /\ Sound(v) /\ v.of = new.of /\ v.me.name = new.me.name
        /\ Apart(new.handle, v.handle, new.of)
        /\ IF v.status = "SUCCESS" THEN Good(v) /\ Touches(new.host, v.host, new.me.name)
                                  ELSE HasNone(v.handle, v.of) /\ Adds(new.host, v.host)
    BY <1>3, <1>9, WritableIs
  <2> QED BY <1>6, <1>7, <2>1
<1>11. CASE w = v /\ v.status = "SUCCESS"
  <2>1. Kept(o, v)
    BY <1>1, <1>11
  <2>2. FsInv'
    BY <1>10, <1>11, <2>1, KeptKeeps
  <2>3. host' = v.host /\ file'[o].name = p
    <3>1. v.me \in Objects
      BY <1>10 DEF Sound, IsWorld
    <3>2. host' = v.host /\ file'[o] = Stays(v.me, v.host)
      BY <2>1 DEF Kept, Put, Others
    <3> QED BY <1>10, <3>1, <3>2, StaysIs
  <2> QED BY <1>1, <1>10, <1>11, <2>2, <2>3 DEF OwnFileStep, Touches
<1>12. CASE w = v /\ v.status # "SUCCESS"
  <2>1. Freed(o, v)
    BY <1>1, <1>12
  <2>2. FsInv'
    BY <1>10, <1>12, <2>1, FreedKeeps
  <2>3. host' = v.host
    BY <2>1 DEF Freed
  <2> QED BY <1>10, <1>12, <2>2, <2>3 DEF OwnFileStep, Adds
<1>13. ASSUME NEW s, s # "SUCCESS", w = Ended(new, s) PROVE FsInv' /\ OwnFileStep
  <2>1. /\ Sound(w) /\ w.host = host /\ w.handle = handle /\ w.of = o /\ w.status = s
    BY <1>7, <1>13, EndedKeeps
  <2>2. Freed(o, w) /\ HasNone(w.handle, o) /\ Apart(handle, w.handle, o)
    BY <1>1, <1>7, <1>8, <1>13, <2>1, ApartSelf
  <2>3. FsInv'
    BY <2>1, <2>2, FreedKeeps
  <2>4. host' = host
    BY <2>1, <2>2 DEF Freed
  <2> QED BY <2>3, <2>4, HostAlone
<1>14. w = Ended(new, "INVALID_PARAMETER") => FsInv' /\ OwnFileStep
  BY <1>13
<1>15. w = Ended(new, "NOT_FOUND") => FsInv' /\ OwnFileStep
  BY <1>13
<1> QED BY <1>2, <1>11, <1>12, <1>14, <1>15

LEMMA ShutObject ==
  ASSUME FsInv, NEW o \in DOMAIN file, NEW v, v = Shut(World(o, file[o]))
  PROVE  /\ Sound(v) /\ v.host = host /\ v.of = o /\ Apart(handle, v.handle, o)
         /\ HasNone(v.handle, o)
<1> DEFINE w == World(o, file[o])
<1>1. w = World(o, file[o])
  OBVIOUS
<1> HIDE DEF w
<1>2. Good(w) /\ w.host = host /\ w.handle = handle /\ w.of = o
  BY <1>1, ObjectIs
<1> QED BY <1>1, <1>2, ShutIs DEF Good, Has

LEMMA CloseKeeps ==
  ASSUME FsInv, NEW o \in Object, Close(o) PROVE FsInv' /\ OwnFileStep
<1> DEFINE v == Shut(World(o, file[o]))
<1>1. o \in DOMAIN file /\ Freed(o, v) /\ v = Shut(World(o, file[o]))
  BY DEF Close
<1> HIDE DEF v
<1>2. /\ Sound(v) /\ v.host = host /\ Apart(handle, v.handle, o) /\ HasNone(v.handle, o)
  BY <1>1, ShutObject
<1>3. FsInv'
  BY <1>1, <1>2, FreedKeeps
<1>4. host' = host
  BY <1>1, <1>2 DEF Freed
<1> QED BY <1>3, <1>4, HostAlone

LEMMA DeleteKeeps ==
  ASSUME FsInv, NEW o \in Object, Delete(o) PROVE FsInv' /\ OwnFileStep
<1> DEFINE f == file[o]
           s == Shut(World(o, f))
           removed == CanRemove(s, f.name, f.dir) /\ (f.dir \/ ~f.read)
           g == Restrict(s.host, DOMAIN s.host \ {f.name})
           v == [s EXCEPT !.host = g]
           w == IF removed THEN v ELSE s
<1>1. o \in DOMAIN file /\ Freed(o, w) /\ s = Shut(World(o, file[o]))
  BY DEF Delete
<1> HIDE DEF s
<1>2. /\ Sound(s) /\ s.host = host /\ s.of = o /\ Apart(handle, s.handle, o) /\ HasNone(s.handle, o)
  BY <1>1, ShutObject
<1>3. CASE removed
  <2>1. w = v
    BY <1>3
  <2>2. /\ f.name \in DOMAIN host /\ f.name # Root /\ Children(host, f.name) = {}
        /\ Unused(s, f.name)
    BY <1>2, <1>3 DEF CanRemove
  <2>3. g = Restrict(host, DOMAIN host \ {f.name}) /\ v = [s EXCEPT !.host = g]
    BY <1>2
  <2> HIDE DEF removed, g, v, w
  <2>4. FileTree(host) /\ HandlesFit(host, s.handle) /\ IsWorld(s) /\ f.name \in Seq(Name)
    BY <1>2, <2>2 DEF Sound, FileTree
  <2>5. FileTree(g)
    BY <2>2, <2>3, <2>4, TreeCut
  <2>6. DOMAIN g = DOMAIN host \ {f.name} /\ \A q \in DOMAIN g : g[q] = host[q]
    BY <2>3 DEF Restrict
  <2>7. /\ IsWorld(v) /\ v.host = g /\ v.handle = s.handle
    BY <2>3, <2>4 DEF IsWorld
  <2>8. HandlesFit(g, s.handle)
    <3> SUFFICES ASSUME NEW i \in DOMAIN s.handle PROVE s.handle[i].path \in DOMAIN g
      BY <2>4, <2>6 DEF HandlesFit
    <3>1. s.handle[i].path \in DOMAIN host /\ ~IsPrefix(f.name, s.handle[i].path)
      BY <2>2, <2>4 DEF HandlesFit, Unused
    <3>2. s.handle[i].path # f.name
      BY <2>4, <3>1, PrefixSelf
    <3> QED BY <2>6, <3>1, <3>2
  <2>9. Sound(v)
    BY <2>5, <2>7, <2>8 DEF Sound
  <2>10. Freed(o, v) /\ HasNone(v.handle, o) /\ Apart(handle, v.handle, o)
    BY <1>1, <1>2, <2>1, <2>7
  <2>11. FsInv'
    BY <2>9, <2>10, FreedKeeps
  <2>12. host' = g
    BY <2>7, <2>10 DEF Freed
  <2> QED BY <2>6, <2>11, <2>12 DEF OwnFileStep
<1>4. CASE ~removed
  <2>1. Freed(o, s)
    BY <1>1, <1>4
  <2>2. FsInv'
    BY <1>2, <2>1, FreedKeeps
  <2>3. host' = host
    BY <1>2, <2>1 DEF Freed
  <2> QED BY <2>2, <2>3, HostAlone
<1> QED BY <1>3, <1>4

LEMMA StayIs ==
  ASSUME NEW o, NEW call \in {"SetPosition", "Read", "Write"}, NEW w, Stay(o, call, w)
  PROVE  Kept(o, w) /\ reply'.of = o /\ reply'.call \notin {"Open", "OpenVolume"}
BY DEF Stay, Reply

LEMMA SuccessStage ==
  ASSUME NEW u, NEW w, Stage(u, w), NEW v, v = Success(w) PROVE Stage(u, v)
<1>1. CASE w.status = "GO"
  <2>1. v = Ended(w, "SUCCESS")
    BY <1>1 DEF Success
  <2>2. Stage(w, v)
    BY <2>1, EndedStage DEF Stage
  <2> QED BY <2>2, StageTransitive
<1>2. CASE w.status # "GO"
  BY <1>2 DEF Success
<1> QED BY <1>1, <1>2

LEMMA SetPositionKeeps ==
  ASSUME FsInv, NEW o \in Object, NEW pos \in Nat, SetPosition(o, pos) PROVE FsInv' /\ OwnFileStep
<1> DEFINE w == World(o, file[o])
           c == CloseHandle(w, "L")
           r == Rewound(c)
           s == SetFilePointer(w, pos)
           v == IF ~w.me.dir THEN Success(s)
                ELSE IF pos # 0 THEN Ended(w, "UNSUPPORTED")
                ELSE Ended(r, IF r.me.L = Invalid THEN "DEVICE_ERROR" ELSE "SUCCESS")
<1>1. o \in DOMAIN file /\ Stay(o, "SetPosition", v)
  BY DEF SetPosition
<1>2. w = World(o, file[o]) /\ c = CloseHandle(w, "L") /\ r = Rewound(c) /\ s = SetFilePointer(w, pos)
  OBVIOUS
<1>3. \/ ~w.me.dir /\ v = Success(s)
      \/ v = Ended(w, "UNSUPPORTED")
      \/ w.me.dir /\ \E status \in {"DEVICE_ERROR", "SUCCESS"} : v = Ended(r, status)
  OBVIOUS
<1> HIDE DEF w, c, r, s, v
<1>4. Good(w) /\ w.of \in Object
  BY <1>1, <1>2, ObjectIs
<1>5. CASE ~w.me.dir /\ v = Success(s)
  <2>1. Stage(w, s)
    BY <1>2, <1>4, <1>5, SetFilePointerStage
  <2>2. Stage(w, v)
    BY <1>5, <2>1, SuccessStage
  <2> QED BY <1>1, <1>2, <2>2, StayIs, StageKeeps
<1>6. CASE v = Ended(w, "UNSUPPORTED")
  <2>1. Stage(w, v)
    BY <1>4, <1>6, EndedStage
  <2> QED BY <1>1, <1>2, <2>1, StayIs, StageKeeps
<1>7. ASSUME w.me.dir, NEW status, v = Ended(r, status) PROVE FsInv' /\ OwnFileStep
  <2>1. "L" \in Field /\ w.me["L"] \in {Invalid, HandleOf(w.of, "L")} /\ Sound(w)
    BY <1>4 DEF Field, Good, Has, HasL
  <2>2. /\ Sound(c) /\ c.host = w.host /\ c.of = w.of /\ c.me = w.me /\ c.status = w.status
        /\ Apart(w.handle, c.handle, w.of)
        /\ DOMAIN c.handle = DOMAIN w.handle \ {w.me["L"]}
        /\ \A i \in DOMAIN c.handle : c.handle[i] = w.handle[i]
    BY <1>2, <2>1, CloseHandleIs
  <2>3. HandleOf(c.of, "L") \notin DOMAIN c.handle
    BY <1>4, <2>2 DEF Good, Has, HasL
  <2>4. HasD(c.handle, c.of, c.me)
    <3>1. HandleOf(w.of, "D") # w.me["L"]
      BY <1>4, <2>1, IdsApart DEF Field
    <3> QED BY <1>4, <2>2, <3>1 DEF Good, Has, HasD
  <2>5. /\ Good(r) /\ r.host = c.host /\ r.of = c.of /\ r.me.name = c.me.name
        /\ Apart(c.handle, r.handle, c.of)
    BY <1>2, <1>7, <2>2, <2>3, <2>4, RewoundIs
  <2>6. Stage(w, r)
    <3>1. Apart(w.handle, r.handle, w.of) /\ Touches(w.host, r.host, w.me.name)
      BY <2>2, <2>5, ApartTransitive, TouchesSelf
    <3> QED BY <2>2, <2>5, <3>1 DEF Stage
  <2>7. Stage(r, v)
    BY <1>7, <2>5, EndedStage
  <2>8. Stage(w, v)
    BY <2>6, <2>7, StageTransitive
  <2> QED BY <1>1, <1>2, <2>8, StayIs, StageKeeps
<1> QED BY <1>3, <1>5, <1>6, <1>7

LEMMA SetPositionEndKeeps ==
  ASSUME FsInv, NEW o \in Object, SetPositionEnd(o) PROVE FsInv' /\ OwnFileStep
<1> DEFINE w == World(o, file[o])
           s == SetFilePointer(w, Size(w))
           v == IF w.me.dir THEN Ended(w, "UNSUPPORTED")
                ELSE IF w.me.L = Invalid \/ Size(w) >= LowWord THEN Ended(w, "DEVICE_ERROR")
                ELSE Success(s)
<1>1. o \in DOMAIN file /\ Stay(o, "SetPosition", v)
  BY DEF SetPositionEnd
<1>2. w = World(o, file[o]) /\ s = SetFilePointer(w, Size(w))
  OBVIOUS
<1>3. \/ \E status \in {"UNSUPPORTED", "DEVICE_ERROR"} : v = Ended(w, status)
      \/ ~w.me.dir /\ w.me.L # Invalid /\ v = Success(s)
  OBVIOUS
<1> HIDE DEF w, s, v
<1>4. Good(w)
  BY <1>1, <1>2, ObjectIs
<1>5. ASSUME ~w.me.dir, w.me.L # Invalid, v = Success(s) PROVE Stage(w, v)
  <2>1. Size(w) \in Nat
    <3>1. w.handle[w.me.L].path = w.me.name /\ w.host[w.me.name] \in Entry
      BY <1>4, <1>5, HandleIsOn
    <3> QED BY <3>1, BoundAssumption DEF Size, Entry
  <2>2. Stage(w, s)
    BY <1>2, <1>4, <1>5, <2>1, SetFilePointerStage
  <2> QED BY <1>5, <2>2, SuccessStage
<1>6. Stage(w, v)
  BY <1>3, <1>4, <1>5, EndedStage
<1> QED BY <1>1, <1>2, <1>6, StayIs, StageKeeps

LEMMA ReadKeeps ==
  ASSUME FsInv, NEW o \in Object, NEW n \in Amount, Read(o, n) PROVE FsInv' /\ OwnFileStep
<1> DEFINE w == World(o, file[o])
           v == IF w.me.L = Invalid THEN Ended(w, "DEVICE_ERROR")
                ELSE IF w.me.dir THEN ReadEntry(w) ELSE ReadFile(w, n)
<1>1. o \in DOMAIN file /\ Stay(o, "Read", v)
  BY DEF Read
<1>2. w = World(o, file[o])
  OBVIOUS
<1>3. \/ v = Ended(w, "DEVICE_ERROR")
      \/ w.me.L # Invalid /\ w.me.dir /\ v = ReadEntry(w)
      \/ ~w.me.dir /\ v = ReadFile(w, n)
  OBVIOUS
<1> HIDE DEF w, v
<1>4. Good(w) /\ Owes(w.host, w.me) /\ n \in Nat
  BY <1>1, <1>2, ObjectIs, BoundAssumption
<1>5. Stage(w, v)
  BY <1>3, <1>4, EndedStage, ReadEntryStage, ReadFileStage
<1> QED BY <1>1, <1>2, <1>5, StayIs, StageKeeps

LEMMA WriteKeeps ==
  ASSUME FsInv, NEW o \in Object, NEW n \in Amount, Write(o, n) PROVE FsInv' /\ OwnFileStep
<1> DEFINE w == World(o, file[o])
           v == IF w.me.L = Invalid THEN Ended(w, "DEVICE_ERROR")
                ELSE IF w.me.dir THEN Ended(w, "UNSUPPORTED")
                ELSE IF w.me.read THEN Ended(w, "ACCESS_DENIED")
                ELSE IF ~w.handle[w.me.L].write THEN Ended(w, "DEVICE_ERROR")
                ELSE WriteFile(w, n)
<1>1. /\ o \in DOMAIN file /\ Stay(o, "Write", v)
      /\ ~w.me.dir /\ w.me.L # Invalid => Pos(w) + n <= MaxSize
  BY DEF Write
<1>2. w = World(o, file[o])
  OBVIOUS
<1>3. \/ \E status \in {"DEVICE_ERROR", "UNSUPPORTED", "ACCESS_DENIED"} : v = Ended(w, status)
      \/ w.me.L # Invalid /\ ~w.me.dir /\ v = WriteFile(w, n)
  OBVIOUS
<1> HIDE DEF w, v
<1>4. Good(w) /\ n \in Nat
  BY <1>1, <1>2, ObjectIs, BoundAssumption
<1>5. Stage(w, v)
  BY <1>1, <1>3, <1>4, EndedStage, WriteFileStage
<1> QED BY <1>1, <1>2, <1>5, StayIs, StageKeeps

(* What is in place has the name that its path and its own name make.      *)
LEMMA NameInPlace ==
  ASSUME NEW f \in Objects, InPlace(f) PROVE f.path \o OwnName(f) = f.name
<1> DEFINE p == f.name
<1>1. p \in Seq(Name) /\ f.path = DirectoryOf(p)
  BY DEF InPlace, Objects
<1>2. CASE p = Root
  <2>1. f.path = <<>> /\ OwnName(f) = <<>>
    BY <1>1, <1>2 DEF DirectoryOf, OwnName, Root
  <2>2. <<>> \o <<>> = <<>>
    BY EmptySeq, ConcatEmptySeq
  <2> QED BY <1>2, <2>1, <2>2 DEF Root
<1>3. CASE p # Root
  <2>1. Len(p) \in Nat \ {0}
    BY <1>1, <1>3, EmptySeq DEF Root
  <2>2. f.path = SubSeq(p, 1, Len(p) - 1) /\ OwnName(f) = <<p[Len(p)]>>
    BY <1>1, <1>3 DEF DirectoryOf, OwnName, Front, Last
  <2>3. 1 \in 1 .. Len(p) /\ Len(p) \in 1 .. Len(p)
    BY <2>1
  <2>4. SubSeq(p, 1, Len(p)) = SubSeq(p, 1, Len(p) - 1) \o <<p[Len(p)]>>
    BY <1>1, <2>3, SubSeqRecursiveSecond
  <2>5. SubSeq(p, 1, Len(p)) = p
    BY <1>1, SubSeqFull
  <2> QED BY <2>2, <2>4, <2>5
<1> QED BY <1>2, <1>3

(* After a rename the object's file is one that was not there before.      *)
LEMMA NamesThen ==
  ASSUME NEW u, Good(u), NEW w, NEW new, Names(u, w, new), w.status = "GO", NEW v, Stage(w, v)
  PROVE  Names(u, v, v.me.name)
<1>1. /\ w.me.name = new
      /\ new = u.me.name \/ new \notin DOMAIN u.host
      /\ w.of = u.of /\ v.of = w.of /\ Good(v) /\ v.me.name = new
      /\ DOMAIN v.host = DOMAIN w.host /\ new \in DOMAIN w.host
      /\ Touches(u.host, w.host, u.me.name) /\ Touches(w.host, v.host, new)
  <2>1. /\ w.me.name = new /\ new \in DOMAIN w.host
        /\ new = u.me.name \/ new \notin DOMAIN u.host
    BY DEF Names
  <2>2. w.of = u.of /\ Touches(u.host, w.host, u.me.name)
    BY DEF Names
  <2>3. /\ Good(v) /\ v.of = w.of /\ v.me.name = w.me.name /\ DOMAIN v.host = DOMAIN w.host
        /\ Touches(w.host, v.host, w.me.name)
    BY DEF Stage
  <2> QED BY <2>1, <2>2, <2>3
<1>2. Apart(u.handle, v.handle, u.of)
  BY ApartTransitive DEF Names, Stage
<1>3. FileTree(u.host) /\ new \in Seq(Name)
  BY <1>1 DEF Good, Sound, IsWorld, Objects
<1>4. Touches(u.host, v.host, u.me.name)
  <2> SUFFICES ASSUME NEW q \in DOMAIN u.host \cap DOMAIN v.host, u.host[q] # v.host[q]
               PROVE  IsPrefix(u.me.name, q)
    BY DEF Touches
  <2>1. CASE u.host[q] # w.host[q]
    BY <1>1, <2>1 DEF Touches
  <2>2. CASE w.host[q] # v.host[q]
    <3>1. IsPrefix(new, q)
      BY <1>1, <2>2 DEF Touches
    <3>2. new \in DOMAIN u.host
      BY <1>3, <3>1, TreeHas
    <3> QED BY <1>1, <3>1, <3>2
  <2> QED BY <2>1, <2>2
<1> QED BY <1>1, <1>2, <1>4 DEF Names

(* SetInfo, one of its stages after the other.                             *)
LEMMA NewNameIs ==
  ASSUME NEW f \in Objects, ~MovedReused, Usable(f), NEW asked \in Request
  PROVE  /\ NewFileName(f, asked.to) \in Seq(Name)
         /\ ~NameChange(f, asked.to) => NewFileName(f, asked.to) = f.name
<1>1. f.path \in Seq(Name) /\ asked.to.name \in Seq(Name) /\ InPlace(f)
  BY RequestAssumption DEF Objects, Usable
<1>2. f.path \o asked.to.name \in Seq(Name)
  BY <1>1, ConcatProperties
<1>3. f.path \o OwnName(f) = f.name
  BY <1>1, NameInPlace
<1> QED BY <1>1, <1>2, <1>3 DEF NewFileName, NameChange

LEMMA NamesKeeps ==
  ASSUME FsInv, NEW o \in DOMAIN file, NEW u, u = World(o, file[o]), NEW v, NEW new, Names(u, v, new),
         Kept(o, v), reply'.of = o, reply'.call \notin {"Open", "OpenVolume"}
  PROVE  FsInv' /\ OwnFileStep
<1>1. /\ Good(u) /\ u.host = host /\ u.handle = handle /\ u.of = o /\ u.me = file[o] /\ o \in Object
  BY ObjectIs
<1>2. Good(v) /\ v.of = o /\ Apart(handle, v.handle, o) /\ Touches(host, v.host, file[o].name)
  BY <1>1 DEF Names
<1>3. FsInv'
  BY <1>1, <1>2, KeptKeeps
<1>4. host' = v.host
  BY DEF Kept
<1> QED BY <1>2, <1>3, <1>4 DEF OwnFileStep, Touches

LEMMA SetInfoKeeps ==
  ASSUME FsInv, ~MovedReused, NEW o \in Object, NEW asked \in Request, SetInfo(o, asked)
  PROVE  FsInv' /\ OwnFileStep
<1>1. o \in DOMAIN file /\ Usable(file[o])
  BY DEF SetInfo
<1> DEFINE f == file[o]
           start == World(o, f)
           rename == NameChange(f, asked.to)
           new == NewFileName(f, asked.to)
           named == IF rename THEN Renamed(start, new) ELSE start
           sized(old) == IF named.status = "GO" /\ asked.size # old.size
                           THEN Resized(named, asked.size, old.ro) ELSE named
           timed(old) == IF sized(old).status = "GO" THEN Stamped(sized(old), asked.stamp)
                                                     ELSE sized(old)
           end(old) == IF timed(old).status = "GO"
                         THEN Attributed(timed(old), f.name, new, asked.ro) ELSE timed(old)
<1>2. PICK old : \E w :
        /\ \/ \E status \in {"INVALID_PARAMETER", "SUCCESS"} : w = Ended(start, status)
           \/ w = end(old)
        /\ Kept(o, w) /\ reply'.call = "SetInfo" /\ reply'.of = o
  <2>1. PICK old \in OldInfo(file[o]) : LET w ==
          IF old.dir # f.dir THEN Ended(start, "INVALID_PARAMETER")
          ELSE IF ~rename /\ ~(asked.size # old.size) /\ asked.ro = old.ro /\ asked.stamp = "none"
            THEN Ended(start, "SUCCESS")
          ELSE end(old) IN
          /\ Kept(o, w)
          /\ reply' = [call |-> "SetInfo", of |-> o, status |-> w.status, asked |-> asked]
    BY DEF SetInfo
  <2> DEFINE e == end(old)
             w == IF old.dir # f.dir THEN Ended(start, "INVALID_PARAMETER")
                  ELSE IF ~rename /\ ~(asked.size # old.size) /\ asked.ro = old.ro
                          /\ asked.stamp = "none"
                    THEN Ended(start, "SUCCESS")
                  ELSE e
  <2>2. Kept(o, w) /\ reply'.call = "SetInfo" /\ reply'.of = o
    BY <2>1
  <2> HIDE DEF e
  <2>3. \/ \E status \in {"INVALID_PARAMETER", "SUCCESS"} : w = Ended(start, status)
        \/ w = e
    OBVIOUS
  <2> HIDE DEF w
  <2> QED BY <2>2, <2>3 DEF e
<1>3. PICK w :
        /\ \/ \E status \in {"INVALID_PARAMETER", "SUCCESS"} : w = Ended(start, status)
           \/ w = end(old)
        /\ Kept(o, w) /\ reply'.call = "SetInfo" /\ reply'.of = o
  BY <1>2
<1> DEFINE s == sized(old)
           t == timed(old)
           v == end(old)
<1>4. /\ start = World(o, file[o]) /\ (~rename => named = start)
      /\ rename => named = Renamed(start, new)
  OBVIOUS
<1>5. Good(start) /\ start.of = o /\ start.me = f /\ f \in Objects /\ start.status = "GO"
  BY <1>1, ObjectIs
<1>6. new \in Seq(Name) /\ (~rename => new = f.name)
  BY <1>1, <1>5, NewNameIs
<1>7. /\ s = named \/ s = Resized(named, asked.size, old.ro)
      /\ t = s \/ t = Stamped(s, asked.stamp)
      /\ v = t \/ v = Attributed(t, f.name, new, asked.ro)
      /\ named.status # "GO" => v = named
  <2>1. /\ s = named \/ s = Resized(named, asked.size, old.ro)
        /\ named.status # "GO" => s = named
    <3> HIDE DEF named
    <3> QED OBVIOUS
  <2> HIDE DEF named, s
  <2>2. /\ t = s \/ t = Stamped(s, asked.stamp)
        /\ s.status # "GO" => t = s
    BY DEF s
  <2>3. /\ v = t \/ v = Attributed(t, f.name, new, asked.ro)
        /\ t.status # "GO" => v = t
    <3> HIDE DEF t
    <3> QED BY DEF t
  <2> QED BY <2>1, <2>2, <2>3
<1>8. (\E status \in {"INVALID_PARAMETER", "SUCCESS"} : w = Ended(start, status)) \/ w = v
  BY <1>3
<1>9. asked.size \in 0 .. MaxSize /\ asked.stamp \in {"none", "some", "all"} /\ asked.ro \in BOOLEAN
  BY RequestAssumption
<1> HIDE DEF start, new, rename, named, s, t, v
<1>10. /\ ~rename => named = start /\ new = start.me.name
       /\ rename => Names(start, named, new)
  BY <1>4, <1>5, <1>6, RenamedIs
<1>11. Stage(start, v) \/ \E name : Names(start, v, name)
  <2>1. CASE named.status = "GO"
    <3>1. Good(named) /\ named.me.name = new
      BY <1>5, <1>10, <2>1 DEF Names
    <3>2. Stage(named, s)
      BY <1>7, <1>9, <3>1, ResizedStage, StageSelf
    <3>3. Stage(s, t)
      BY <1>7, <1>9, <3>2, StampedStage, StageSelf DEF Stage
    <3>4. Stage(named, t)
      BY <3>2, <3>3, StageTransitive
    <3>5. new \in DOMAIN t.host \/ f.name \notin DOMAIN t.host
      <4>1. DOMAIN t.host = DOMAIN named.host
        BY <3>4 DEF Stage
      <4>2. new = f.name \/ new \in DOMAIN named.host
        BY <1>6, <1>10, <2>1 DEF Names
      <4> QED BY <4>1, <4>2
    <3>6. Good(t) /\ t.me.name = new
      BY <3>1, <3>4 DEF Stage
    <3>7. Stage(t, v)
      BY <1>7, <1>9, <3>5, <3>6, AttributedStage, StageSelf
    <3>8. Stage(named, v)
      BY <3>4, <3>7, StageTransitive
    <3> QED BY <1>5, <1>10, <2>1, <3>8, NamesThen
  <2>2. CASE named.status # "GO"
    <3>1. v = named
      BY <1>7, <2>2
    <3>2. Names(start, v, new)
      BY <1>4, <1>5, <1>10, <2>2, <3>1
    <3> QED BY <3>2
  <2> QED BY <2>1, <2>2
<1>12. Stage(start, w) \/ \E name : Names(start, w, name)
  BY <1>5, <1>8, <1>11, EndedStage
<1>13. Kept(o, w) /\ reply'.of = o /\ reply'.call \notin {"Open", "OpenVolume"}
  BY <1>3
<1> QED BY <1>1, <1>4, <1>12, <1>13, StageKeeps, NamesKeeps

(* What changes no file and no handle.                                     *)
LEMMA RestKeeps ==
  ASSUME FsInv, UNCHANGED <<host, handle, file>> PROVE FsInv' /\ OwnFileStep
<1>1. FsInv'
  BY DEF FsInv, FileTree, HandlesFit, Has, HasL, HasD, Lists, HasNone, Owes, Children, IsDirectory
<1> QED BY <1>1, HostAlone

LEMMA FsInvInit == Init => FsInv
<1> SUFFICES ASSUME Init PROVE FsInv
  OBVIOUS
<1> DEFINE e == [dir |-> TRUE, ro |-> FALSE, size |-> 0]
<1>1. host = [p \in {Root} |-> e] /\ handle = <<>> /\ file = <<>>
  BY DEF Init
<1>2. e \in Entry /\ e.dir
  BY BoundAssumption DEF Entry
<1> HIDE DEF e
<1>3. DOMAIN host = {Root} /\ host[Root] = e /\ Root \in Seq(Name)
  BY <1>1, EmptySeq DEF Root
<1>4. host \in [DOMAIN host -> Entry]
  BY <1>1, <1>2, <1>3
<1>5. IsDirectory(host, Root)
  BY <1>2, <1>3 DEF IsDirectory
<1>6. \A q \in Seq(Name) : IsPrefix(q, Root) => q = Root
  <2> TAKE q \in Seq(Name)
  <2>1. Root \in Seq(Name) /\ Len(Root) = 0 /\ Len(q) \in Nat
    BY EmptySeq, LenProperties DEF Root
  <2>2. IsPrefix(q, Root) => Len(q) <= Len(Root)
    BY <2>1, PrefixIs
  <2>3. IsPrefix(q, Root) => Len(q) = 0
    BY <2>1, <2>2
  <2> QED BY <2>3, EmptySeq DEF Root
<1>7. FileTree(host)
  BY <1>3, <1>4, <1>5, <1>6 DEF FileTree
<1>8. DOMAIN handle = {} /\ DOMAIN file = {}
  BY <1>1
<1>9. HandlesFit(host, handle)
  <2>1. IsFiniteSet(DOMAIN handle)
    BY <1>8, FS_EmptySet
  <2>2. handle \in [DOMAIN handle -> HandleRec]
    BY <1>1
  <2> QED BY <1>8, <2>1, <2>2 DEF HandlesFit
<1>10. file \in [DOMAIN file -> Objects]
  BY <1>1
<1> QED BY <1>7, <1>8, <1>9, <1>10 DEF FsInv, HasNone

LEMMA FsInvNext ==
  ASSUME FsInv, ~MovedReused, Next PROVE FsInv' /\ OwnFileStep
<1>1. CASE Start \/ Stop
  BY <1>1, RestKeeps DEF Start, Stop
<1>2. ASSUME NEW o \in Object, OpenVolume(o) PROVE FsInv' /\ OwnFileStep
  BY <1>2, OpenVolumeKeeps
<1>3. ASSUME NEW o \in Object, NEW this \in Object, NEW way \in Way, Open(this, o, way)
      PROVE  FsInv' /\ OwnFileStep
  BY <1>3, OpenKeeps
<1>4. ASSUME NEW o \in Object, Close(o) \/ Delete(o) PROVE FsInv' /\ OwnFileStep
  BY <1>4, CloseKeeps, DeleteKeeps
<1>5. ASSUME NEW o \in Object, NEW n \in Amount, Read(o, n) \/ Write(o, n)
      PROVE  FsInv' /\ OwnFileStep
  BY <1>5, ReadKeeps, WriteKeeps
<1>6. ASSUME NEW o \in Object, NEW pos \in Position, SetPosition(o, pos)
      PROVE  FsInv' /\ OwnFileStep
  <2>1. pos \in Nat
    BY BoundAssumption
  <2> QED BY <1>6, <2>1, SetPositionKeeps
<1>7. ASSUME NEW o \in Object, SetPositionEnd(o) PROVE FsInv' /\ OwnFileStep
  BY <1>7, SetPositionEndKeeps
<1>8. ASSUME NEW o \in Object, NEW asked \in Request, SetInfo(o, asked)
      PROVE  FsInv' /\ OwnFileStep
  BY <1>8, SetInfoKeeps
<1>9. ASSUME NEW o \in Object, Flush(o) PROVE FsInv' /\ OwnFileStep
  BY <1>9, RestKeeps DEF Flush, Told
<1>10. ASSUME NEW o \in Object, NEW fits \in BOOLEAN, GetFileInfo(o, fits)
       PROVE  FsInv' /\ OwnFileStep
  BY <1>10, RestKeeps DEF GetFileInfo, Told
<1>11. ASSUME NEW o \in Object, NEW room \in Label, GetVolumeInfo(o, room)
       PROVE  FsInv' /\ OwnFileStep
  BY <1>11, RestKeeps DEF GetVolumeInfo, Told
<1>12. ASSUME NEW o \in Object, NEW label \in Label, NEW room \in Label,
              SetVolumeInfo(o, label, room) \/ SetVolumeLabel(o, label, room)
       PROVE  FsInv' /\ OwnFileStep
  BY <1>12, RestKeeps DEF SetVolumeInfo, SetVolumeLabel, SetVolume
<1> QED BY <1>1, <1>2, <1>3, <1>4, <1>5, <1>6, <1>7, <1>8, <1>9, <1>10, <1>11, <1>12 DEF Next

LEMMA FsInvHolds == ASSUME ~MovedReused PROVE Spec => []FsInv
<1>1. FsInv /\ [Next]_vars => FsInv'
  BY FsInvNext, RestKeeps DEF vars
<1> QED BY FsInvInit, <1>1, PTL DEF Spec

----------------------------------------------------------------------------
(* What an object holds are handles with its name, and to its file.        *)
LEMMA HeldIs ==
  ASSUME FsInv, NEW o \in DOMAIN file
  PROVE  /\ o \in Object
         /\ \A i \in Held(file[o]) :
              /\ i \in DOMAIN handle /\ handle[i].path = file[o].name
              /\ \E field \in Field : i = HandleOf(o, field)
         /\ \A field \in Field :
              HandleOf(o, field) \in DOMAIN handle => HandleOf(o, field) \in Held(file[o])
<1> DEFINE f == file[o]
<1>1. HasL(handle, o, f) /\ HasD(handle, o, f) /\ o \in Object
  BY DEF FsInv, Has
<1>2. HandleOf(o, "L") # Invalid /\ HandleOf(o, "D") # Invalid /\ "L" \in Field /\ "D" \in Field
  BY <1>1, IdsApart DEF Field
<1> HIDE DEF f
<1>3. \A i \in Held(f) : /\ i \in DOMAIN handle /\ handle[i].path = f.name
                         /\ i = HandleOf(o, "L") \/ i = HandleOf(o, "D")
  BY <1>1 DEF Held, HasL, HasD
<1>4. /\ HandleOf(o, "L") \in DOMAIN handle => HandleOf(o, "L") \in Held(f)
      /\ HandleOf(o, "D") \in DOMAIN handle => HandleOf(o, "D") \in Held(f)
  BY <1>1, <1>2 DEF Held, HasL, HasD
<1> QED BY <1>1, <1>2, <1>3, <1>4 DEF Field, f

LEMMA InvOwned == ASSUME FsInv PROVE HandlesAreOwned
<1>1. ASSUME NEW i \in DOMAIN handle PROVE \E o \in DOMAIN file : i \in Held(file[o])
  <2>1. PICK o \in Object, field \in Field : i = HandleOf(o, field)
    BY DEF FsInv, HandlesFit, Id
  <2>2. o \in DOMAIN file
    BY <2>1 DEF FsInv, HasNone, Field
  <2> QED BY <2>1, <2>2, HeldIs
<1>2. ASSUME NEW o \in DOMAIN file, NEW q \in DOMAIN file \ {o}
      PROVE  Held(file[o]) \cap Held(file[q]) = {}
  BY HeldIs, IdsApart
<1> QED BY <1>1, <1>2, HeldIs DEF HandlesAreOwned

LEMMA InvTypes == ASSUME FsInv PROVE TypeOK
<1>1. ASSUME NEW p \in DOMAIN host
      PROVE  p \in Seq(Name) /\ host[p] \in Entry /\ IsDirectory(host, DirectoryOf(p))
  <2>1. p \in Seq(Name) /\ host[p] \in Entry /\ IsDirectory(host, Root)
    BY DEF FsInv, FileTree
  <2>2. CASE p = Root
    BY <2>1, <2>2 DEF DirectoryOf
  <2>3. CASE p # Root
    <3>1. Front(p) \in Seq(Name) /\ IsPrefix(Front(p), p) /\ Front(p) # p
      BY <2>1, <2>3, Front1, BeforePath DEF Root
    <3>2. IsDirectory(host, Front(p))
      BY <3>1 DEF FsInv, FileTree
    <3> QED BY <2>1, <2>3, <3>2 DEF DirectoryOf
  <2> QED BY <2>2, <2>3
<1>2. Root \in DOMAIN host /\ DOMAIN file \subseteq Object
  BY DEF FsInv, FileTree, IsDirectory
<1>3. \A i \in DOMAIN handle : /\ handle[i].path \in DOMAIN host
                               /\ handle[i].find => host[handle[i].path].dir
  BY DEF FsInv, HandlesFit
<1>4. \A o \in DOMAIN file : file[o].valid => file[o].L # Invalid
  BY DEF FsInv, Has, Lists
<1> QED BY <1>1, <1>2, <1>3, <1>4 DEF TypeOK

(* The host's entries, the handles and the objects have their types.       *)
THEOREM TypeCorrect == ASSUME ~MovedReused PROVE Spec => []TypeOK
BY FsInvHolds, InvTypes, PTL

(* No handle of the host is lost or has two owners, whatever the calls.    *)
THEOREM HandlesOwned == ASSUME ~MovedReused PROVE Spec => []HandlesAreOwned
BY FsInvHolds, InvOwned, PTL

(* An object's handles are to the file of its name, after moves as well.   *)
THEOREM NamesOwn == ASSUME ~MovedReused PROVE Spec => []NameIsOwn
<1>1. FsInv => NameIsOwn
  BY HeldIs DEF NameIsOwn
<1> QED BY <1>1, FsInvHolds, PTL

(* A listing gives no entry twice, and at its end has given every name     *)
(* that was there all the time.                                            *)
THEOREM ListingCompletes == ASSUME ~MovedReused PROVE Spec => []ListingIsComplete
<1>1. FsInv => ListingIsComplete
  BY DEF FsInv, Has, Lists, ListingIsComplete
<1> QED BY <1>1, FsInvHolds, PTL

(* No call changes the content or attributes of any file but its own,      *)
(* except of what lies below a directory that it moves.                    *)
THEOREM OwnFileOnly == ASSUME ~MovedReused PROVE Spec => OnlyOwnFile
<1>1. FsInv /\ [Next]_vars => [OwnFileStep]_vars
  BY FsInvNext
<1> QED BY <1>1, FsInvHolds, PTL DEF Spec, OnlyOwnFile, OwnFileStep
=============================================================================
