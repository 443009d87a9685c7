----------------------------- MODULE FileSystem -----------------------------
(***************************************************************************)
(* The simple file system (WinNtSimpleFileSystemDxe): file objects of the  *)
(* firmware, each with handles of the host to one file or directory below  *)
(* the root of the volume.                                                 *)
(*                                                                         *)
(* A path is the sequence of names from the root; a name is a number, in   *)
(* the order in which the host lists names.  Every call but Open is made   *)
(* at TPL_CALLBACK and none waits, so that each is one step; its stages    *)
(* are operators on w = [host, handle, of, me, status], me being object of.*)
(* Memory does not run out, and nobody else changes the host's directory.  *)
(***************************************************************************)
EXTENDS Integers, Sequences, FiniteSets, SequencesExt, FiniteSetsExt, Functions

CONSTANTS
    Object,       \* WIN_NT_EFI_FILE_PRIVATE
    Name,         \* names of files and directories
    Way,          \* what Open is asked for: a name [abs, name], mode and kind
    Request,      \* what SetInfo is asked for: a name, attribute, size and times
    Amount,       \* how much Read and Write are asked for
    Position,     \* what SetPosition is asked for
    Label,        \* the sizes of volume labels, and of buffers for them
    LowWord,      \* 2^32: what a 32-bit half of a size or position holds
    EmulatedLabel,  \* the size of "EFI_EMULATED"
    MaxSize, MaxDepth, MaxFiles,  \* bounds of the instance
    MovedReused   \* whether a file moved elsewhere gets another SetInfo or Open

Here == 0   \* ".", which the host lists first; it lists ".." as well, left out
Up == -1    \* ".."
(* What is in no valid name: a "/", three dots, nothing between two "\".   *)
NotValid == {-2, -3, -4}

ASSUME NameAssumption == Name \subseteq Nat \ {0} /\ IsFiniteSet(Name)
ASSUME RequestAssumption ==
    /\ \A a \in Way : /\ a.to.abs \in BOOLEAN /\ a.to.name \in Seq(Name \cup {Here, Up} \cup NotValid)
                     /\ (a.to.abs \/ a.to.name # <<>>)
                     /\ a.mode \in {"read", "write", "create", "other"} /\ a.dir \in BOOLEAN
    /\ \A a \in Request : /\ a.to.abs \in BOOLEAN /\ a.to.name \in Seq(Name)
                         /\ a.ro \in BOOLEAN /\ a.size \in 0 .. MaxSize
                         /\ a.stamp \in {"none", "some", "all"}
ASSUME BoundAssumption ==
    /\ LowWord \in Nat \ {0, 1} /\ MovedReused \in BOOLEAN
    /\ Amount \subseteq Nat \ {0} /\ Position \subseteq Nat
    /\ Label \subseteq Nat \ {0} /\ EmulatedLabel \in Label /\ {MaxSize, MaxDepth, MaxFiles} \subseteq Nat

VARIABLES
    host,    \* the files and directories there are, by path
    handle,  \* the host's open handles
    file,    \* the open objects
    volume,  \* the label of the installed volume and the size of its pool buffer
    reply    \* the last call: for the properties
vars == <<host, handle, file, volume, reply>>

(* A function that takes a value at one place more.                        *)
Put(f, x, y) == [z \in DOMAIN f \cup {x} |-> IF z = x THEN y ELSE f[z]]

Root == <<>>
Invalid == <<>>   \* INVALID_HANDLE_VALUE
NoVolume == [label |-> 0, pool |-> 0]

Init ==
    /\ host = [p \in {Root} |-> [dir |-> TRUE, ro |-> FALSE, size |-> 0]]
    /\ handle = <<>>
    /\ file = <<>>
    /\ volume = NoVolume
    /\ reply = [call |-> "none"]

----------------------------------------------------------------------------
(* The host.  Opening for writing needs a file that is not read-only, and  *)
(* opening a directory needs FILE_FLAG_BACKUP_SEMANTICS.  What is open, or *)
(* has something open below it, is neither moved nor removed.              *)
IsDirectory(h, p) == p \in DOMAIN h /\ h[p].dir
Children(h, p) == {n \in Name : Append(p, n) \in DOMAIN h}
CanOpen(w, p, write, backup) ==
    /\ p \in DOMAIN w.host
    /\ w.host[p].dir => backup
    /\ write /\ ~w.host[p].dir => ~w.host[p].ro
Unused(w, p) == \A i \in DOMAIN w.handle : ~IsPrefix(p, w.handle[i].path)

(* A new handle, into a field of the object: the host gives a value that   *)
(* is not in use.  The position of a find handle is the entry it gave last.*)
NewHandle(w, field) ==
    LET Nth(k) == <<w.of, field, k>> IN
    Nth(Min({k \in 1 .. Cardinality(DOMAIN w.handle) + 1 : Nth(k) \notin DOMAIN w.handle}))
Obtain(w, field, p, write, find) ==
    LET new == NewHandle(w, field) IN
    [w EXCEPT !.handle = Put(@, new, [path |-> p, write |-> write, find |-> find, pos |-> 0]),
              !.me[field] = new]
Without(w, field) == [w EXCEPT !.me[field] = Invalid]
CreateFile(w, field, p, write, backup) ==
    IF CanOpen(w, p, write, backup) THEN Obtain(w, field, p, write, FALSE)
                                    ELSE Without(w, field)
FindFirst(w, p) ==
    IF IsDirectory(w.host, p) THEN Obtain(w, "L", p, FALSE, TRUE) ELSE Without(w, "L")
CloseHandle(w, field) ==
    [w EXCEPT !.handle = Restrict(@, DOMAIN @ \ {w.me[field]})]

CanRemove(w, p, dir) ==
    /\ p \in DOMAIN w.host \ {Root} /\ w.host[p].dir = dir /\ ~w.host[p].ro
    /\ Children(w.host, p) = {} /\ Unused(w, p)
CanMove(w, old, new) ==
    /\ old \in DOMAIN w.host \ {Root} /\ Unused(w, old)
    /\ \/ new = old
       \/ /\ new \notin DOMAIN w.host /\ ~IsPrefix(old, new)
          /\ IsDirectory(w.host, Front(new))
          /\ \A p \in DOMAIN w.host :
               IsPrefix(old, p) => Len(new) + Len(p) - Len(old) <= MaxDepth
Moved(h, old, new) ==
    LET Goes(p) == IF IsPrefix(old, p) THEN new \o SubSeq(p, Len(old) + 1, Len(p)) ELSE p
    IN  [q \in {Goes(p) : p \in DOMAIN h} |->
           h[CHOOSE p \in DOMAIN h : Goes(p) = q]]

----------------------------------------------------------------------------
(* An object: LHandle (a find handle in a directory) and DirHandle, its    *)
(* own path and that of its directory, and the entry found next.  For the  *)
(* properties: whether a listing is under way that was not disturbed by a  *)
(* change of the directory's name, and the names that were there since it  *)
(* began and have not been given yet.                                      *)
Blank == [L |-> Invalid, D |-> Invalid, name |-> Root, path |-> Root,
          dir |-> TRUE, read |-> TRUE, valid |-> FALSE, buf |-> Here,
          pass |-> FALSE, owed |-> {}]

World(o, me) == [host |-> host, handle |-> handle, of |-> o, me |-> me, status |-> "GO"]
Ended(w, status) == [w EXCEPT !.status = status]

(* FindFirstFile into FindBuf: a listing from its first entry.  Faults:    *)
(* not to look whether there is one, or to use another buffer.             *)
RewoundBlind(w) ==
    LET found == FindFirst(w, w.me.name) IN
    [found EXCEPT !.me.valid = TRUE, !.me.buf = Here,
                  !.me.pass = found.me.L # Invalid,
                  !.me.owed = Children(w.host, w.me.name)]
RewoundElsewhere(w) ==
    LET found == FindFirst(w, w.me.name) IN
    [found EXCEPT !.me.valid = found.me.L # Invalid,
                  !.me.pass = found.me.L # Invalid,
                  !.me.owed = Children(w.host, w.me.name)]
Rewound(w) ==
    LET found == FindFirst(w, w.me.name) IN
    [found EXCEPT !.me.valid = found.me.L # Invalid, !.me.buf = Here,
                  !.me.pass = found.me.L # Invalid,
                  !.me.owed = Children(w.host, w.me.name)]

Stays(f, h) ==
    IF f.dir THEN [f EXCEPT !.owed = @ \cap Children(h, f.name)] ELSE f
Others(o, h) == [p \in DOMAIN file \ {o} |-> Stays(file[p], h)]
Reply(o, call, status) == reply' = [call |-> call, of |-> o, status |-> status]

(* The object stays open, or is freed.                                     *)
Kept(o, w) ==
    /\ host' = w.host /\ handle' = w.handle
    /\ file' = Put(Others(o, w.host), o, Stays(w.me, w.host))
    /\ UNCHANGED volume
Freed(o, w) ==
    /\ host' = w.host /\ handle' = w.handle
    /\ file' = Others(o, w.host)
    /\ UNCHANGED volume

(* The driver binding, on a WinNtIo of the bus.  Start gives it up again   *)
(* when it has no memory or cannot install the protocol, and Stop leaves   *)
(* all as it was when somebody keeps that open.  A file object is no       *)
(* protocol and does not keep Stop from freeing its volume: the model is   *)
(* of a client that closes its files before.                               *)
Supported == volume = NoVolume
Start ==
    /\ Supported
    /\ volume' \in {NoVolume, [label |-> EmulatedLabel, pool |-> EmulatedLabel]}
    /\ UNCHANGED <<host, handle, file, reply>>
Stop ==
    /\ volume # NoVolume /\ DOMAIN file = {}
    /\ volume' \in {volume, NoVolume}
    /\ UNCHANGED <<host, handle, file, reply>>

OpenVolume(o) ==
    /\ o \notin DOMAIN file /\ volume # NoVolume
    /\ Kept(o, Rewound(CreateFile(World(o, Blank), "D", Root, FALSE, TRUE)))
    /\ Reply(o, "OpenVolume", "SUCCESS")

----------------------------------------------------------------------------
(* Open.  A name is taken from the root, or from the directory of This;    *)
(* "\" loses its only character and is the directory of This.              *)
Base(f) == IF f.dir THEN f.name ELSE f.path
Spelled(f, s) == IF s.abs /\ s.name # <<>> THEN s.name ELSE Base(f) \o s.name

(* Every "." and every ".." with its left neighbour is cut, the first one  *)
(* first, and nothing left of the root; a variant with a fault does not    *)
(* stop there.                                                             *)
Dots(s) == {i \in DOMAIN s : s[i] \in {Here, Up}}
CutOnceLast(s) ==
    LET i == Max(Dots(s)) IN
    IF s[i] = Here THEN RemoveAt(s, i)
                   ELSE SubSeq(s, 1, i - 2) \o SubSeq(s, i + 1, Len(s))
CutOnce(s) ==
    LET i == Min(Dots(s)) IN
    IF s[i] = Here THEN RemoveAt(s, i)
                   ELSE SubSeq(s, 1, i - 2) \o SubSeq(s, i + 1, Len(s))
Cut(s) ==
    LET cut[k \in 0 .. Len(s)] ==
          IF k = 0 THEN s ELSE IF Dots(cut[k - 1]) = {} THEN cut[k - 1]
                                                        ELSE CutOnce(cut[k - 1])
    IN  cut[Len(s)]
IsFileNameValid(s) == Range(s) \cap NotValid = {}
DirectoryOf(p) == IF p = Root THEN Root ELSE Front(p)

(* No mode but these three is taken, nor a read-only file to be created.   *)
(* The new object is a copy of This with names of its own.  To create is   *)
(* to say what: otherwise what opens as a file is one.                     *)
Copied(f, p, mode, dir) ==
    [f EXCEPT !.name = p, !.path = DirectoryOf(p), !.read = mode = "read",
              !.valid = FALSE, !.buf = Here,
              !.pass = FALSE, !.owed = {},
              !.L = IF mode = "create" THEN @ ELSE Invalid,
              !.dir = IF mode = "create" THEN dir
                      ELSE ~CanOpen([host |-> host], p, FALSE, FALSE)]

(* CreateDirectory and OPEN_ALWAYS make what does not exist.               *)
Made(w, p, dir) ==
    IF p \notin DOMAIN w.host /\ IsDirectory(w.host, DirectoryOf(p))
      THEN [w EXCEPT !.host = Put(@, p, [dir |-> dir, ro |-> FALSE, size |-> 0])]
      ELSE w

OpenDirectory(w0, mode) ==
    LET p == w0.me.name
        w == IF mode = "create" THEN Made(w0, p, TRUE) ELSE w0
        opened == CreateFile(w, "D", p, ~w.me.read, TRUE) IN
    IF mode = "create" /\ p \notin DOMAIN w.host THEN Ended(w, "ACCESS_DENIED")
    ELSE IF opened.me.D = Invalid
      THEN Ended(w, IF CanOpen(w, p, FALSE, TRUE) THEN "ACCESS_DENIED" ELSE "NOT_FOUND")
    ELSE Ended(Rewound(opened), "SUCCESS")

OpenFile(w0, mode) ==
    LET p == w0.me.name
        w == IF mode = "create" THEN Made(w0, p, FALSE) ELSE w0
        opened == CreateFile(w, "L", p, ~w.me.read, FALSE) IN
    IF opened.me.L # Invalid THEN Ended(opened, "SUCCESS")
    ELSE Ended(w, IF CanOpen(w, p, FALSE, FALSE) THEN "ACCESS_DENIED" ELSE "NOT_FOUND")

(* A created file gets the attributes asked for, of which read-only is     *)
(* none.                                                                   *)
Writable(w, mode) ==
    IF mode = "create" /\ w.status = "SUCCESS"
      THEN [w EXCEPT !.host[w.me.name].ro = FALSE] ELSE w

InPlace(f) == f.path = DirectoryOf(f.name)
Usable(f) == MovedReused \/ InPlace(f)

Open(this, o, way) ==
    /\ this \in DOMAIN file /\ o \notin DOMAIN file /\ Usable(file[this])
    /\ LET spelled == Spelled(file[this], way.to)
           p == IF IsFileNameValid(spelled) THEN Cut(spelled) ELSE Root
           new == World(o, Copied(file[this], p, way.mode, way.dir))
           w == IF way.mode = "other" THEN Ended(new, "INVALID_PARAMETER")
                ELSE IF ~IsFileNameValid(spelled) THEN Ended(new, "NOT_FOUND")
                ELSE Writable(IF new.me.dir THEN OpenDirectory(new, way.mode)
                                            ELSE OpenFile(new, way.mode), way.mode) IN
       /\ p \in BoundedSeq(Name, MaxDepth)
       /\ Cardinality(DOMAIN w.host) <= MaxFiles
       /\ IF w.status = "SUCCESS" THEN Kept(o, w) ELSE Freed(o, w)
       /\ reply' = [call |-> "Open", of |-> o, status |-> w.status,
                    meant |-> Base(file[this]), spelled |-> way.to]

----------------------------------------------------------------------------
(* Close and Delete.  A file has a copy of the DirHandle of the directory  *)
(* it was opened from, which is not its own; the fault closes it.          *)
ShutBoth(w) == CloseHandle(CloseHandle(w, "L"), "D")
Shut(w) ==
    LET l == CloseHandle(w, "L") IN IF w.me.dir THEN CloseHandle(l, "D") ELSE l

Close(o) ==
    /\ o \in DOMAIN file
    /\ Freed(o, Shut(World(o, file[o])))
    /\ Reply(o, "Close", "SUCCESS")

Delete(o) ==
    /\ o \in DOMAIN file
    /\ LET f == file[o]
           w == Shut(World(o, f))
           removed == CanRemove(w, f.name, f.dir) /\ (f.dir \/ ~f.read) IN
       /\ Freed(o, IF removed THEN [w EXCEPT !.host = Restrict(@, DOMAIN @ \ {f.name})]
                              ELSE w)
       /\ Reply(o, "Delete", IF removed THEN "SUCCESS" ELSE "WARN_DELETE_FAILURE")

----------------------------------------------------------------------------
(* Positions.  SetFilePointer gives the low word of the position, of which *)
(* 2^32 - 1 says that it failed; without a high word it does not move      *)
(* there either.                                                           *)
Pos(w) == w.handle[w.me.L].pos
Size(w) == w.host[w.handle[w.me.L].path].size
Hidden(pos) == pos % LowWord = LowWord - 1
MoveTo(w, pos) == [w EXCEPT !.handle[w.me.L].pos = pos]

SetFilePointer(w, pos) ==
    IF w.me.L = Invalid THEN Ended(w, "DEVICE_ERROR")
    ELSE IF Hidden(pos) THEN Ended(MoveTo(w, pos), "DEVICE_ERROR")
    ELSE MoveTo(w, pos)
GetPosition(w) ==
    IF w.me.L = Invalid \/ Hidden(Pos(w)) THEN Ended(w, "DEVICE_ERROR") ELSE w

Success(w) == IF w.status = "GO" THEN Ended(w, "SUCCESS") ELSE w
Stay(o, call, w) == Kept(o, w) /\ Reply(o, call, w.status)

(* A directory is only set to its first entry.                             *)
SetPosition(o, pos) ==
    /\ o \in DOMAIN file
    /\ LET w == World(o, file[o])
           rewound == Rewound(CloseHandle(w, "L")) IN
       Stay(o, "SetPosition",
            IF ~w.me.dir THEN Success(SetFilePointer(w, pos))
            ELSE IF pos # 0 THEN Ended(w, "UNSUPPORTED")
            ELSE Ended(rewound, IF rewound.me.L = Invalid THEN "DEVICE_ERROR"
                                                          ELSE "SUCCESS"))
SetPositionEnd(o) ==
    /\ o \in DOMAIN file
    /\ LET w == World(o, file[o]) IN
       Stay(o, "SetPosition",
            IF w.me.dir THEN Ended(w, "UNSUPPORTED")
            ELSE IF w.me.L = Invalid \/ Size(w) >= LowWord THEN Ended(w, "DEVICE_ERROR")
            ELSE Success(SetFilePointer(w, Size(w))))

(* Read gives the bytes from the position, or the entry found before; the  *)
(* size of the file is only its low word.                                  *)
ReadFile(w, n) ==
    LET got == GetPosition(w)
        low == Size(w) % LowWord IN
    IF got.status # "GO" THEN got
    ELSE IF Pos(w) > low THEN Ended(w, "DEVICE_ERROR")
    ELSE IF Pos(w) = low THEN Ended(w, "SUCCESS")
    ELSE Ended(MoveTo(w, Min({Pos(w) + n, Size(w)})), "SUCCESS")

FindNext(w) == {n \in Children(w.host, w.handle[w.me.L].path) : n > Pos(w)}
ReadEntry(w) ==
    LET given == [w EXCEPT !.me.owed = @ \ {w.me.buf}, !.status = "SUCCESS"] IN
    IF ~w.me.valid THEN Ended(w, "SUCCESS")
    ELSE IF FindNext(w) = {} THEN [given EXCEPT !.me.valid = FALSE, !.me.buf = Here]
    ELSE [MoveTo(given, Min(FindNext(w))) EXCEPT !.me.buf = Min(FindNext(w))]

Read(o, n) ==
    /\ o \in DOMAIN file
    /\ LET w == World(o, file[o]) IN
       Stay(o, "Read", IF w.me.L = Invalid THEN Ended(w, "DEVICE_ERROR")
                       ELSE IF w.me.dir THEN ReadEntry(w) ELSE ReadFile(w, n))

WriteFile(w, n) ==
    LET i == w.me.L
        p == w.handle[i].path
        end == w.handle[i].pos + n IN
    [w EXCEPT !.host[p].size = Max({@, end}), !.handle[i].pos = end,
              !.status = "SUCCESS"]
Write(o, n) ==
    /\ o \in DOMAIN file
    /\ LET w == World(o, file[o]) IN
       /\ ~w.me.dir /\ w.me.L # Invalid => Pos(w) + n <= MaxSize
       /\ Stay(o, "Write", IF w.me.L = Invalid THEN Ended(w, "DEVICE_ERROR")
                           ELSE IF w.me.dir THEN Ended(w, "UNSUPPORTED")
                           ELSE IF w.me.read THEN Ended(w, "ACCESS_DENIED")
                           ELSE IF ~w.handle[w.me.L].write THEN Ended(w, "DEVICE_ERROR")
                           ELSE WriteFile(w, n))

----------------------------------------------------------------------------
(* SetInfo: name, size, times and attributes, one after the other, of      *)
(* which the first that fails ends the call.                               *)
OwnName(f) == IF f.name = Root THEN <<>> ELSE <<Last(f.name)>>
NameChange(f, to) == to.abs \/ to.name # OwnName(f)
NewFileNameRoot(f, to) == to.name
NewFileName(f, to) == IF to.abs THEN to.name ELSE f.path \o to.name
Hold(f) == IF f.dir THEN f.D ELSE f.L

(* What the handle tells of the file; without one, what was on the stack.  *)
OldInfo(f) ==
    IF Hold(f) = Invalid
      THEN [dir : {f.dir, TRUE}, ro : BOOLEAN, size : 0 .. LowWord - 1]
      ELSE LET e == host[handle[Hold(f)].path] IN
           {[dir |-> f.dir, ro |-> e.ro, size |-> e.size % LowWord]}

(* The handles under the present name; what is found first in a directory  *)
(* goes to a buffer that is not the object's.                              *)
Reacquired(w, p) ==
    IF w.me.dir
      THEN [FindFirst(CreateFile(w, "D", p, ~w.me.read, TRUE), p)
              EXCEPT !.me.pass = FALSE, !.me.owed = {}]
      ELSE CreateFile(w, "L", p, ~w.me.read, FALSE)
ReopenNothing(w, p, status) == Ended(w, status)
Reopen(w, p, status) ==
    Ended(IF p \in DOMAIN w.host THEN Reacquired(w, p) ELSE w, status)

(* MoveFile, between the close of the handles and their return; the fault  *)
(* leaves the object its old name.                                         *)
ShutForMove(w) ==
    IF w.me.dir THEN [Shut(w) EXCEPT !.me.D = Invalid]
                ELSE [Shut(w) EXCEPT !.me.L = Invalid]
CarriedOff(w, new) == [w EXCEPT !.host = Moved(@, w.me.name, new)]
Carried(w, new) == [w EXCEPT !.host = Moved(@, w.me.name, new), !.me.name = new]
Renamed(w, new) ==
    LET shut == ShutForMove(w)
        back == Reacquired(Carried(shut, new), new) IN
    IF w.me.read THEN Ended(w, "ACCESS_DENIED")
    ELSE IF ~CanMove(shut, w.me.name, new) THEN Reopen(shut, w.me.name, "ACCESS_DENIED")
    ELSE IF ~back.me.dir /\ back.me.L = Invalid THEN Ended(back, "DEVICE_ERROR")
    ELSE back

ResizedThere(w, size, ro) ==
    LET there == SetFilePointer(w, size) IN
    IF w.me.dir THEN Ended(w, "UNSUPPORTED")
    ELSE IF w.me.read \/ ro THEN Ended(w, "ACCESS_DENIED")
    ELSE IF GetPosition(w).status # "GO" THEN GetPosition(w)
    ELSE IF there.status # "GO" THEN there
    ELSE [there EXCEPT !.host[w.handle[w.me.L].path].size = size]
Resized(w, size, ro) ==
    LET got == GetPosition(w)
        there == SetFilePointer(w, size) IN
    IF w.me.dir THEN Ended(w, "UNSUPPORTED")
    ELSE IF w.me.read \/ ro THEN Ended(w, "ACCESS_DENIED")
    ELSE IF got.status # "GO" THEN got
    ELSE IF there.status # "GO" THEN there
    ELSE IF ~w.handle[w.me.L].write THEN Ended(there, "DEVICE_ERROR")
    ELSE [w EXCEPT !.host[w.handle[w.me.L].path].size = size]

(* The first time that is zero ends the call.                              *)
Stamped(w, stamp) ==
    LET hold == Hold(w.me) IN
    CASE stamp = "none" -> w
      [] stamp = "some" -> Ended(w, "SUCCESS")
      [] stamp = "all" -> IF hold # Invalid /\ w.handle[hold].write THEN w
                          ELSE Ended(w, "DEVICE_ERROR")

Attributed(w, old, new, ro) ==
    IF new \in DOMAIN w.host THEN [w EXCEPT !.host[new].ro = ro, !.status = "SUCCESS"]
                             ELSE Reopen(w, old, "DEVICE_ERROR")

SetInfo(o, asked) ==
    /\ o \in DOMAIN file /\ Usable(file[o])
    /\ \E old \in OldInfo(file[o]) :
         LET f == file[o]
             start == World(o, f)
             rename == NameChange(f, asked.to)
             resize == asked.size # old.size
             new == NewFileName(f, asked.to)
             named == IF rename THEN Renamed(start, new) ELSE start
             sized == IF named.status = "GO" /\ resize
                        THEN Resized(named, asked.size, old.ro) ELSE named
             timed == IF sized.status = "GO" THEN Stamped(sized, asked.stamp) ELSE sized
             w == IF old.dir # f.dir THEN Ended(start, "INVALID_PARAMETER")
                  ELSE IF ~rename /\ ~resize /\ asked.ro = old.ro /\ asked.stamp = "none"
                    THEN Ended(start, "SUCCESS")
                  ELSE IF timed.status = "GO" THEN Attributed(timed, f.name, new, asked.ro)
                  ELSE timed IN
         /\ Kept(o, w)
         /\ reply' = [call |-> "SetInfo", of |-> o, status |-> w.status,
                      asked |-> asked]

----------------------------------------------------------------------------
(* What changes nothing: Flush, and GetInfo of a file, which tells what    *)
(* the handle does, or of the volume, whose space the host may not know.   *)
Told(o, call, status) ==
    Reply(o, call, status) /\ UNCHANGED <<host, handle, file, volume>>

Flush(o) ==
    /\ o \in DOMAIN file
    /\ LET f == file[o] IN
       \E status \in IF f.L = Invalid THEN {"DEVICE_ERROR"}
                     ELSE IF f.dir THEN {"SUCCESS"}
                     ELSE IF f.read \/ host[handle[f.L].path].ro THEN {"ACCESS_DENIED"}
                     ELSE {"SUCCESS", "DEVICE_ERROR"} :
         Told(o, "Flush", status)

GetFileInfo(o, fits) ==
    /\ o \in DOMAIN file
    /\ IF fits THEN \E info \in OldInfo(file[o]) :
                      /\ reply' = [call |-> "GetInfo", of |-> o, status |-> "SUCCESS", info |-> info]
                      /\ UNCHANGED <<host, handle, file, volume>>
       ELSE Told(o, "GetInfo", "BUFFER_TOO_SMALL")
GetVolumeInfo(o, room) ==
    /\ o \in DOMAIN file
    /\ \E status \in IF room < volume.label THEN {"BUFFER_TOO_SMALL"} ELSE {"SUCCESS", "DEVICE_ERROR"} :
         Told(o, "GetInfo", status)

(* SetInfo of the volume takes a new buffer for the label; of the label    *)
(* alone it writes into the one there is, when what the caller has is as   *)
(* long as the old label.                                                  *)
SetVolume(o, to, refused) ==
    /\ o \in DOMAIN file
    /\ volume' = IF refused THEN volume ELSE to
    /\ Reply(o, "SetVolume", IF refused THEN "BAD_BUFFER_SIZE" ELSE "SUCCESS")
    /\ UNCHANGED <<host, handle, file>>
SetVolumeInfo(o, label, room) ==
    SetVolume(o, [label |-> label, pool |-> label], room < label)
SetVolumeLabel(o, label, room) ==
    SetVolume(o, [volume EXCEPT !.label = label], room < volume.label)

----------------------------------------------------------------------------
Next ==
    \/ Start \/ Stop
    \/ \E o \in Object :
         \/ OpenVolume(o)
         \/ \E this \in Object, way \in Way : Open(this, o, way)
         \/ Close(o) \/ Delete(o)
         \/ \E n \in Amount : Read(o, n) \/ Write(o, n)
         \/ \E pos \in Position : SetPosition(o, pos)
         \/ SetPositionEnd(o)
         \/ \E asked \in Request : SetInfo(o, asked)
         \/ Flush(o) \/ \E fits \in BOOLEAN : GetFileInfo(o, fits)
         \/ \E room \in Label :
              \/ GetVolumeInfo(o, room)
              \/ \E label \in Label : SetVolumeInfo(o, label, room) \/ SetVolumeLabel(o, label, room)
Spec == Init /\ [][Next]_vars

----------------------------------------------------------------------------
Entry == [dir : BOOLEAN, ro : BOOLEAN, size : 0 .. MaxSize]

(* The entries of the host, the handles and the objects have their types;  *)
(* every entry lies in a directory.                                        *)
TypeOK ==
    /\ DOMAIN file \subseteq Object /\ Root \in DOMAIN host
    /\ \A p \in DOMAIN host :
         /\ p \in Seq(Name) /\ host[p] \in Entry
         /\ IsDirectory(host, DirectoryOf(p))
    /\ \A i \in DOMAIN handle :
         /\ handle[i].path \in DOMAIN host
         /\ handle[i].find => host[handle[i].path].dir
    /\ \A o \in DOMAIN file : file[o].valid => file[o].L # Invalid

Held(f) == (IF f.dir THEN {f.L, f.D} ELSE {f.L}) \ {Invalid}

(* No handle of the host is lost or has two owners: whatever an object     *)
(* went through, failed renames included, its Close gives all it has back, *)
(* and no handle of another object, of which it may hold a copy.           *)
HandlesAreOwned ==
    /\ \A i \in DOMAIN handle : \E o \in DOMAIN file : i \in Held(file[o])
    /\ \A o \in DOMAIN file :
         /\ Held(file[o]) \subseteq DOMAIN handle
         /\ \A q \in DOMAIN file \ {o} : Held(file[o]) \cap Held(file[q]) = {}

(* The handles of an object are handles to the file of its name, also when *)
(* it, or a directory above it, is moved.                                  *)
NameIsOwn == \A o \in DOMAIN file : \A i \in Held(file[o]) : handle[i].path = file[o].name

(* A listing that began at the first entry is one entry ahead of what it   *)
(* gave, so that it gives none twice, and at its end has given each name   *)
(* that was there all the time, whatever was made, moved or deleted        *)
(* between its calls.                                                      *)
ListingIsComplete ==
    \A o \in DOMAIN file :
      LET f == file[o] IN
      f.pass => IF f.valid THEN /\ f.buf = handle[f.L].pos
                                /\ \A n \in f.owed : n >= f.buf
                ELSE f.owed = {}

Resolve(s) ==
    FoldLeft(LAMBDA p, n : IF n = Here THEN p
                           ELSE IF n = Up THEN DirectoryOf(p) ELSE Append(p, n),
             Root, s)

(* Open gives the file that the name means, read from the root or from the *)
(* directory of This, each ".." as the parent of what is left of it; but   *)
(* "\" is not the root.                                                    *)
OpenedAsSpelled ==
    [][LET s == reply'.spelled IN
       reply'.call = "Open" /\ reply'.status = "SUCCESS" /\ (s.abs => s.name # <<>>) =>
         file'[reply'.of].name = Resolve((IF s.abs THEN Root ELSE reply'.meant) \o s.name)]_vars

(* A call changes no file but that of its object, or what is below it.     *)
OnlyOwnFile ==
    [][LET f == IF reply'.call \in {"Open", "OpenVolume"} THEN file' ELSE file IN
       \A p \in DOMAIN host \cap DOMAIN host' :
         host[p] # host'[p] => IsPrefix(f[reply'.of].name, p)]_vars

(* A SetInfo that is refused, also a rename that closed everything before  *)
(* it failed, leaves the object usable: it has a handle again, unless the  *)
(* file is read-only by now.                                               *)
UsableAfterRefusal ==
    [][reply'.call = "SetInfo" /\ reply'.status = "ACCESS_DENIED" =>
         LET o == reply'.of IN
         file[o].L # Invalid /\ ~host[file[o].name].ro => Held(file'[o]) # {}]_vars

(* SetInfo moves the position for a while to change the size; a call that  *)
(* succeeds and keeps the name leaves it where it was.                     *)
PositionKept ==
    [][reply'.call = "SetInfo" /\ reply'.status = "SUCCESS" =>
         LET o == reply'.of IN
         ~file[o].dir /\ ~NameChange(file[o], reply'.asked.to) /\ file[o].L # Invalid =>
           handle'[file[o].L].pos = handle[file[o].L].pos]_vars

(* "EFI_SUCCESS - The file or volume information has been updated."  It    *)
(* has not when the object was moved before: the directory in which the    *)
(* next SetInfo looks for its file is still the old one.                   *)
SuccessMeansUpdated ==
    [][reply'.call = "SetInfo" /\ reply'.status = "SUCCESS" =>
         LET p == file'[reply'.of].name IN
         p \in DOMAIN host' => host'[p].ro = reply'.asked.ro]_vars
=============================================================================
