---------------------------- MODULE MCFileSystem ----------------------------
(* Instances of FileSystem.                                                *)
EXTENDS FileSystem, TLC

CONSTANTS o1, o2

Rel(s) == [abs |-> FALSE, name |-> s]
Abs(s) == [abs |-> TRUE, name |-> s]

Names == {1, 2}
As(to, mode, dir) == [to |-> to, mode |-> mode, dir |-> dir]

(* A file 1 and a directory 2, wherever This is, and a file in the latter. *)
Ways ==
    {As(Rel(<<1>>), "create", FALSE), As(Rel(<<1>>), "read", FALSE),
     As(Rel(<<1, Up, Here, Up, 2>>), "create", TRUE),
     As(Rel(<<1, Up, Here, Up, 2>>), "write", FALSE),
     As(Abs(<<2, 1>>), "create", FALSE), As(Rel(<<1, -2>>), "read", FALSE),
     As(Rel(<<1>>), "other", FALSE)}

Ask(to, ro, size, stamp) == [to |-> to, ro |-> ro, size |-> size, stamp |-> stamp]

(* Renames here and to elsewhere; a resize, new times, and a file that     *)
(* becomes read-only, with a rename to 1 when it has another name.         *)
Requests ==
    {Ask(Abs(<<2, 1>>), FALSE, 0, "some"), Ask(Rel(<<2>>), FALSE, 0, "none"),
     Ask(Rel(<<1>>), TRUE, 1, "none"), Ask(Rel(<<1>>), FALSE, 0, "all")}

(* A file is moved and then made read-only.                                *)
MoveAndProtect == {Ask(Abs(<<2, 1>>), FALSE, 0, "none"), Ask(Rel(<<1>>), TRUE, 0, "none")}

Symmetry == Permutations(Object)

(* The reply of the last call tells nothing of what the next may do.       *)
View == <<host, handle, file, volume>>

(* The label and the files have nothing in common: one is tried while the  *)
(* other is as it was first.                                               *)
OneIsUsed ==
    volume \in {NoVolume, [label |-> EmulatedLabel, pool |-> EmulatedLabel]} \/ DOMAIN host = {Root}
=============================================================================
