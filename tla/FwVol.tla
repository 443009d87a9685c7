-------------------------------- MODULE FwVol --------------------------------
(***************************************************************************)
(* Sec/FwVol.c: how SEC finds the PEI core in a firmware volume.  Lengths  *)
(* and offsets are in units of 8 bytes, the alignment of a file.  A volume *)
(* is [length, header, polarity, at]: its length and that of its header,   *)
(* what an erased bit reads, and the file headers by their offset.         *)
(***************************************************************************)
EXTENDS Integers, Sequences, FiniteSetsExt

FileHeader == 3   \* sizeof (EFI_FFS_FILE_HEADER)
Bits == 0 .. 7

HEADER_CONSTRUCTION == 0
HEADER_VALID == 1
DATA_VALID == 2
MARKED_FOR_UPDATE == 3
DELETED == 4
HEADER_INVALID == 5

(* What lies where there is no file: erased flash.                         *)
Header(volume, offset) ==
    IF offset \in DOMAIN volume.at THEN volume.at[offset]
    ELSE [state |-> IF volume.polarity THEN Bits ELSE {}]

(* What the build makes of a volume: a file lies inside it, with more than *)
(* its header, and has a size: one of size 0 would be looked at for ever.  *)
IsVolume(volume) ==
    /\ volume.length \in Nat /\ volume.header \in 0 .. volume.length
    /\ volume.polarity \in BOOLEAN
    /\ \A o \in DOMAIN volume.at :
         /\ o \in Nat /\ o < volume.length - FileHeader
         /\ volume.at[o].size \in Nat \ {0} /\ volume.at[o].sections \in Seq(STRING)

(* The highest bit that was programmed, -1 if none was.                    *)
GetFileState(volume, header) ==
    LET set == IF volume.polarity THEN Bits \ header.state ELSE header.state
    IN  IF set = {} THEN -1 ELSE Max(set)

(* The next file of a type at or behind an offset, as a set of at most one *)
(* offset.  A header that was given up is stepped over by its own size, a  *)
(* deleted file by the file's; anything unexpected ends the search.  A     *)
(* variant with a fault also takes a deleted file.                         *)
FindAnyFile(volume, type, start) ==
    LET found[offset \in 0 .. volume.length] ==
          LET header == Header(volume, offset)
              state == GetFileState(volume, header)
              behind(size) == IF offset + size > volume.length THEN {}
                              ELSE found[offset + size]
          IN  CASE offset >= volume.length - FileHeader -> {}
                [] state = HEADER_INVALID -> behind(FileHeader)
                [] state \in {DATA_VALID, MARKED_FOR_UPDATE, DELETED} ->
                     IF header.type = type THEN {offset} ELSE behind(header.size)
                [] OTHER -> {}
    IN  found[start]

SecFfsFindNextFile(volume, type, start) ==
    LET found[offset \in 0 .. volume.length] ==
          LET header == Header(volume, offset)
              state == GetFileState(volume, header)
              behind(size) == IF offset + size > volume.length THEN {}
                              ELSE found[offset + size]
          IN  CASE offset >= volume.length - FileHeader -> {}
                [] state = HEADER_INVALID -> behind(FileHeader)
                [] state \in {DATA_VALID, MARKED_FOR_UPDATE} /\ ~header.sumIsZero -> {}
                [] state \in {DATA_VALID, MARKED_FOR_UPDATE} /\ header.sumIsZero ->
                     IF header.type = type THEN {offset} ELSE behind(header.size)
                [] state = DELETED -> behind(header.size)
                [] OTHER -> {}
    IN  found[start]

(* The first section of a type in a file, as a set of at most one index.   *)
SecFfsFindSectionData(file, type) ==
    LET i == {n \in DOMAIN file.sections : file.sections[n] = type}
    IN  IF i = {} THEN {} ELSE {Min(i)}

(* The PE32 section of the first PEI core; there is no second attempt.     *)
SecFfsFindPeiCore(volume) ==
    UNION {{[file |-> offset, section |-> i] :
                i \in SecFfsFindSectionData(volume.at[offset], "PE32")} :
              offset \in SecFfsFindNextFile(volume, "PEI_CORE", volume.header)}

----------------------------------------------------------------------------
(* The files of a volume, without following them one by one: the offsets   *)
(* that tile the volume from the end of its header up to a given one, with *)
(* nothing among them that ends a search.                                  *)
EndOf(volume, offset) ==
    offset + (IF GetFileState(volume, volume.at[offset]) = HEADER_INVALID
                THEN FileHeader ELSE volume.at[offset].size)

IsWhole(volume, offset) ==
    /\ volume.at[offset].sumIsZero
    /\ GetFileState(volume, volume.at[offset]) \in {DATA_VALID, MARKED_FOR_UPDATE}

IsPassed(volume, offset) ==
    \/ IsWhole(volume, offset)
    \/ GetFileState(volume, volume.at[offset]) \in {DELETED, HEADER_INVALID}

IsReached(volume, offset) ==
    \E before \in SUBSET {o \in DOMAIN volume.at : o < offset /\ IsPassed(volume, o)} :
      {EndOf(volume, o) : o \in before} \cup {volume.header}
          = before \cup {offset}

(* The first file of the type that is whole, as a set of at most one.      *)
FirstOf(volume, type) ==
    LET files == {o \in DOMAIN volume.at :
                    /\ volume.at[o].type = type
                    /\ IsReached(volume, o) /\ IsWhole(volume, o)}
    IN  IF files = {} THEN {} ELSE {Min(files)}
=============================================================================
