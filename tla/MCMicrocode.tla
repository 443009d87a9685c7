---------------------------- MODULE MCMicrocode ----------------------------
(***************************************************************************)
(* Microcode for TLC: the shipped image of this processor, updates of it   *)
(* that are smaller and larger, and images for another processor; six      *)
(* flashes, one with no image of the processor and two with a newer one.   *)
(***************************************************************************)
EXTENDS Microcode, SequencesExt

Of(fits, r, n) == [fits |-> fits, rev |-> r, size |-> n]
Old == Of(TRUE, 1, 2)
Foreign == Of(FALSE, 1, 2)
MCImage == {Old, Foreign, Of(FALSE, 1, 1), Of(FALSE, 1, 3), Of(TRUE, 1, 1), Of(TRUE, 2, 1),
            Of(TRUE, 3, 3), Of(TRUE, 4, 1), Of(TRUE, 4, 5)}
Built ==
    {<<Foreign, Old, Foreign>>, <<Old, Of(FALSE, 1, 3), Old>>, <<Foreign, Of(FALSE, 1, 1), Old>>,
     <<Of(TRUE, 2, 1)>>, <<Foreign>>, <<Of(TRUE, 4, 1), Of(TRUE, 1, 1), Of(FALSE, 1, 3)>>}
Flashed(cells) == [p \in 0 .. Size - 1 |-> IF p < Len(cells) THEN cells[p + 1] ELSE ErasedCell]
MCShipped == {Flashed(FlattenSeq([k \in DOMAIN s |-> Cells(s[k])])) : s \in Built}
=============================================================================
