-------------------------------- MODULE MCBoot --------------------------------
(***************************************************************************)
(* Instances of Boot.                                                      *)
(***************************************************************************)
EXTENDS Boot, TLC

(* Volumes of ten units with room for two files, behind a header of two.   *)
Valid == {HEADER_CONSTRUCTION, HEADER_VALID, DATA_VALID}

File(programmed, type, sumIsZero, sections) ==
    [state |-> Bits \ programmed, type |-> type, size |-> 4,
     sumIsZero |-> sumIsZero, sections |-> sections]

Core == File(Valid, "PEI_CORE", TRUE, <<"TE", "PE32">>)

FirstFiles ==
    {Core,
     File(Valid, "PEI_CORE", TRUE, <<"TE">>),
     File(Valid, "PEI_CORE", FALSE, <<"PE32">>),
     File(Valid, "PEIM", TRUE, <<"PE32">>),
     File(Valid \cup {MARKED_FOR_UPDATE}, "PEIM", TRUE, <<"PE32">>),
     File(Valid \cup {DELETED}, "PEI_CORE", TRUE, <<"PE32">>),
     File({HEADER_CONSTRUCTION, HEADER_INVALID}, "PEI_CORE", TRUE, <<"PE32">>),
     File({HEADER_CONSTRUCTION}, "PEI_CORE", TRUE, <<"PE32">>)}

Volume(at) == [length |-> 10, header |-> 2, polarity |-> TRUE, at |-> at]

Second(file) == IF HEADER_INVALID \in Bits \ file.state THEN 2 + FileHeader ELSE 6

Inverted(file) == [file EXCEPT !.state = Bits \ @]

MCImages ==
    {Volume(2 :> file @@ Second(file) :> Core) : file \in FirstFiles}
      \cup {Volume(<<>>),
            [Volume(2 :> Inverted(Core)) EXCEPT !.polarity = FALSE]}

(* A variable volume that was never written, a microcode volume with a     *)
(* damaged header, and one of another device that the platform cannot know.*)
MCFlashes ==
    {[v \in Volumes |-> CASE v = "Variable" -> "erased"
                         [] v \in {"Microcode", "Other"} -> "damaged"
                         [] OTHER -> "valid"]}

MCHeaderLength == [v \in Volumes |-> IF v = "Variable" THEN 2 ELSE 1] @@ "platform" :> 3
MCRegionSize == 0 :> 7 @@ 1 :> 4
MCCapsuleSize == "fits" :> 2 @@ "fitsToo" :> 3 @@ "tooLarge" :> 4
MCAnswerLength == "GetRandom" :> 2 @@ "Startup" :> 0 @@ "Shutdown" :> 1

MCRefusals ==
    {Fine, [Fine EXCEPT ![0] = "noOpen"], [Fine EXCEPT ![1] = "noWrite"]}

Symmetry == Permutations(Bases)
===============================================================================
