------------------------------ MODULE MCMaskHandover ---------------------------
(* Masks of no region or one: the left quarter of the frame, its left ten   *)
(* pixels, a text with a typo, and a sliver a hundred-thousandth of the      *)
(* frame wide.                                                              *)
EXTENDS MaskHandover

Region(right, px) == <<[fields |-> <<0, 0, right, Unit>>, px |-> px]>>

MCMaskTexts ==
    {<<>>, Region(Unit \div 4, FALSE), Region(10 * Unit, TRUE),
     Region(NotANumber, FALSE), Region(1, FALSE)}
=============================================================================
