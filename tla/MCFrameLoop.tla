----------------------------- MODULE MCFrameLoop -----------------------------
(****************************************************************************)
(* FrameLoop with histories of two frames, two sizes and small bounds.        *)
(****************************************************************************)
EXTENDS FrameLoop, TLC

CONSTANTS small, large, w1, w2

MCSizes == {small, large}
MCWindows == {w1, w2}

Symmetry == Permutations(MCSizes) \cup Permutations(MCWindows)
==============================================================================
