---------------------------- MODULE MCOutputClock ----------------------------
(****************************************************************************)
(* A small output clock for TLC.  The slot period is 161/5 = 32.2 ticks, so   *)
(* deadlines are rounded both up and down and drift against their exact       *)
(* position; a refresh of 16 ticks puts two vblanks in a slot within the one  *)
(* percent tolerance, 64 ticks two slots in a refresh, 48 is incommensurate   *)
(* and 0 is a display that reports nothing.                                   *)
(****************************************************************************)
EXTENDS OutputClock

MCSteps == {1, 31}
MCRefreshes == {0, 16, 48, 64}
MCLeads == {3}
MCVblankAges == {0, 21}
==============================================================================
