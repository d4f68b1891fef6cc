-------------------------- MODULE MCCaptureSession --------------------------
(****************************************************************************)
(* CaptureSession with queues of two frames, two images and a bounded number  *)
(* of frames, starts and errors.                                              *)
(****************************************************************************)
EXTENDS CaptureSession, TLC

ImageSymmetry == Permutations(Images)
==============================================================================
