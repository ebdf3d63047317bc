---------------------------- MODULE MCHidPipeline ----------------------------
(***************************************************************************)
(* HidPipeline with few keys.                                               *)
(***************************************************************************)
EXTENDS HidPipeline

\* Escape and C.
MCTwoKeys == << 41, 6 >>

\* Escape.
MCOneKey == << 41 >>
=============================================================================
