---------------------------- MODULE MCSealedSender ----------------------------
(***************************************************************************)
(* Values of the constants of SealedSender for TLC.                        *)
(***************************************************************************)
EXTENDS SealedSender, TLC

\* A time before 1970, negative in UnixMilli, and one that the clock passes.
MCExpiries == {-1, 0}

\* The recipients are interchangeable.
Symmetric == Permutations(Recipients)
=============================================================================
