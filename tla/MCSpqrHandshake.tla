--------------------------- MODULE MCSpqrHandshake ---------------------------
(***************************************************************************)
(* Values of the constants of SpqrHandshake for TLC.                       *)
(***************************************************************************)
EXTENDS SpqrHandshake

\* The code needs 3, 36, 30 and 5 chunks; two are enough for a value to be
\* complete, incomplete and completed out of order.
MCNeeded == [Hdr |-> 2, Ek |-> 2, Ct1 |-> 2, Ct2 |-> 2]
=============================================================================
