-------------------------------- MODULE MCSpqr --------------------------------
(***************************************************************************)
(* Values of the constants of Spqr for TLC.                                *)
(***************************************************************************)
EXTENDS Spqr

\* One chunk per value: SpqrHandshake covers values in several chunks.
MCNeeded == [Hdr |-> 1, Ek |-> 1, Ct1 |-> 1, Ct2 |-> 1]

\* Messages overtake one another on the way to B, where one may also stay under
\* way forever, and are lost on the way to A.
LateToB == [p \in Party |-> IF p = A THEN 1 ELSE 2]
LostToA == [p \in Party |-> IF p = A THEN 1 ELSE 0]
=============================================================================
