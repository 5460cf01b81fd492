----------------------- MODULE ContinuousKeyAgreement -----------------------
(***************************************************************************)
(* What the sparse post-quantum ratchet promises the chains on top of it:  *)
(* an endless sequence of secrets, one per epoch, the same at both ends.   *)
(* One end learns a secret first; the next one is not agreed before the    *)
(* other end has it too.                                                   *)
(***************************************************************************)
EXTENDS Naturals, Sequences

CONSTANT Party

VARIABLE keys   \* keys[p]: the secrets p has obtained

Init == keys = [p \in Party |-> << >>]

\* p obtains the secret of the next epoch.
Obtain(p) ==
  /\ Len(keys'[p]) = Len(keys[p]) + 1
  /\ \E k \in {keys'[p][Len(keys'[p])]} :
       /\ keys' = [keys EXCEPT ![p] = Append(@, k)]
       /\ \A q \in Party \ {p} :
            \/ Len(keys[q]) = Len(keys[p])
            \/ Len(keys[q]) = Len(keys[p]) + 1 /\ keys[q][Len(keys[q])] = k

Next == \E p \in Party : Obtain(p)

Spec == Init /\ [][Next]_keys
=============================================================================
