-------------------------- MODULE AtMostOnceChannel --------------------------
(***************************************************************************)
(* What an encrypted session promises its two users: every plaintext that  *)
(* is handed to a party was sent by the other one, each at most once, in   *)
(* any order.  Messages may be lost.                                       *)
(***************************************************************************)
EXTENDS Naturals

CONSTANT Party

VARIABLES
  sent,       \* the messages sent so far; m.from is the sender of m
  delivered,  \* delivered[p]: the messages handed to p
  plaintexts  \* plaintexts[p]: how many times a plaintext was handed to p

channelVars == <<sent, delivered, plaintexts>>

Init ==
  /\ sent = {}
  /\ delivered = [p \in Party |-> {}]
  /\ plaintexts = [p \in Party |-> 0]

Send(p) ==
  /\ \E m \in sent' \ sent : m.from = p /\ sent' = sent \cup {m}
  /\ UNCHANGED <<delivered, plaintexts>>

Deliver(p) ==
  /\ \E m \in sent \ delivered[p] :
       /\ m.from # p
       /\ delivered' = [delivered EXCEPT ![p] = @ \cup {m}]
  /\ plaintexts' = [plaintexts EXCEPT ![p] = @ + 1]
  /\ UNCHANGED sent

Next == \E p \in Party : Send(p) \/ Deliver(p)

Spec == Init /\ [][Next]_channelVars
=============================================================================
