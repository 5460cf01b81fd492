---------------------------- MODULE SpqrHandshake ----------------------------
(***************************************************************************)
(* Two parties run the v1 state machine of package spqr against each other.*)
(* Its messages ride on the messages of a conversation (session/           *)
(* wire_cipher.go): every message that a party sends carries the next one, *)
(* and it may be lost or arrive late.  The conversation authenticates what *)
(* arrives and hands it over at most once.  recv runs on a clone of the    *)
(* state that is dropped when it returns an error, and every new state is  *)
(* stored and loaded again before the next operation.                      *)
(***************************************************************************)
EXTENDS SpqrCodec

CONSTANTS
  A,            \* the initiator: DirectionA2B
  B,            \* the responder: DirectionB2A
  MaxEpoch,     \* bound: no keys are sampled beyond this epoch
  MaxInFlight   \* bound: messages under way to one party

ASSUME SpqrHandshakeAssumption ==
  /\ A # B
  /\ MaxEpoch \in Nat \ {0}
  /\ MaxInFlight \in Nat \ {0}

VARIABLES
  st,       \* st[p]: the v1States of p
  samples,  \* samples[p]: how often p has drawn randomness
  net,      \* net[p]: the messages under way to p
  keys      \* keys[p]: the epoch secrets p has handed to its chain (history)

vars == <<st, samples, net, keys>>

Party == {A, B}
Peer(p) == IF p = A THEN B ELSE A

Init ==
  /\ st = [p \in Party |-> IF p = A THEN initV1StateA ELSE initV1StateB]
  /\ samples = [p \in Party |-> 0]
  /\ net = [p \in Party |-> {}]
  /\ keys = [p \in Party |-> << >>]

-----------------------------------------------------------------------------
(* Actions. *)

Output(ks, key) == IF key = Nothing THEN ks ELSE Append(ks, key)

DrawsSample(s) == s.phase \in {"KeysUnsampled", "HeaderReceived"}

\* The new state of p is stored, and loaded when p needs it.
Store(p, s) ==
  \E data \in {serializeV1States(s)} : st' = [st EXCEPT ![p] = deserializeV1States(data)]

Send(p) ==
  \E out \in {send(st[p], <<p, samples[p]>>)} :
  /\ st[p].phase = "KeysUnsampled" => st[p].epoch <= MaxEpoch
  /\ Cardinality(net[Peer(p)]) < MaxInFlight
  /\ Store(p, out.state)
  /\ samples' = [samples EXCEPT ![p] = IF DrawsSample(st[p]) THEN @ + 1 ELSE @]
  /\ net' = [net EXCEPT ![Peer(p)] = @ \cup {out.msg}]
  /\ keys' = [keys EXCEPT ![p] = Output(@, out.key)]

ReceiveMessage(p, m) ==
  \E out \in {recv(st[p], m)} :
  /\ Store(p, out.state)
  /\ net' = [net EXCEPT ![p] = @ \ {m}]
  /\ keys' = [keys EXCEPT ![p] = Output(@, out.key)]
  /\ UNCHANGED samples

Receive(p) == \E m \in net[p] : ReceiveMessage(p, m)

Lose(p) ==
  \E m \in net[p] :
    /\ net' = [net EXCEPT ![p] = @ \ {m}]
    /\ UNCHANGED <<st, samples, keys>>

Next == \E p \in Party : Send(p) \/ Receive(p) \/ Lose(p)

Spec == Init /\ [][Next]_vars

\* Both sides keep writing to each other, messages do not pile up for ever,
\* and not all the messages that would advance a party are lost.
Fairness ==
  \A p \in Party : WF_vars(Send(p)) /\ WF_vars(Receive(p)) /\ SF_st(Receive(p))

FairSpec == Spec /\ Fairness

-----------------------------------------------------------------------------
(* Properties. *)

Phases == {"KeysUnsampled", "KeysSampled", "HeaderSent", "Ct1Received", "EkSentCt1Received",
           "NoHeaderReceived", "HeaderReceived", "Ct1Sampled", "EkReceivedCt1Sampled",
           "Ct1Acknowledged", "Ct2Sampled"}

\* The kind of value that the decoder of a state collects the chunks of.
Receiving(s) ==
  CASE s.phase = "HeaderSent"        -> "Ct1"
    [] s.phase = "EkSentCt1Received" -> "Ct2"
    [] s.phase = "NoHeaderReceived"  -> "Hdr"
    [] s.phase \in {"HeaderReceived", "Ct1Sampled", "Ct1Acknowledged"} -> "Ek"

\* Every part of the state has its type, and no party sits on chunks that it
\* could decode; only the first chunk that opens a phase is not decoded at once.
TypeOK ==
  /\ \A p \in Party :
       /\ st[p].phase \in Phases
       /\ st[p].epoch \in Nat
       /\ st[p].sent \in 0 .. (IndexSpace - 1)
       /\ st[p].phase \in HasDecoder =>
            Cardinality(st[p].dec) <= 1 \/ Cardinality(st[p].dec) < Needed[Receiving(st[p])]
       /\ Cardinality(net[p]) <= MaxInFlight
  /\ samples \in [Party -> Nat]

\* No genuine message is ever refused, however late it arrives: not for its
\* epoch, not for its MAC, not because ek does not match the header.
NeverRefused == \A p \in Party : \A m \in net[p] : recv(st[p], m).err = "none"

\* Whoever receives a message already has, or gets with this message, the
\* secret of the epoch whose chain keys the message (State.Receive asks the
\* chain for epoch m.epoch - 1).
ReceiverHasEpoch ==
  \A p \in Party : \A m \in net[p] :
    m.epoch - 1 <= Len(Output(keys[p], recv(st[p], m).key))

\* The phases whose messages carry no chunk: the party waits for its peer.
Waiting == {"NoHeaderReceived", "Ct1Acknowledged", "EkSentCt1Received"}

\* The parties never wait for each other: at any time one of them is in a
\* phase in which it sends something new.
NoMutualWait == \E p \in Party : st[p].phase \notin Waiting

CKA == INSTANCE ContinuousKeyAgreement

\* The two state machines implement continuous key agreement: both hand the
\* same secrets to their chains, in the same order, none ahead by more than one.
ImplementsCKA == CKA!Spec

\* Under fair delivery the epochs go on: each party gets the secret of every
\* epoch (up to the bound), whatever is lost or late on the way.
EpochsAdvance == <>(\A p \in Party : Len(keys[p]) = MaxEpoch)
=============================================================================
